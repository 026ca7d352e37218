---------------------------- MODULE VerifyProofs ----------------------------
(***************************************************************************)
(* Theorems about module Verify, for any chain, any file, any range and    *)
(* any table, whatever is written while a command runs.                    *)
(***************************************************************************)
EXTENDS Verify, TLAPS

Compared == {"report", "clean", "different"}

(* The log has all that was read whole decodes to, and nothing that the    *)
(* source does not hold.                                                   *)
LogInv ==
    /\ \A u \in fetched : IdsAt(u) \subseteq log
    /\ \A id \in log : id \in Real /\ \E u \in Units : id \in IdsAt(u)

(* The table only grows, so what it held while the source was read it      *)
(* holds when it is queried.                                               *)
TableInv ==
    /\ settled \subseteq events
    /\ place \in Compared => settled \subseteq queried

(* The two differences are of one log and of one state of the table.       *)
ResultInv ==
    /\ place \in Compared =>
          /\ missing = log \ queried
          /\ extra = (queried \intersect Scope) \ log
    /\ place = "clean" => missing = {} /\ extra = {}

Inv == TypeOK /\ LogInv /\ TableInv /\ ResultInv

----------------------------------------------------------------------------
LEMMA InitInv == Init => Inv
  BY VerifyAssumption
     DEF Init, Inv, TypeOK, LogInv, TableInv, ResultInv, Compared, Places, Units,
         Modes

(* The chain and the other processes touch nothing of the command.         *)
LEMMA WorldKeepsInv ==
    ASSUME Inv, SlotPasses \/ \E id \in Ids : Store(id)
    PROVE  Inv'
  <1>1. UNCHANGED commandVars
    BY DEF SlotPasses, Store
  <1>2. events \subseteq events' /\ events' \in SUBSET Ids
    BY DEF SlotPasses, Store, Inv, TypeOK
  <1>3. head' \in 0 .. LastSlot
    BY VerifyAssumption DEF SlotPasses, Store, Inv, TypeOK
  <1> QED
    BY <1>1, <1>2, <1>3
       DEF Inv, TypeOK, LogInv, TableInv, ResultInv, Units, IdsAt, Scope,
           commandVars

LEMMA CommandKeepsInv ==
    ASSUME Inv,
           \/ Begin
           \/ \E u \in todo : Fetch(u) \/ FetchPart(u) \/ SkipUnit(u)
           \/ CutShort \/ PipelineEnds \/ Query \/ Report \/ Fails
    PROVE  Inv'
  <1> USE VerifyAssumption DEF chainVars
  <1>0. mode' = mode /\ UNCHANGED chainVars
    BY DEF Begin, Fetch, FetchPart, SkipUnit, CutShort, PipelineEnds, Query,
           Report, Fails
  <1>1. CASE Begin
    BY <1>0, <1>1
       DEF Begin, Blocks, Inv, TypeOK, LogInv, TableInv, ResultInv, Units,
           IdsAt, Places, Compared
  <1>2. ASSUME NEW u \in todo, Fetch(u)
        PROVE  Inv'
    <2>1. TypeOK'
      BY <1>0, <1>2 DEF Fetch, Inv, TypeOK, Units, IdsAt
    <2>2. LogInv'
      BY <1>0, <1>2 DEF Fetch, Inv, TypeOK, LogInv, IdsAt, Units
    <2>3. TableInv' /\ ResultInv'
      BY <1>0, <1>2 DEF Fetch, Inv, TableInv, ResultInv, Compared
    <2> QED
      BY <2>1, <2>2, <2>3 DEF Inv
  <1>3. ASSUME NEW u \in todo, SkipUnit(u)
        PROVE  Inv'
    BY <1>0, <1>3
       DEF SkipUnit, Inv, TypeOK, LogInv, TableInv, ResultInv, Units, IdsAt,
           Compared
  <1>4. CASE CutShort \/ PipelineEnds \/ Fails
    BY <1>0, <1>4
       DEF CutShort, PipelineEnds, Fails, Inv, TypeOK, LogInv, TableInv,
           ResultInv, Units, IdsAt, Places, Compared
  <1>5. CASE Query
    <2>1. TypeOK'
      BY <1>0, <1>5 DEF Query, Inv, TypeOK, Units, Places
    <2>2. LogInv' /\ TableInv'
      BY <1>0, <1>5 DEF Query, Inv, LogInv, TableInv, IdsAt, Units
    <2>3. ResultInv'
      BY <1>0, <1>5 DEF Query, ResultInv, Scope
    <2> QED
      BY <2>1, <2>2, <2>3 DEF Inv
  <1>6. CASE Report
    <2>1. TypeOK'
      BY <1>0, <1>6 DEF Report, Inv, TypeOK, Units, Places
    <2>2. LogInv' /\ TableInv'
      BY <1>0, <1>6 DEF Report, Inv, LogInv, TableInv, IdsAt, Units,
         Compared
    <2>3. ResultInv'
      BY <1>0, <1>6 DEF Report, Inv, ResultInv, Scope, Clean, Compared
    <2> QED
      BY <2>1, <2>2, <2>3 DEF Inv
  <1>7. ASSUME NEW u \in todo, FetchPart(u)
        PROVE  Inv'
    <2>1. PICK usable \in SUBSET Sigs :
              log' = log \union {id \in IdsAt(u) : SigOf[id] \in usable}
      BY <1>7 DEF FetchPart
    <2>2. TypeOK'
      BY <1>0, <1>7, <2>1 DEF FetchPart, Inv, TypeOK, Units, IdsAt
    <2>3. LogInv'
      BY <1>0, <1>7, <2>1 DEF FetchPart, Inv, TypeOK, LogInv, IdsAt, Units
    <2>4. TableInv' /\ ResultInv'
      BY <1>0, <1>7 DEF FetchPart, Inv, TableInv, ResultInv, Compared
    <2> QED
      BY <2>2, <2>3, <2>4 DEF Inv
  <1> QED
    BY <1>1, <1>2, <1>3, <1>4, <1>5, <1>6, <1>7

LEMMA StepKeepsInv == Inv /\ [Next]_vars => Inv'
  <1> SUFFICES ASSUME Inv, [Next]_vars
               PROVE  Inv'
    OBVIOUS
  <1>1. CASE Next
    BY <1>1, WorldKeepsInv, CommandKeepsInv DEF Next
  <1>2. CASE UNCHANGED vars
    BY <1>2
       DEF Inv, TypeOK, LogInv, TableInv, ResultInv, Units, IdsAt, Scope, vars,
           chainVars, commandVars
  <1> QED
    BY <1>1, <1>2

LEMMA AlwaysInv == Spec => []Inv
  BY InitInv, StepKeepsInv, PTL DEF Spec

----------------------------------------------------------------------------
(* Every variable keeps its type, and a source stays within its units.     *)
THEOREM TypeCorrect == Spec => []TypeOK
  <1>1. Inv => TypeOK
    BY DEF Inv
  <1> QED
    BY <1>1, AlwaysInv, PTL

(* Of a source that was read whole, everything that was asked about and is *)
(* real is in the log.                                                     *)
LEMMA LogIsWhole ==
    ASSUME Inv, fetched = Units, NEW id \in Real, AskedAbout(id)
    PROVE  id \in log
  BY VerifyAssumption
     DEF Inv, LogInv, Units, AskedAbout, IdsAt

(* And everything that was asked about is in the scope of the query.       *)
LEMMA ScopeIsWhole ==
    ASSUME Inv, fetched = Units, NEW id \in Ids, AskedAbout(id)
    PROVE  id \in Scope
  <1>1. CASE mode = "file"
    <2>1. PICK e \in Real :
              SigOf[e] = SigOf[id] /\ SigOf[e] \in {File[u] : u \in DOMAIN File}
      BY <1>1 DEF AskedAbout
    <2>2. AskedAbout(e)
      BY <1>1, <2>1 DEF AskedAbout
    <2> QED
      BY <1>1, <2>1, <2>2, LogIsWhole DEF Scope
  <1>2. CASE mode # "file"
    BY <1>2 DEF Scope, AskedAbout
  <1> QED
    BY <1>1, <1>2

(* A clean result of a source that was read whole is right, whatever was   *)
(* written meanwhile.                                                      *)
THEOREM CleanExact == Spec => []CleanIsExact
  <1>1. Inv => CleanIsExact
    <2> SUFFICES ASSUME Inv, place = "clean", fetched = Units,
                        NEW id \in Ids, AskedAbout(id)
                 PROVE  id \in queried <=> id \in Real
      BY DEF CleanIsExact
    <2>1. missing = {} /\ extra = {} /\ missing = log \ queried
              /\ extra = (queried \intersect Scope) \ log
      BY DEF Inv, ResultInv, Compared
    <2>2. ASSUME id \in Real
          PROVE  id \in queried
      BY <2>1, <2>2, LogIsWhole
    <2>3. ASSUME id \in queried
          PROVE  id \in Real
      BY <2>1, <2>3, ScopeIsWhole DEF Inv, LogInv
    <2> QED
      BY <2>2, <2>3
  <1> QED
    BY <1>1, AlwaysInv, PTL

(* What is reported missing or extra is so.                                *)
THEOREM DifferencesReal == Spec => []DifferencesAreReal
  <1>1. Inv => DifferencesAreReal
    <2> SUFFICES ASSUME Inv, place = "different"
                 PROVE  /\ missing \intersect settled = {}
                        /\ \A u \in fetched : extra \intersect IdsAt(u) = {}
                        /\ fetched = Units => extra \intersect Real = {}
      BY DEF DifferencesAreReal
    <2>1. settled \subseteq queried /\ missing = log \ queried
              /\ extra = (queried \intersect Scope) \ log
      BY DEF Inv, TableInv, ResultInv, Compared
    <2>2. missing \intersect settled = {}
      BY <2>1
    <2>3. \A u \in fetched : extra \intersect IdsAt(u) = {}
      BY <2>1 DEF Inv, LogInv, IdsAt
    <2>4. ASSUME fetched = Units, NEW id \in extra, id \in Real
          PROVE  FALSE
      <3>1. id \in Scope /\ id \notin log
        BY <2>1, <2>4
      <3>2. AskedAbout(id)
        BY <2>4, <3>1, VerifyAssumption
           DEF Scope, AskedAbout, Inv, LogInv, IdsAt, Units
      <3> QED
        BY <2>4, <3>1, <3>2, LogIsWhole
    <2> QED
      BY <2>2, <2>3, <2>4
  <1> QED
    BY <1>1, AlwaysInv, PTL
=============================================================================
