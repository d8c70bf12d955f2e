------------------------ MODULE BlockResolutionProofs ------------------------
(* The invariants of BlockResolution for every chain, set of scenarios and
   number of runs.  What they say of a run depends on its own variables and on
   rows that are only ever added, so that a step of another run keeps it
   (OthersKeep), and each action is left with its own run and the rows it adds. *)
EXTENDS BlockResolution, TLAPS

FnTypes ==
  /\ head \in Blocks
  /\ ceilingRow \in [Times -> Blocks \cup {None}]
  /\ atRow \in [Times -> Blocks \cup {None}]
  /\ codeRow \in Blocks \cup {None}
  /\ pc \in [Procs -> Working \cup {"idle", "ceiling", "store-ceiling", "invalid"}]
  /\ start \in [Procs -> Starts \cup {None}]
  /\ end \in [Procs -> Times \cup {None}]
  /\ ceiling \in [Procs -> Blocks \cup {None}]
  /\ job \in [Procs -> Jobs \cup {None}]
  /\ low \in [Procs -> Blocks] /\ high \in [Procs -> Blocks]
  /\ found \in [Procs -> [Jobs -> Blocks \cup {None, Absent}]]

CeilingRowsCover ==
  \A t \in Times : ceilingRow[t] # None => Covering(ceilingRow[t], t)
Shared == FnTypes /\ CeilingRowsCover /\ RowsExact

TypeOf(p) == /\ pc[p] # "idle" => start[p] # None /\ end[p] # None
             /\ pc[p] = "idle" => ceiling[p] = None /\ found[p][Code] = None
             /\ pc[p] \in Working => start[p] < end[p]
             /\ high[p] <= head
CeilingOf(p) == \/ ceiling[p] = None /\ pc[p] \in {"idle", "ceiling"}
                \/ ceiling[p] # None /\ Covering(ceiling[p], end[p])
SearchOf(p) ==
  /\ pc[p] = "search" /\ job[p] \in Times =>
       /\ low[p] <= high[p] /\ high[p] <= ceiling[p]
       /\ low[p] = 0 \/ Time[low[p]] <= job[p]
       /\ \A b \in Blocks : b > high[p] => Time[b] > job[p]
  /\ pc[p] = "search" /\ job[p] = Code =>
       /\ low[p] <= FirstCode /\ FirstCode <= high[p]
       /\ Block(p, start[p]) /\ high[p] <= found[p][start[p]]
  /\ pc[p] = "search" => job[p] # None
  /\ pc[p] = "store" =>
       job[p] \in Times /\ low[p] <= ceiling[p] /\ IsLast(low[p], job[p])
CeilingRowOf(p) == pc[p] \in Working => ceilingRow[end[p]] # None
FoundOf(p) ==
  /\ \A j \in Jobs : Block(p, j) => found[p][j] <= head
  /\ \A t \in Times : found[p][t] # None =>
       Block(p, t) /\ IsLast(found[p][t], t) /\ atRow[t] # None
  /\ Block(p, Code) => found[p][Code] = FirstCode /\ codeRow # None
  /\ Block(p, Code) => /\ Block(p, start[p])
                       /\ found[p][Code] <= found[p][start[p]]

Local(p) == /\ TypeOf(p) /\ CeilingOf(p) /\ SearchOf(p) /\ CeilingRowOf(p)
            /\ FoundOf(p) /\ pc[p] # "refused"

(* The inductive invariant: what is shared, and what each run makes of it. *)
IInv == Shared /\ \A p \in Procs : Local(p)

(* It is the conjunction of invariants of BlockResolution; RunsAgree follows from them. *)
LEMMA Meaning ==
  IInv <=> /\ TypeOK /\ CeilingCovers /\ RowsExact /\ ResolvesExactly /\ SearchBrackets
           /\ CeilingNeverRefuses /\ DeployedInTime /\ ReplaysOffline
BY DEF IInv, Shared, FnTypes, CeilingRowsCover, Local, TypeOf, CeilingOf,
   SearchOf, CeilingRowOf, FoundOf, TypeOK, CeilingCovers, ResolvesExactly,
   SearchBrackets, CeilingNeverRefuses, DeployedInTime, ReplaysOffline

(* Blocks and timestamps are numbers. *)
LEMMA Numbers == /\ \A b \in Blocks : b \in Int /\ 0 <= b
                 /\ \A t \in Times : t \in Int
                 /\ \A b \in Blocks : Time[b] \in Times
                 /\ None \notin Blocks /\ None \notin Times
                 /\ Absent \notin Blocks
<1>1. MaxBlock \in Int /\ Times \subseteq Nat  BY ChainAssumption
<1>2. None \notin Times \cup Blocks /\ Time \in [Blocks -> Times]
  BY ChainAssumption
<1>3. \A b \in Blocks : b \in Int /\ 0 <= b  BY <1>1 DEF Blocks
<1>4. QED  BY <1>1, <1>2, <1>3 DEF Absent

(* Every timestamp of a scenario is a number and not after its end. *)
LEMMA Dates ==
  ASSUME NEW s \in Starts, NEW e \in Times, s < e, NEW t \in DatesOf[s][e]
  PROVE  s \in DatesOf[s][e] /\ t \in Times /\ t <= e
<1>1. DatesOf \in [Starts -> [Times -> SUBSET Times]]  BY ChainAssumption
<1>2. DatesOf[s][e] \subseteq Times  BY <1>1
<1>3. QED  BY <1>2, ChainAssumption

Same(q) == /\ pc'[q] = pc[q] /\ start'[q] = start[q] /\ end'[q] = end[q]
           /\ ceiling'[q] = ceiling[q] /\ job'[q] = job[q] /\ low'[q] = low[q]
           /\ high'[q] = high[q] /\ found'[q] = found[q]
Grows == /\ head <= head'
         /\ \A t \in Times : atRow[t] # None => atRow'[t] # None
         /\ \A t \in Times : ceilingRow[t] # None => ceilingRow'[t] # None
         /\ codeRow # None => codeRow' # None

(* Rows that are added and blocks that finalize keep what holds of a run. *)
LEMMA OthersKeep ==
  ASSUME FnTypes, FnTypes', Grows, NEW q \in Procs, Same(q), Local(q)
  PROVE  Local(q)'
<1>1. /\ head \in Int /\ head' \in Int /\ head <= head'
      /\ \A b \in Blocks : b \in Int
      /\ high[q] \in Blocks
  BY Numbers DEF FnTypes, Grows
<1>2. TypeOf(q)'
  BY <1>1 DEF Local, TypeOf, Same
<1>3. CeilingOf(q)'
  <2>1. ceiling[q] # None => ceiling[q] \in Int  BY <1>1 DEF FnTypes
  <2>2. ceiling[q] # None /\ ceiling[q] <= head => ceiling[q] <= head'
    BY <2>1, <1>1
  <2>3. CeilingOf(q)  BY DEF Local
  <2>4. QED  BY <2>2, <2>3 DEF CeilingOf, Covering, Same
<1>4. SearchOf(q)'
  BY DEF Local, SearchOf, IsLast, Block, Same
<1>5. CeilingRowOf(q)'
  BY DEF Local, TypeOf, CeilingRowOf, Same, Grows, FnTypes, Working
<1>6. FoundOf(q)'
  <2>1. FoundOf(q)  BY DEF Local
  <2>2. \A j \in Jobs : Block(q, j) => found[q][j] \in Int
    BY <1>1 DEF FnTypes, Block
  <2>3. \A j \in Jobs : Block(q, j) => found[q][j] <= head'
    BY <1>1, <2>1, <2>2 DEF FoundOf
  <2>4. \A j \in Jobs : Block(q, j)' => found'[q][j] <= head'
    BY <2>3 DEF Block, Same
  <2>5. \A t \in Times : found'[q][t] # None =>
           Block(q, t)' /\ IsLast(found[q][t], t)' /\ atRow'[t] # None
    BY <2>1 DEF FoundOf, IsLast, Block, Same, Grows
  <2>6. Block(q, Code)' =>
          /\ found'[q][Code] = FirstCode /\ codeRow' # None
          /\ Block(q, start[q])' /\ found'[q][Code] <= found'[q][start'[q]]
    BY <2>1 DEF FoundOf, Block, Same, Grows
  <2>7. QED  BY <2>4, <2>5, <2>6 DEF FoundOf, Block, IsLast, Same
<1>7. QED  BY <1>2, <1>3, <1>4, <1>5, <1>6 DEF Local, Same

(* What remains to show of a step of run p. *)
LEMMA StepOf ==
  ASSUME IInv, NEW p \in Procs, Shared', Grows, Local(p)',
         \A q \in Procs : q # p => Same(q)
  PROVE  IInv'
<1>1. ASSUME NEW q \in Procs  PROVE Local(q)'
  <2>1. CASE q = p  BY <2>1
  <2>2. CASE q # p  BY <2>2, OthersKeep DEF IInv, Shared
  <2>3. QED  BY <2>1, <2>2
<1>2. QED  BY <1>1 DEF IInv

Others(p) == \A q \in Procs : q # p => Same(q)

(* Steps that leave the rows and the head alone. *)
LEMMA RunOnly ==
  ASSUME IInv, NEW p \in Procs, UNCHANGED <<head, rows>>, FnTypes', Local(p)',
         Others(p)
  PROVE  IInv'
<1>1. Shared'  BY DEF IInv, Shared, CeilingRowsCover, Covering, RowsExact, IsLast, rows
<1>2. Grows  BY Numbers DEF IInv, Shared, FnTypes, Grows, rows
<1>3. QED  BY <1>1, <1>2, StepOf DEF Others

(* The types of the variables of one run. *)
LEMMA Types ==
  ASSUME IInv, NEW p \in Procs
  PROVE  /\ start[p] \in Starts \cup {None} /\ end[p] \in Times \cup {None}
         /\ ceiling[p] \in Blocks \cup {None} /\ job[p] \in Jobs \cup {None}
         /\ low[p] \in Blocks /\ high[p] \in Blocks /\ head \in Blocks
         /\ found[p] \in [Jobs -> Blocks \cup {None, Absent}]
         /\ FnTypes /\ Shared /\ Local(p)
BY DEF IInv, Shared, FnTypes

-----------------------------------------------------------------------------
(* The ceiling *)

LEMMA InitHolds == Init => IInv
<1> SUFFICES ASSUME Init  PROVE IInv  OBVIOUS
<1>1. 0 \in Blocks /\ MinHead..MaxBlock \subseteq Blocks
  BY ChainAssumption DEF Blocks
<1>2. FnTypes  BY <1>1 DEF Init, FnTypes, Working
<1>3. CeilingRowsCover /\ RowsExact  BY DEF Init, CeilingRowsCover, RowsExact
<1>4. ASSUME NEW p \in Procs  PROVE Local(p)
  <2>1. pc[p] = "idle" /\ ceiling[p] = None /\ high[p] = 0
    BY DEF Init
  <2>2. \A j \in Jobs : found[p][j] = None  BY DEF Init
  <2>3. Code \in Jobs /\ \A t \in Times : t \in Jobs  BY DEF Jobs
  <2>4. 0 <= head  BY <1>2, Numbers DEF FnTypes
  <2>5. FoundOf(p)  BY <2>2, <2>3 DEF FoundOf, Block
  <2>6. QED  BY <2>1, <2>2, <2>3, <2>4, <2>5
             DEF Local, TypeOf, CeilingOf, SearchOf, CeilingRowOf, Working
<1>5. QED  BY <1>2, <1>3, <1>4 DEF IInv, Shared

LEMMA FinalizeKeeps == ASSUME IInv, Finalize  PROVE IInv'
<1>1. head \in Blocks /\ head' = head + 1 /\ head < MaxBlock /\ FnTypes
  BY DEF Finalize, IInv, Shared, FnTypes
<1>2. head' \in Blocks /\ head <= head'  BY <1>1, ChainAssumption DEF Blocks
<1>3. FnTypes'
  BY <1>1, <1>2 DEF Finalize, FnTypes, rows, scenario, search
<1>4. Grows  BY <1>2 DEF Finalize, Grows, rows
<1>5. CeilingRowsCover'
  <2>1. ASSUME NEW t \in Times, ceilingRow[t] # None
        PROVE  ceilingRow[t] <= head' /\ t <= Time[ceilingRow[t]]
    <3>1. ceilingRow[t] \in Int  BY <2>1, <1>1, Numbers DEF FnTypes
    <3>2. ceilingRow[t] <= head /\ t <= Time[ceilingRow[t]]
      BY <2>1 DEF IInv, Shared, CeilingRowsCover, Covering
    <3>3. QED  BY <3>1, <3>2, <1>1, <1>2, Numbers
  <2>2. QED  BY <2>1 DEF CeilingRowsCover, Covering, Finalize, rows
<1>6. RowsExact'  BY DEF IInv, Shared, RowsExact, IsLast, Finalize, rows
<1>7. \A q \in Procs : Same(q)  BY DEF Finalize, Same, scenario, search
<1>8. QED  BY <1>1, <1>3, <1>4, <1>5, <1>6, <1>7, OthersKeep DEF IInv, Shared

(* What both ways to begin a run change, and what a ceiling has to be. *)
LEMMA BeginKeeps ==
  ASSUME IInv, NEW p \in Procs, NEW s \in Starts, NEW e \in Times, Begin(p, s, e),
         UNCHANGED <<head, rows, search, found>>,
         NEW c \in Blocks \cup {None}, ceiling' = [ceiling EXCEPT ![p] = c],
         c # None => Covering(c, e)
  PROVE  IInv'
<1>1. FnTypes'
  BY Types DEF FnTypes, Begin, Goto, rows, search
<1>2. /\ pc[p] = "idle" /\ pc'[p] = "ceiling" /\ start'[p] = s /\ end'[p] = e
      /\ ceiling'[p] = c /\ high'[p] = high[p] /\ found' = found
  BY Types DEF FnTypes, Begin, Goto, search
<1>3. Others(p)  BY Types DEF FnTypes, Begin, Goto, search, Others, Same
<1>4. TypeOf(p)'
  BY <1>2, Types, Numbers, ChainAssumption DEF Local, TypeOf, Working
<1>5. CeilingOf(p)'  BY <1>2 DEF CeilingOf, Covering
<1>6. SearchOf(p)' /\ CeilingRowOf(p)'
  BY <1>2 DEF SearchOf, CeilingRowOf, Working
<1>7. FoundOf(p)'
  <2>1. FoundOf(p) /\ found[p][Code] = None  BY <1>2, Types DEF Local, TypeOf
  <2>2. QED  BY <1>2, <2>1 DEF FoundOf, Block, IsLast, rows
<1>8. Local(p)'  BY <1>2, <1>4, <1>5, <1>6, <1>7 DEF Local
<1>9. QED  BY <1>1, <1>3, <1>8, RunOnly

LEMMA GivenEndKeeps ==
  ASSUME IInv, NEW p \in Procs, NEW s \in Starts, NEW e \in Times,
         GivenEnd(p, s, e)
  PROVE  IInv'
<1>1. Begin(p, s, e) /\ UNCHANGED <<head, rows, search, found>>
  BY DEF GivenEnd
<1>2. ceiling[p] = None  BY <1>1, Types DEF Begin, Local, TypeOf
<1>3. ceiling' = [ceiling EXCEPT ![p] = None]
  BY <1>2, Types DEF FnTypes, GivenEnd
<1>4. QED  BY <1>1, <1>3, BeginKeeps

LEMMA DefaultEndKeeps ==
  ASSUME IInv, NEW p \in Procs, NEW s \in Starts, DefaultEnd(p, s)  PROVE IInv'
<1>1. head \in Blocks /\ Time[head] \in Times  BY Types, Numbers
<1>2. Covering(head, Time[head])  BY <1>1, Numbers DEF Covering
<1>3. Begin(p, s, Time[head]) /\ UNCHANGED <<head, rows, search, found>>
  BY DEF DefaultEnd
<1>4. ceiling' = [ceiling EXCEPT ![p] = head]  BY DEF DefaultEnd
<1>5. QED  BY <1>1, <1>2, <1>3, <1>4, BeginKeeps

LEMMA CeilingHitKeeps ==
  ASSUME IInv, NEW p \in Procs, CeilingHit(p)  PROVE IInv'
<1>1. FnTypes /\ CeilingRowsCover /\ TypeOf(p) /\ FoundOf(p)
  BY Types DEF Shared, Local
<1>2. /\ pc[p] = "ceiling" /\ start[p] \in Starts /\ end[p] \in Times
      /\ ceilingRow[end[p]] # None /\ ceilingRow[end[p]] \in Blocks
  BY <1>1, Types DEF CeilingHit, TypeOf, FnTypes
<1>3. FnTypes'
  BY <1>1, <1>2 DEF FnTypes, CeilingHit, CreateScenario, Goto, rows, scenario,
                    search, Working
<1>4. /\ ceiling'[p] = ceilingRow[end[p]] /\ start' = start /\ end' = end
      /\ high' = high /\ found' = found /\ head' = head /\ atRow' = atRow
      /\ ceilingRow' = ceilingRow /\ codeRow' = codeRow
      /\ (start[p] < end[p] /\ pc'[p] = "dates") \/ pc'[p] = "invalid"
  BY <1>1 DEF FnTypes, CeilingHit, CreateScenario, Goto, rows, scenario, search
<1>5. Others(p)
  BY <1>1 DEF FnTypes, CeilingHit, CreateScenario, Goto, scenario, search,
              Others, Same
<1>6. TypeOf(p)'  BY <1>1, <1>2, <1>4, Numbers DEF TypeOf, Working
<1>7. CeilingOf(p)'
  BY <1>1, <1>2, <1>4, Numbers DEF CeilingRowsCover, CeilingOf, Covering
<1>8. SearchOf(p)' /\ CeilingRowOf(p)' /\ FoundOf(p)'
  BY <1>1, <1>2, <1>4 DEF SearchOf, CeilingRowOf, FoundOf, Block, IsLast, Working
<1>9. Local(p)'  BY <1>4, <1>6, <1>7, <1>8 DEF Local
<1>10. QED  BY <1>3, <1>5, <1>9, RunOnly DEF CeilingHit

LEMMA FetchCeilingKeeps ==
  ASSUME IInv, NEW p \in Procs, FetchCeiling(p)  PROVE IInv'
<1>1. FnTypes /\ TypeOf(p) /\ CeilingOf(p) /\ FoundOf(p)
  BY Types DEF Local
<1>2. /\ pc[p] = "ceiling" /\ start[p] \in Starts /\ end[p] \in Times
      /\ head \in Blocks /\ ceiling[p] \in Blocks \cup {None}
  BY <1>1, Types DEF FetchCeiling, TypeOf
<1>3. ceiling' = [ceiling EXCEPT ![p] = IF ceiling[p] = None THEN head ELSE ceiling[p]]
  BY DEF FetchCeiling
<1>4. FnTypes'
  BY <1>1, <1>2, <1>3 DEF FnTypes, FetchCeiling, Goto, rows, scenario, search
<1>5. /\ ceiling'[p] = IF ceiling[p] = None THEN head ELSE ceiling[p]
      /\ pc'[p] = "store-ceiling" /\ start' = start /\ end' = end
      /\ high' = high /\ found' = found /\ head' = head /\ atRow' = atRow
      /\ ceilingRow' = ceilingRow /\ codeRow' = codeRow
  BY <1>1, <1>3 DEF FnTypes, FetchCeiling, Goto, rows, scenario, search
<1>6. Others(p)
  BY <1>1, <1>3 DEF FnTypes, FetchCeiling, Goto, scenario, search, Others, Same
<1>7. ceiling'[p] # None /\ ceiling'[p] <= head
  BY <1>1, <1>2, <1>5, Numbers DEF CeilingOf, Covering
<1>8. end[p] <= Time[ceiling'[p]]  BY DEF FetchCeiling, Covers
<1>9. TypeOf(p)' /\ CeilingOf(p)'
  BY <1>1, <1>2, <1>5, <1>7, <1>8 DEF TypeOf, CeilingOf, Covering, Working
<1>10. SearchOf(p)' /\ CeilingRowOf(p)' /\ FoundOf(p)'
  BY <1>1, <1>5 DEF SearchOf, CeilingRowOf, FoundOf, Block, IsLast, Working
<1>11. Local(p)'  BY <1>5, <1>9, <1>10 DEF Local
<1>12. QED  BY <1>4, <1>6, <1>11, RunOnly DEF FetchCeiling

LEMMA StoreCeilingKeeps ==
  ASSUME IInv, NEW p \in Procs, StoreCeiling(p)  PROVE IInv'
<1>1. FnTypes /\ CeilingRowsCover /\ RowsExact /\ TypeOf(p) /\ CeilingOf(p) /\ FoundOf(p)
  BY Types DEF Local, Shared
<1>2. /\ pc[p] = "store-ceiling" /\ start[p] \in Starts /\ end[p] \in Times
      /\ ceiling[p] \in Blocks /\ Covering(ceiling[p], end[p])
  BY <1>1, Types DEF StoreCeiling, TypeOf, CeilingOf
<1>3. ceilingRow' = [ceilingRow EXCEPT ![end[p]] =
                       IF ceilingRow[end[p]] = None THEN ceiling[p]
                       ELSE ceilingRow[end[p]]]
  BY DEF StoreCeiling, Kept
<1>4. FnTypes'
  BY <1>1, <1>2, <1>3 DEF FnTypes, StoreCeiling, CreateScenario, Goto, scenario,
                          search, Working
<1>5. /\ ceiling' = ceiling /\ start' = start /\ end' = end
      /\ high' = high /\ found' = found /\ head' = head /\ atRow' = atRow
      /\ codeRow' = codeRow
      /\ (start[p] < end[p] /\ pc'[p] = "dates") \/ pc'[p] = "invalid"
  BY <1>1 DEF FnTypes, StoreCeiling, CreateScenario, Goto, scenario, search
<1>6. Others(p)
  BY <1>1 DEF FnTypes, StoreCeiling, CreateScenario, Goto, scenario, search,
              Others, Same
<1>7. /\ \A t \in Times : t # end[p] => ceilingRow'[t] = ceilingRow[t]
      /\ ceilingRow[end[p]] # None => ceilingRow'[end[p]] = ceilingRow[end[p]]
      /\ ceilingRow[end[p]] = None => ceilingRow'[end[p]] = ceiling[p]
  BY <1>1, <1>2, <1>3 DEF FnTypes
<1>8. Shared'
  <2>1. CeilingRowsCover'
    BY <1>1, <1>2, <1>5, <1>7 DEF CeilingRowsCover, Covering
  <2>2. RowsExact'  BY <1>1, <1>5 DEF RowsExact, IsLast
  <2>3. QED  BY <1>4, <2>1, <2>2 DEF Shared
<1>9. ceiling[p] # None  BY <1>2, Numbers
<1>10. Grows
  <2>1. \A t \in Times : ceilingRow[t] # None => ceilingRow'[t] # None
    BY <1>7
  <2>2. head <= head'  BY <1>1, <1>5, Numbers DEF FnTypes
  <2>3. QED  BY <1>5, <2>1, <2>2 DEF Grows
<1>11. TypeOf(p)' /\ CeilingOf(p)'
  BY <1>1, <1>2, <1>5, <1>9 DEF TypeOf, CeilingOf, Covering, Working
<1>12. SearchOf(p)' /\ CeilingRowOf(p)' /\ FoundOf(p)'
  BY <1>1, <1>2, <1>5, <1>7, <1>9
     DEF SearchOf, CeilingRowOf, FoundOf, Block, IsLast, Working
<1>13. Local(p)'  BY <1>5, <1>11, <1>12 DEF Local
<1>14. QED  BY <1>8, <1>10, <1>6, <1>13, StepOf DEF Others

-----------------------------------------------------------------------------
(* The search for a date *)

(* What a run knows of a date it asks for. *)
LEMMA DueDate ==
  ASSUME IInv, NEW p \in Procs, NEW t, Due(p, t)
  PROVE  /\ pc[p] = "dates" /\ t \in Times /\ found[p][t] = None
         /\ start[p] \in Starts /\ end[p] \in Times /\ start[p] < end[p]
         /\ ceiling[p] \in Blocks /\ ceiling[p] <= head
         /\ t <= Time[ceiling[p]]
<1>1. pc[p] = "dates" /\ t \in DatesOf[start[p]][end[p]] /\ found[p][t] = None
  BY DEF Due, Unresolved
<1>2. /\ start[p] \in Starts /\ end[p] \in Times /\ start[p] < end[p]
  BY <1>1, Types DEF Local, TypeOf, Working
<1>3. t \in Times /\ t <= end[p]  BY <1>1, <1>2, Dates
<1>4. /\ ceiling[p] \in Blocks /\ ceiling[p] <= head /\ end[p] <= Time[ceiling[p]]
  BY <1>1, Types DEF Local, CeilingOf, Covering
<1>5. t \in Int /\ end[p] \in Int /\ Time[ceiling[p]] \in Int
  BY <1>2, <1>3, <1>4, Numbers
<1>6. QED  BY <1>1, <1>2, <1>3, <1>4, <1>5

(* Below a ceiling that reaches t lies the last block at or before t. *)
LEMMA LastIsBelow ==
  ASSUME NEW b \in Blocks, NEW c \in Blocks, NEW t \in Times, IsLast(b, t),
         t <= Time[c]
  PROVE  b <= c
<1>1. /\ b \in Int /\ c \in Int /\ t \in Int /\ Time[b] \in Int /\ Time[c] \in Int
  BY Numbers
<1>2. ~(c < b)
  <2>1. ASSUME c < b  PROVE FALSE
    <3>1. Time[c] < Time[b]  BY <2>1, ChainAssumption
    <3>2. QED  BY <3>1, <1>1 DEF IsLast
  <2>2. QED  BY <2>1
<1>3. QED  BY <1>1, <1>2

LEMMA AtHitKeeps ==
  ASSUME IInv, NEW p \in Procs, NEW t, AtHit(p, t)  PROVE IInv'
<1>1. /\ FnTypes /\ RowsExact /\ TypeOf(p) /\ CeilingOf(p) /\ FoundOf(p)
      /\ CeilingRowOf(p)
  BY Types DEF Local, Shared
<1>2. /\ pc[p] = "dates" /\ t \in Times /\ t \in Jobs /\ found[p][t] = None
      /\ ceiling[p] \in Blocks /\ ceiling[p] <= head /\ t <= Time[ceiling[p]]
  BY DueDate DEF AtHit, Jobs
<1>3. atRow[t] # None /\ atRow[t] \in Blocks /\ IsLast(atRow[t], t)
  BY <1>1, <1>2 DEF AtHit, FnTypes, RowsExact
<1>4. atRow[t] <= ceiling[p]  BY <1>2, <1>3, LastIsBelow
<1>5. ~(atRow[t] > ceiling[p]) /\ atRow[t] <= head
  BY <1>1, <1>2, <1>3, <1>4, Numbers DEF FnTypes
<1>6. found' = [found EXCEPT ![p][t] = atRow[t]] /\ pc' = pc
  BY <1>5 DEF AtHit, Resolve
<1>7. /\ start' = start /\ end' = end /\ ceiling' = ceiling /\ job' = job
      /\ low' = low /\ high' = high /\ head' = head /\ atRow' = atRow
      /\ codeRow' = codeRow /\ ceilingRow' = ceilingRow
  BY DEF AtHit, rows, scenario, search
<1>8. FnTypes'  BY <1>1, <1>2, <1>3, <1>6, <1>7 DEF FnTypes
<1>9. Others(p)  BY <1>1, <1>6, <1>7 DEF FnTypes, Others, Same
<1>10. /\ found'[p][t] = atRow[t]
       /\ \A j \in Jobs : j # t => found'[p][j] = found[p][j]
  BY <1>1, <1>2, <1>6 DEF FnTypes
<1>11. /\ t # Code /\ Code \in Jobs /\ Times \subseteq Jobs
       /\ start[p] \in Times /\ atRow[t] # Absent
  BY <1>1, <1>2, <1>3, Numbers, ChainAssumption, Types DEF Jobs, TypeOf
<1>12. TypeOf(p)' /\ CeilingOf(p)' /\ SearchOf(p)' /\ CeilingRowOf(p)'
  BY <1>1, <1>2, <1>6, <1>7
     DEF TypeOf, CeilingOf, Covering, SearchOf, CeilingRowOf, Working
<1>13. FoundOf(p)'
  <2>1. \A j \in Jobs : Block(p, j)' => found'[p][j] <= head'
    BY <1>1, <1>5, <1>7, <1>10 DEF FoundOf, Block
  <2>2. \A u \in Times : found'[p][u] # None =>
          Block(p, u)' /\ IsLast(found[p][u], u)' /\ atRow'[u] # None
    BY <1>1, <1>3, <1>7, <1>10, <1>11 DEF FoundOf, Block, IsLast
  <2>3. Block(p, Code)' => Block(p, Code)  BY <1>10, <1>11 DEF Block
  <2>4. Block(p, Code) => start[p] # t  BY <1>1, <1>2 DEF FoundOf, Block
  <2>5. Block(p, Code)' =>
          /\ found'[p][Code] = FirstCode /\ codeRow' # None
          /\ Block(p, start[p])' /\ found'[p][Code] <= found'[p][start'[p]]
    BY <1>1, <1>7, <1>10, <1>11, <2>3, <2>4 DEF FoundOf, Block
  <2>6. QED  BY <2>1, <2>2, <2>5, <1>7 DEF FoundOf, Block, IsLast
<1>14. Local(p)'  BY <1>2, <1>6, <1>12, <1>13 DEF Local
<1>15. QED  BY <1>7, <1>8, <1>9, <1>14, RunOnly DEF rows

LEMMA AtMissKeeps ==
  ASSUME IInv, NEW p \in Procs, NEW t, AtMiss(p, t)  PROVE IInv'
<1>1. /\ FnTypes /\ TypeOf(p) /\ CeilingOf(p) /\ FoundOf(p) /\ CeilingRowOf(p)
  BY Types DEF Local, Shared
<1>2. /\ pc[p] = "dates" /\ t \in Times /\ t \in Jobs /\ t # Code
      /\ ceiling[p] \in Blocks /\ ceiling[p] <= head /\ t <= Time[ceiling[p]]
      /\ start[p] < end[p] /\ t # None
  BY DueDate, ChainAssumption DEF AtMiss, Jobs
<1>3. /\ start' = start /\ end' = end /\ ceiling' = ceiling /\ found' = found
      /\ head' = head /\ atRow' = atRow /\ codeRow' = codeRow
      /\ ceilingRow' = ceilingRow
  BY DEF AtMiss, rows, scenario
<1>4. 0 \in Blocks  BY ChainAssumption DEF Blocks
<1>5. FnTypes'
  BY <1>1, <1>2, <1>3, <1>4 DEF AtMiss, FnTypes, Goto, Working
<1>6. Others(p)  BY <1>1, <1>3 DEF AtMiss, FnTypes, Goto, Others, Same
<1>7. /\ job'[p] = t /\ high'[p] = ceiling[p]
      /\ low'[p] = IF t < Time[ceiling[p]] THEN 0 ELSE ceiling[p]
      /\ pc'[p] = IF t < Time[ceiling[p]] THEN "search" ELSE "store"
  BY <1>1 DEF AtMiss, FnTypes, Goto, BelowCeiling
<1>8. TypeOf(p)' /\ CeilingOf(p)' /\ CeilingRowOf(p)' /\ FoundOf(p)'
  BY <1>1, <1>2, <1>3, <1>7
     DEF TypeOf, CeilingOf, Covering, CeilingRowOf, FoundOf, Block, IsLast, Working
<1>9. \A b \in Blocks : b > ceiling[p] => Time[b] > Time[ceiling[p]]
  <2>1. SUFFICES ASSUME NEW b \in Blocks, b > ceiling[p]
                 PROVE  Time[b] > Time[ceiling[p]]
    OBVIOUS
  <2>2. ceiling[p] < b  BY <2>1, <1>2, Numbers
  <2>3. Time[ceiling[p]] < Time[b]  BY <1>2, <2>2, ChainAssumption
  <2>4. QED  BY <2>3, <1>2, Numbers
<1>10. /\ t \in Int /\ Time[ceiling[p]] \in Int /\ ceiling[p] \in Int
       /\ 0 <= ceiling[p] /\ \A b \in Blocks : Time[b] \in Int
  BY <1>2, Numbers
<1>11. SearchOf(p)'
  <2>1. CASE t < Time[ceiling[p]]
    <3>1. pc'[p] = "search" /\ low'[p] = 0  BY <2>1, <1>7
    <3>2. \A b \in Blocks : b > high'[p] => Time[b] > job'[p]
      BY <2>1, <1>7, <1>9, <1>10
    <3>3. low'[p] <= high'[p] /\ high'[p] <= ceiling'[p]
      BY <3>1, <1>3, <1>7, <1>10
    <3>4. QED  BY <3>1, <3>2, <3>3, <1>2, <1>7 DEF SearchOf
  <2>2. CASE ~(t < Time[ceiling[p]])
    <3>1. pc'[p] = "store" /\ low'[p] = ceiling[p]  BY <2>2, <1>7
    <3>2. t = Time[ceiling[p]]  BY <2>2, <1>2, <1>10
    <3>3. IsLast(low[p], job[p])'  BY <3>1, <3>2, <1>7, <1>9, <1>10 DEF IsLast
    <3>4. low'[p] <= ceiling'[p]  BY <3>1, <1>3, <1>10
    <3>5. QED  BY <3>1, <3>3, <3>4, <1>2, <1>7 DEF SearchOf
  <2>3. QED  BY <2>1, <2>2
<1>12. pc'[p] # "refused"  BY <1>7
<1>13. Local(p)'  BY <1>8, <1>11, <1>12 DEF Local
<1>14. QED  BY <1>3, <1>5, <1>6, <1>13, RunOnly DEF rows

(* One read halves what is left, upwards for a date, downwards for the code. *)
LEMMA Halves ==
  ASSUME NEW l \in Int, NEW h \in Int, 0 <= l, l < h
  PROVE  LET up == (l + h + 1) \div 2
             down == (l + h) \div 2
         IN  /\ l < up /\ up <= h /\ 2 * (h - up) <= h - l
             /\ 2 * ((up - 1) - l) <= h - l
             /\ l <= down /\ down < h /\ 2 * (down - l) <= h - l
             /\ 2 * (h - (down + 1)) <= h - l
OBVIOUS

(* Numbers between two blocks are blocks. *)
LEMMA Between ==
  ASSUME NEW l \in Blocks, NEW h \in Blocks, NEW m \in Int, l <= m, m <= h
  PROVE  m \in Blocks
BY ChainAssumption DEF Blocks

LEMMA ProbeTimeKeeps ==
  ASSUME IInv, NEW p \in Procs, ProbeTime(p)  PROVE IInv'
<1>1. /\ FnTypes /\ TypeOf(p) /\ CeilingOf(p) /\ FoundOf(p) /\ CeilingRowOf(p)
      /\ SearchOf(p)
  BY Types DEF Local, Shared
<1>2. /\ pc[p] = "search" /\ job[p] # Code /\ low[p] < high[p]
      /\ low[p] \in Blocks /\ high[p] \in Blocks /\ head \in Blocks
      /\ job[p] \in Jobs \cup {None}
  BY Types DEF ProbeTime
<1>3. job[p] \in Times /\ job[p] \in Int  BY <1>1, <1>2, Numbers DEF SearchOf, Jobs
<1>4. /\ low[p] \in Int /\ high[p] \in Int /\ head \in Int /\ 0 <= low[p]
      /\ high[p] <= head
  BY <1>1, <1>2, Numbers DEF TypeOf
<1>5. PICK m \in Int : m = (low[p] + high[p] + 1) \div 2
  BY <1>4
<1>6. low[p] < m /\ m <= high[p]  BY <1>2, <1>4, <1>5, Halves
<1>7. m \in Blocks /\ m - 1 \in Blocks
  BY <1>2, <1>4, <1>6, Between
<1>8. /\ start' = start /\ end' = end /\ ceiling' = ceiling /\ found' = found
      /\ head' = head /\ atRow' = atRow /\ codeRow' = codeRow
      /\ ceilingRow' = ceilingRow /\ pc' = pc /\ job' = job
  BY DEF ProbeTime, rows, scenario
<1>9. \/ /\ Time[m] <= job[p]
         /\ low' = [low EXCEPT ![p] = m] /\ high' = high
      \/ /\ ~(Time[m] <= job[p])
         /\ high' = [high EXCEPT ![p] = m - 1] /\ low' = low
  BY <1>5 DEF ProbeTime, AtOrBefore, MiddleUp
<1>10. FnTypes'
  <2>1. low' \in [Procs -> Blocks] /\ high' \in [Procs -> Blocks]
    BY <1>1, <1>7, <1>9 DEF FnTypes
  <2>2. QED  BY <1>1, <1>8, <2>1 DEF FnTypes
<1>11. Others(p)  BY <1>1, <1>8, <1>9 DEF FnTypes, Others, Same
<1>12. \/ Time[m] <= job[p] /\ low'[p] = m /\ high'[p] = high[p]
       \/ ~(Time[m] <= job[p]) /\ high'[p] = m - 1 /\ low'[p] = low[p]
  BY <1>1, <1>9 DEF FnTypes
<1>13. high'[p] <= high[p]  BY <1>4, <1>6, <1>12
<1>14. TypeOf(p)' /\ CeilingOf(p)' /\ CeilingRowOf(p)' /\ FoundOf(p)'
  <2>1. high'[p] \in Int  BY <1>4, <1>12
  <2>2. high'[p] <= head  BY <2>1, <1>4, <1>13
  <2>3. TypeOf(p)'  BY <1>1, <1>8, <2>2 DEF TypeOf
  <2>4. QED  BY <1>1, <1>8, <2>3
             DEF CeilingOf, Covering, CeilingRowOf, FoundOf, Block, IsLast
<1>15. ceiling[p] \in Int  BY <1>1, <1>2, Types, Numbers DEF CeilingOf
<1>16. \A b \in Blocks : b \in Int /\ Time[b] \in Int  BY Numbers
<1>17. SearchOf(p)'
  <2>1. /\ low[p] <= high[p] /\ high[p] <= ceiling[p]
        /\ low[p] = 0 \/ Time[low[p]] <= job[p]
        /\ \A b \in Blocks : b > high[p] => Time[b] > job[p]
    BY <1>1, <1>2, <1>3 DEF SearchOf
  <2>2. low'[p] <= high'[p] /\ high'[p] <= ceiling[p]
    BY <1>4, <1>6, <1>12, <1>15, <2>1
  <2>3. low'[p] = 0 \/ Time[low'[p]] <= job[p]  BY <1>12, <2>1
  <2>4. \A b \in Blocks : b > high'[p] => Time[b] > job[p]
    <3>1. CASE high'[p] = high[p]  BY <3>1, <2>1
    <3>2. CASE ~(Time[m] <= job[p]) /\ high'[p] = m - 1
      <4>1. Time[m] > job[p]  BY <3>2, <1>3, <1>7, <1>16
      <4>2. SUFFICES ASSUME NEW b \in Blocks, b > m - 1, b # m
                     PROVE  Time[b] > job[p]
        BY <3>2, <4>1
      <4>3. m < b  BY <4>2, <1>7, <1>16
      <4>4. Time[m] < Time[b]  BY <4>3, <1>7, ChainAssumption
      <4>5. QED  BY <4>1, <4>4, <1>3, <1>7, <1>16
    <3>3. QED  BY <3>1, <3>2, <1>12
  <2>5. /\ pc'[p] = "search" /\ job'[p] = job[p] /\ job[p] # Code
        /\ job[p] # None /\ ceiling'[p] = ceiling[p]
    BY <1>1, <1>2, <1>8 DEF SearchOf
  <2>6. QED  BY <2>2, <2>3, <2>4, <2>5 DEF SearchOf
<1>18. Local(p)'  BY <1>2, <1>8, <1>14, <1>17 DEF Local
<1>19. QED  BY <1>8, <1>10, <1>11, <1>18, RunOnly DEF rows

LEMMA TimeFoundKeeps ==
  ASSUME IInv, NEW p \in Procs, TimeFound(p)  PROVE IInv'
<1>1. /\ FnTypes /\ TypeOf(p) /\ CeilingOf(p) /\ FoundOf(p) /\ CeilingRowOf(p)
      /\ SearchOf(p)
  BY Types DEF Local, Shared
<1>2. /\ pc[p] = "search" /\ job[p] # Code /\ low[p] = high[p]
      /\ Time[low[p]] <= job[p] /\ job[p] \in Jobs \cup {None}
  BY Types DEF TimeFound
<1>3. /\ start' = start /\ end' = end /\ ceiling' = ceiling /\ found' = found
      /\ head' = head /\ atRow' = atRow /\ codeRow' = codeRow
      /\ ceilingRow' = ceilingRow /\ job' = job /\ low' = low /\ high' = high
  BY DEF TimeFound, rows, scenario, search
<1>4. pc' = [pc EXCEPT ![p] = "store"]  BY DEF TimeFound, Goto
<1>5. FnTypes' /\ pc'[p] = "store"  BY <1>1, <1>3, <1>4 DEF FnTypes, Working
<1>6. Others(p)  BY <1>1, <1>3, <1>4 DEF FnTypes, Others, Same
<1>7. TypeOf(p)' /\ CeilingOf(p)' /\ CeilingRowOf(p)' /\ FoundOf(p)'
  BY <1>1, <1>2, <1>3, <1>5
     DEF TypeOf, CeilingOf, Covering, CeilingRowOf, FoundOf, Block, IsLast, Working
<1>8. SearchOf(p)'
  <2>1. job[p] \in Times  BY <1>1, <1>2 DEF SearchOf, Jobs
  <2>2. /\ high[p] <= ceiling[p]
        /\ \A b \in Blocks : b > high[p] => Time[b] > job[p]
    BY <1>1, <1>2, <2>1 DEF SearchOf
  <2>3. IsLast(low[p], job[p])  BY <1>2, <2>2 DEF IsLast
  <2>4. QED  BY <1>2, <1>3, <1>5, <2>1, <2>2, <2>3 DEF SearchOf, IsLast
<1>9. Local(p)'  BY <1>5, <1>7, <1>8 DEF Local
<1>10. QED  BY <1>3, <1>5, <1>6, <1>9, RunOnly DEF rows

LEMMA StoreTimeKeeps ==
  ASSUME IInv, NEW p \in Procs, StoreTime(p)  PROVE IInv'
<1> DEFINE t == job[p]
           b == IF atRow[t] = None THEN low[p] ELSE atRow[t]
<1>1. /\ FnTypes /\ CeilingRowsCover /\ RowsExact /\ TypeOf(p) /\ CeilingOf(p)
      /\ FoundOf(p) /\ CeilingRowOf(p) /\ SearchOf(p)
  BY Types DEF Local, Shared
<1>2. /\ pc[p] = "store" /\ t \in Times /\ low[p] <= ceiling[p]
      /\ IsLast(low[p], t) /\ low[p] \in Blocks
  BY <1>1, Types DEF StoreTime, SearchOf
<1>3. ceiling[p] \in Blocks /\ ceiling[p] <= head
  BY <1>1, <1>2, Types DEF CeilingOf, Covering
<1>4. ~(low[p] > ceiling[p]) /\ low[p] <= head
  BY <1>1, <1>2, <1>3, Numbers DEF FnTypes
<1>5. /\ t \in Jobs /\ t # Code /\ low[p] # None /\ low[p] # Absent
      /\ Code \in Jobs /\ Times \subseteq Jobs /\ 0 \in Blocks
  BY <1>2, Numbers, ChainAssumption DEF Jobs, Blocks
<1>6. /\ found' = [found EXCEPT ![p][t] = low[p]]
      /\ pc' = [pc EXCEPT ![p] = "dates"]
      /\ atRow' = [atRow EXCEPT ![t] = b]
      /\ job' = [job EXCEPT ![p] = None]
      /\ low' = [low EXCEPT ![p] = 0] /\ high' = [high EXCEPT ![p] = 0]
  BY <1>4 DEF StoreTime, Resolve, Goto, Kept, NoSearch
<1>7. /\ start' = start /\ end' = end /\ ceiling' = ceiling /\ head' = head
      /\ codeRow' = codeRow /\ ceilingRow' = ceilingRow
  BY DEF StoreTime, scenario
<1>8. b \in Blocks /\ b # None /\ IsLast(b, t) /\ (atRow[t] # None => b = atRow[t])
  BY <1>1, <1>2, <1>5 DEF FnTypes, RowsExact
<1> HIDE DEF b
<1>9. FnTypes'
  BY <1>1, <1>2, <1>5, <1>6, <1>7, <1>8 DEF FnTypes, Working
<1>10. Others(p)  BY <1>1, <1>6, <1>7 DEF FnTypes, Others, Same
<1>11. atRow'[t] = b /\ \A u \in Times : u # t => atRow'[u] = atRow[u]
  BY <1>1, <1>2, <1>6 DEF FnTypes
<1>12. /\ found'[p][t] = low[p] /\ pc'[p] = "dates" /\ high'[p] = 0
       /\ \A j \in Jobs : j # t => found'[p][j] = found[p][j]
  BY <1>1, <1>5, <1>6 DEF FnTypes
<1>13. \A u \in Times : atRow[u] # None => atRow'[u] # None  BY <1>8, <1>11
<1>14. Grows
  <2>1. head <= head'  BY <1>1, <1>7, Numbers DEF FnTypes
  <2>2. QED  BY <1>7, <1>13, <2>1 DEF Grows
<1>15. Shared'
  <2>1. CeilingRowsCover'  BY <1>1, <1>7 DEF CeilingRowsCover, Covering
  <2>2. RowsExact'  BY <1>1, <1>7, <1>8, <1>11 DEF RowsExact, IsLast
  <2>3. QED  BY <1>9, <2>1, <2>2 DEF Shared
<1>16. TypeOf(p)' /\ CeilingOf(p)' /\ CeilingRowOf(p)' /\ SearchOf(p)'
  <2>1. 0 <= head  BY <1>1, Numbers DEF FnTypes
  <2>2. QED  BY <1>1, <1>2, <1>7, <1>12, <2>1
             DEF TypeOf, CeilingOf, Covering, CeilingRowOf, SearchOf, Working
<1>17. FoundOf(p)'
  <2>1. \A j \in Jobs : Block(p, j)' => found'[p][j] <= head'
    BY <1>1, <1>4, <1>7, <1>12 DEF FoundOf, Block
  <2>2. \A u \in Times : found'[p][u] # None =>
          Block(p, u)' /\ IsLast(found[p][u], u)' /\ atRow'[u] # None
    BY <1>1, <1>2, <1>5, <1>8, <1>11, <1>12, <1>13 DEF FoundOf, Block, IsLast
  <2>3. Block(p, Code)' => Block(p, Code)  BY <1>5, <1>12 DEF Block
  <2>4. start[p] \in Jobs  BY <1>1, <1>2, <1>5, Types, ChainAssumption DEF TypeOf
  <2>5. ASSUME Block(p, Code)'
        PROVE  /\ found'[p][Code] = FirstCode /\ codeRow' # None
               /\ Block(p, start[p])' /\ found'[p][Code] <= found'[p][start'[p]]
    <3>1. /\ found[p][Code] = FirstCode /\ codeRow # None /\ Block(p, start[p])
          /\ found[p][Code] <= found[p][start[p]]
      BY <1>1, <2>3, <2>5 DEF FoundOf
    <3>2. CASE start[p] # t  BY <3>1, <3>2, <1>5, <1>7, <1>12, <2>4 DEF Block
    <3>3. CASE start[p] = t
      <4>1. IsLast(found[p][t], t) /\ found[p][t] \in Blocks
        BY <3>1, <3>3, <1>1, <1>2, <1>5 DEF FoundOf, FnTypes, Block
      <4>2. Time[low[p]] <= t /\ t \in Int /\ Time[found[p][t]] <= t
        BY <4>1, <1>2, Numbers DEF IsLast
      <4>3. found[p][t] <= low[p] /\ low[p] <= found[p][t]
        <5>1. ~(found[p][t] > low[p]) /\ ~(low[p] > found[p][t])
          BY <4>1, <4>2, <1>2, Numbers DEF IsLast
        <5>2. QED  BY <5>1, <4>1, <1>2, Numbers
      <4>4. found[p][t] = low[p]  BY <4>1, <4>3, <1>2, Numbers
      <4>5. QED  BY <3>1, <3>3, <4>4, <1>5, <1>7, <1>12 DEF Block
    <3>4. QED  BY <3>2, <3>3
  <2>6. QED  BY <2>1, <2>2, <2>5, <1>7 DEF FoundOf, Block, IsLast
<1>18. Local(p)'  BY <1>12, <1>16, <1>17 DEF Local
<1>19. QED  BY <1>10, <1>14, <1>15, <1>18, StepOf DEF Others

-----------------------------------------------------------------------------
(* The search for a deployment *)

(* A run that has resolved its dates has resolved its start. *)
LEMMA StartIsResolved ==
  ASSUME IInv, NEW p \in Procs, Verifying(p)
  PROVE  /\ pc[p] = "dates" /\ found[p][Code] = None /\ start[p] \in Times
         /\ Block(p, start[p]) /\ found[p][start[p]] \in Blocks
         /\ found[p][start[p]] <= head
<1>1. pc[p] = "dates" /\ found[p][Code] = None /\ Unresolved(p) = {}
  BY DEF Verifying
<1>2. start[p] \in Starts /\ end[p] \in Times /\ start[p] < end[p]
  BY <1>1, Types DEF Local, TypeOf, Working
<1>3. start[p] \in DatesOf[start[p]][end[p]] /\ start[p] \in Times
  BY <1>2, ChainAssumption
<1>4. found[p][start[p]] # None  BY <1>1, <1>3 DEF Unresolved
<1>5. Block(p, start[p])  BY <1>3, <1>4, Types DEF Local, FoundOf
<1>6. start[p] \in Jobs  BY <1>3 DEF Jobs
<1>7. QED  BY <1>1, <1>3, <1>5, <1>6, Types DEF Local, FoundOf, Block

(* What run p finds of the deployment, one of a search being over or not. *)
LEMMA DeploymentFound ==
  ASSUME IInv, NEW p \in Procs, pc[p] \in {"dates", "search"},
         NEW b \in Blocks \cup {Absent}, Resolve(p, Code, b),
         b # Absent => /\ b = FirstCode /\ b <= head /\ codeRow' # None
                       /\ Block(p, start[p]) /\ b <= found[p][start[p]]
                       /\ start[p] \in Times,
         pc' = [pc EXCEPT ![p] = "dates"],
         codeRow' = codeRow \/ codeRow' = FirstCode, codeRow # None => codeRow' # None,
         UNCHANGED <<head, ceilingRow, atRow, scenario, ceiling>>,
         UNCHANGED search \/ NoSearch(p)
  PROVE  IInv'
<1>1. /\ FnTypes /\ CeilingRowsCover /\ RowsExact /\ TypeOf(p) /\ CeilingOf(p)
      /\ FoundOf(p) /\ CeilingRowOf(p) /\ SearchOf(p)
  BY Types DEF Local, Shared
<1>2. /\ start' = start /\ end' = end /\ ceiling' = ceiling /\ head' = head
      /\ atRow' = atRow /\ ceilingRow' = ceilingRow
      /\ found' = [found EXCEPT ![p][Code] = b]
  BY DEF scenario, Resolve
<1>3. \/ job' = job /\ low' = low /\ high' = high
      \/ /\ job' = [job EXCEPT ![p] = None]
         /\ low' = [low EXCEPT ![p] = 0] /\ high' = [high EXCEPT ![p] = 0]
  BY DEF search, NoSearch
<1>4. /\ Code \in Jobs /\ Code \notin Times /\ FirstCode \in Blocks /\ 0 \in Blocks
      /\ b # None \/ b = Absent
  BY Numbers, ChainAssumption DEF Jobs, Blocks
<1>5. FnTypes'
  <2>1. found' \in [Procs -> [Jobs -> Blocks \cup {None, Absent}]]
    BY <1>1, <1>2, <1>4 DEF FnTypes
  <2>2. codeRow' \in Blocks \cup {None}  BY <1>1, <1>4 DEF FnTypes
  <2>3. /\ job' \in [Procs -> Jobs \cup {None}]
        /\ low' \in [Procs -> Blocks] /\ high' \in [Procs -> Blocks]
    <3>1. CASE job' = job /\ low' = low /\ high' = high  BY <3>1, <1>1 DEF FnTypes
    <3>2. CASE /\ job' = [job EXCEPT ![p] = None]
               /\ low' = [low EXCEPT ![p] = 0] /\ high' = [high EXCEPT ![p] = 0]
      BY <3>2, <1>1, <1>4 DEF FnTypes
    <3>3. QED  BY <3>1, <3>2, <1>3
  <2>4. QED  BY <1>1, <1>2, <2>1, <2>2, <2>3 DEF FnTypes, Working
<1>6. Others(p)
  <2>1. ASSUME NEW q \in Procs, q # p
        PROVE  /\ pc'[q] = pc[q] /\ found'[q] = found[q] /\ job'[q] = job[q]
               /\ low'[q] = low[q] /\ high'[q] = high[q]
    BY <2>1, <1>1, <1>2, <1>3 DEF FnTypes
  <2>2. QED  BY <2>1, <1>2 DEF Others, Same
<1>7. /\ found'[p][Code] = b /\ pc'[p] = "dates"
      /\ \A j \in Jobs : j # Code => found'[p][j] = found[p][j]
  BY <1>1, <1>2, <1>4 DEF FnTypes
<1>8. Shared'
  <2>1. CeilingRowsCover'  BY <1>1, <1>2 DEF CeilingRowsCover, Covering
  <2>2. RowsExact'  BY <1>1, <1>2 DEF RowsExact, IsLast
  <2>3. QED  BY <1>5, <2>1, <2>2 DEF Shared
<1>9. Grows
  <2>1. head <= head'  BY <1>1, <1>2, Numbers DEF FnTypes
  <2>2. QED  BY <1>2, <2>1 DEF Grows
<1>10. TypeOf(p)' /\ CeilingOf(p)' /\ CeilingRowOf(p)' /\ SearchOf(p)'
  <2>1. high'[p] = high[p] \/ high'[p] = 0  BY <1>1, <1>3 DEF FnTypes
  <2>2. 0 <= head  BY <1>1, Numbers DEF FnTypes
  <2>3. TypeOf(p)'  BY <1>1, <1>2, <1>7, <2>1, <2>2 DEF TypeOf, Working
  <2>4. QED  BY <1>1, <1>2, <1>7, <2>3
             DEF CeilingOf, Covering, CeilingRowOf, SearchOf, Working
<1>11. \A t \in Times : t \in Jobs /\ t # Code /\ found'[p][t] = found[p][t]
  BY <1>4, <1>7 DEF Jobs
<1>12. FoundOf(p)'
  <2>1. \A j \in Jobs : Block(p, j)' => found'[p][j] <= head'
    BY <1>1, <1>2, <1>7 DEF FoundOf, Block
  <2>2. \A u \in Times : found'[p][u] # None =>
          Block(p, u)' /\ IsLast(found[p][u], u)' /\ atRow'[u] # None
    BY <1>1, <1>2, <1>11 DEF FoundOf, Block, IsLast
  <2>3. Block(p, Code)' =>
          /\ found'[p][Code] = FirstCode /\ codeRow' # None
          /\ Block(p, start[p])' /\ found'[p][Code] <= found'[p][start'[p]]
    BY <1>2, <1>7, <1>11 DEF Block
  <2>4. QED  BY <2>1, <2>2, <2>3, <1>2 DEF FoundOf, Block, IsLast
<1>13. Local(p)'  BY <1>7, <1>10, <1>12 DEF Local
<1>14. QED  BY <1>6, <1>8, <1>9, <1>13, StepOf DEF Others

LEMMA NoDeploymentKeeps ==
  ASSUME IInv, NEW p \in Procs, NoDeployment(p)  PROVE IInv'
<1>1. pc[p] = "dates"  BY DEF NoDeployment, Verifying
<1>2. pc' = [pc EXCEPT ![p] = "dates"]  BY <1>1, Types DEF NoDeployment, FnTypes
<1>3. QED  BY <1>1, <1>2, DeploymentFound DEF NoDeployment, rows

LEMMA DeploymentHitKeeps ==
  ASSUME IInv, NEW p \in Procs, DeploymentHit(p)  PROVE IInv'
<1>1. Verifying(p) /\ HasCode(found[p][start[p]]) /\ codeRow # None
  BY DEF DeploymentHit, DeployedByStart
<1>2. /\ pc[p] = "dates" /\ start[p] \in Times /\ Block(p, start[p])
      /\ found[p][start[p]] \in Blocks /\ found[p][start[p]] <= head
  BY <1>1, StartIsResolved
<1>3. codeRow = FirstCode /\ codeRow \in Blocks /\ head \in Int /\ FirstCode \in Int
  BY <1>1, Types, Numbers DEF Shared, RowsExact, FnTypes
<1>4. FirstCode <= found[p][start[p]] /\ FirstCode <= head
  <2>1. found[p][start[p]] \in Int  BY <1>2, Numbers
  <2>2. QED  BY <1>1, <1>2, <1>3, <2>1 DEF HasCode
<1>5. pc' = [pc EXCEPT ![p] = "dates"]  BY <1>2, Types DEF DeploymentHit, FnTypes
<1>6. Resolve(p, Code, codeRow)  BY DEF DeploymentHit
<1>7. UNCHANGED <<head, rows, scenario, ceiling, search>>  BY DEF DeploymentHit
<1>8. QED  BY <1>1, <1>2, <1>3, <1>4, <1>5, <1>6, <1>7, DeploymentFound DEF rows

LEMMA DeploymentMissKeeps ==
  ASSUME IInv, NEW p \in Procs, DeploymentMiss(p)  PROVE IInv'
<1>1. /\ FnTypes /\ TypeOf(p) /\ CeilingOf(p) /\ FoundOf(p) /\ CeilingRowOf(p)
  BY Types DEF Local, Shared
<1>2. Verifying(p) /\ HasCode(found[p][start[p]])
  BY DEF DeploymentMiss, DeployedByStart
<1>3. /\ pc[p] = "dates" /\ start[p] \in Times /\ Block(p, start[p])
      /\ found[p][start[p]] \in Blocks /\ found[p][start[p]] <= head
  BY <1>2, StartIsResolved
<1>4. /\ 0 \in Blocks /\ 0 <= FirstCode /\ Code \in Jobs /\ Code \notin Times
      /\ Code # None /\ FirstCode \in Int
  BY ChainAssumption DEF Blocks, Jobs
<1>5. /\ start' = start /\ end' = end /\ ceiling' = ceiling /\ found' = found
      /\ head' = head /\ atRow' = atRow /\ codeRow' = codeRow
      /\ ceilingRow' = ceilingRow
  BY DEF DeploymentMiss, rows, scenario
<1>6. /\ pc' = [pc EXCEPT ![p] = "search"] /\ job' = [job EXCEPT ![p] = Code]
      /\ low' = [low EXCEPT ![p] = 0]
      /\ high' = [high EXCEPT ![p] = found[p][start[p]]]
  BY DEF DeploymentMiss, Goto
<1>7. FnTypes'  BY <1>1, <1>3, <1>4, <1>5, <1>6 DEF FnTypes, Working
<1>8. Others(p)  BY <1>1, <1>5, <1>6 DEF FnTypes, Others, Same
<1>9. /\ pc'[p] = "search" /\ job'[p] = Code /\ low'[p] = 0
      /\ high'[p] = found[p][start[p]]
  BY <1>1, <1>6 DEF FnTypes
<1>10. TypeOf(p)' /\ CeilingOf(p)' /\ CeilingRowOf(p)' /\ FoundOf(p)'
  BY <1>1, <1>3, <1>5, <1>9
     DEF TypeOf, CeilingOf, Covering, CeilingRowOf, FoundOf, Block, IsLast, Working
<1>11. FirstCode <= found[p][start[p]]  BY <1>2, <1>3, <1>4, Numbers DEF HasCode
<1>12. found[p][start[p]] <= found[p][start[p]]  BY <1>3, Numbers
<1>13. SearchOf(p)'  BY <1>3, <1>4, <1>5, <1>9, <1>11, <1>12 DEF SearchOf, Block
<1>14. Local(p)'  BY <1>9, <1>10, <1>13 DEF Local
<1>15. QED  BY <1>5, <1>7, <1>8, <1>14, RunOnly DEF rows

(* What a run knows that searches for a deployment. *)
LEMMA SearchingCode ==
  ASSUME IInv, NEW p \in Procs, pc[p] = "search", job[p] = Code
  PROVE  /\ low[p] <= FirstCode /\ FirstCode <= high[p] /\ high[p] <= head
         /\ low[p] \in Int /\ high[p] \in Int /\ head \in Int /\ FirstCode \in Int
         /\ 0 <= low[p] /\ Block(p, start[p]) /\ start[p] \in Times
         /\ found[p][start[p]] \in Int /\ high[p] <= found[p][start[p]]
         /\ FirstCode <= found[p][start[p]]
<1>1. /\ low[p] <= FirstCode /\ FirstCode <= high[p] /\ high[p] <= head
      /\ Block(p, start[p]) /\ high[p] <= found[p][start[p]]
  BY Types DEF Local, SearchOf, TypeOf
<1>2. /\ low[p] \in Int /\ high[p] \in Int /\ head \in Int /\ 0 <= low[p]
  BY Types, Numbers
<1>3. FirstCode \in Int /\ start[p] \in Times
  <2>1. start[p] \in Starts  BY Types DEF Local, TypeOf
  <2>2. FirstCode \in Int  BY ChainAssumption
  <2>3. start[p] \in Times  BY <2>1, ChainAssumption
  <2>4. QED  BY <2>2, <2>3
<1>4. start[p] \in Jobs  BY <1>3 DEF Jobs
<1>5. found[p][start[p]] \in Int  BY <1>1, <1>4, Types, Numbers DEF Block
<1>6. QED  BY <1>1, <1>2, <1>3, <1>5

LEMMA ProbeCodeKeeps ==
  ASSUME IInv, NEW p \in Procs, ProbeCode(p)  PROVE IInv'
<1>1. /\ FnTypes /\ TypeOf(p) /\ CeilingOf(p) /\ FoundOf(p) /\ CeilingRowOf(p)
      /\ SearchOf(p)
  BY Types DEF Local, Shared
<1>2. pc[p] = "search" /\ job[p] = Code /\ low[p] < high[p]  BY DEF ProbeCode
<1>3. /\ low[p] <= FirstCode /\ FirstCode <= high[p] /\ high[p] <= head
      /\ low[p] \in Int /\ high[p] \in Int /\ head \in Int /\ FirstCode \in Int
      /\ 0 <= low[p] /\ Block(p, start[p]) /\ found[p][start[p]] \in Int
      /\ high[p] <= found[p][start[p]]
  BY <1>2, SearchingCode
<1>4. PICK m \in Int : m = (low[p] + high[p]) \div 2  BY <1>3
<1>5. low[p] <= m /\ m < high[p]  BY <1>2, <1>3, <1>4, Halves
<1>6. m \in Blocks /\ m + 1 \in Blocks
  BY <1>3, <1>5, Types, Between
<1>7. /\ start' = start /\ end' = end /\ ceiling' = ceiling /\ found' = found
      /\ head' = head /\ atRow' = atRow /\ codeRow' = codeRow
      /\ ceilingRow' = ceilingRow /\ pc' = pc /\ job' = job
  BY DEF ProbeCode, rows, scenario
<1>8. \/ /\ m >= FirstCode
         /\ high' = [high EXCEPT ![p] = m] /\ low' = low
      \/ /\ ~(m >= FirstCode)
         /\ low' = [low EXCEPT ![p] = m + 1] /\ high' = high
  BY <1>4 DEF ProbeCode, HasCode, Middle
<1>9. FnTypes'
  <2>1. low' \in [Procs -> Blocks] /\ high' \in [Procs -> Blocks]
    BY <1>1, <1>6, <1>8 DEF FnTypes
  <2>2. QED  BY <1>1, <1>7, <2>1 DEF FnTypes
<1>10. Others(p)  BY <1>1, <1>7, <1>8 DEF FnTypes, Others, Same
<1>11. \/ /\ m >= FirstCode
          /\ high'[p] = m /\ low'[p] = low[p]
       \/ /\ ~(m >= FirstCode)
          /\ low'[p] = m + 1 /\ high'[p] = high[p]
  BY <1>1, <1>8 DEF FnTypes
<1>12. /\ high'[p] <= head /\ low'[p] <= FirstCode /\ FirstCode <= high'[p]
       /\ high'[p] <= found[p][start[p]]
  BY <1>3, <1>5, <1>11
<1>13. TypeOf(p)' /\ CeilingOf(p)' /\ CeilingRowOf(p)' /\ FoundOf(p)'
  <2>1. TypeOf(p)'  BY <1>1, <1>7, <1>12 DEF TypeOf
  <2>2. QED  BY <1>1, <1>7, <2>1
             DEF CeilingOf, Covering, CeilingRowOf, FoundOf, Block, IsLast
<1>14. Code \notin Times /\ Code # None  BY ChainAssumption
<1>15. SearchOf(p)'  BY <1>2, <1>3, <1>7, <1>12, <1>14 DEF SearchOf, Block
<1>16. Local(p)'  BY <1>2, <1>7, <1>13, <1>15 DEF Local
<1>17. QED  BY <1>7, <1>9, <1>10, <1>16, RunOnly DEF rows

LEMMA StoreCodeKeeps ==
  ASSUME IInv, NEW p \in Procs, StoreCode(p)  PROVE IInv'
<1>1. pc[p] = "search" /\ job[p] = Code /\ low[p] = high[p]  BY DEF StoreCode
<1>2. /\ low[p] <= FirstCode /\ FirstCode <= high[p] /\ high[p] <= head
      /\ low[p] \in Int /\ high[p] \in Int /\ FirstCode \in Int
      /\ Block(p, start[p]) /\ start[p] \in Times
  BY <1>1, SearchingCode
<1>3. low[p] = FirstCode /\ FirstCode <= head  BY <1>1, <1>2
<1>4. low[p] \in Blocks /\ low[p] # None  BY Types, Numbers
<1>5. codeRow # None => codeRow = FirstCode
  BY Types DEF Shared, RowsExact
<1>6. codeRow' = FirstCode /\ codeRow' # None
  BY <1>3, <1>4, <1>5 DEF StoreCode, Kept
<1>7. Resolve(p, Code, low[p]) /\ NoSearch(p) /\ pc' = [pc EXCEPT ![p] = "dates"]
  BY DEF StoreCode, Goto
<1>8. UNCHANGED <<head, ceilingRow, atRow, scenario, ceiling>>  BY DEF StoreCode
<1>9. FirstCode <= found[p][start[p]]
  BY <1>1, <1>2, SearchingCode
<1>10. QED
  BY <1>1, <1>2, <1>3, <1>4, <1>6, <1>7, <1>8, <1>9, DeploymentFound

LEMMA ReadFailsKeeps ==
  ASSUME IInv, NEW p \in Procs, ReadFails(p)  PROVE IInv'
<1>1. pc[p] = "search" /\ Resolve(p, Code, Absent) /\ NoSearch(p)
  BY DEF ReadFails
<1>2. pc' = [pc EXCEPT ![p] = "dates"]  BY DEF ReadFails, Goto
<1>3. UNCHANGED <<head, rows, scenario, ceiling>>  BY DEF ReadFails
<1>4. QED  BY <1>1, <1>2, <1>3, DeploymentFound DEF rows

(* The end of a run, whatever its cause. *)
LEMMA EndedKeeps ==
  ASSUME IInv, NEW p \in Procs, Ended(p)  PROVE IInv'
<1>1. FnTypes  BY Types
<1>2. /\ pc' = [pc EXCEPT ![p] = "idle"] /\ start' = [start EXCEPT ![p] = None]
      /\ end' = [end EXCEPT ![p] = None] /\ ceiling' = [ceiling EXCEPT ![p] = None]
      /\ found' = [found EXCEPT ![p] = [j \in Jobs |-> None]]
      /\ job' = [job EXCEPT ![p] = None] /\ low' = [low EXCEPT ![p] = 0]
      /\ high' = [high EXCEPT ![p] = 0] /\ UNCHANGED <<head, rows>>
  BY DEF Ended, Goto, NoSearch
<1>3. 0 \in Blocks  BY ChainAssumption DEF Blocks
<1>4. FnTypes'
  <2>1. [j \in Jobs |-> None] \in [Jobs -> Blocks \cup {None, Absent}]  OBVIOUS
  <2>2. found' \in [Procs -> [Jobs -> Blocks \cup {None, Absent}]]
    BY <1>1, <1>2, <2>1 DEF FnTypes
  <2>3. QED  BY <1>1, <1>2, <1>3, <2>2 DEF FnTypes, rows, Working
<1>5. Others(p)  BY <1>1, <1>2 DEF FnTypes, Others, Same
<1>6. /\ pc'[p] = "idle" /\ ceiling'[p] = None /\ high'[p] = 0 /\ head' = head
      /\ found'[p] = [j \in Jobs |-> None]
  BY <1>1, <1>2 DEF FnTypes
<1>7. Code \in Jobs /\ Times \subseteq Jobs /\ 0 <= head
  BY <1>1, Numbers DEF Jobs, FnTypes
<1>8. FoundOf(p)'  BY <1>6, <1>7 DEF FoundOf, Block
<1>9. TypeOf(p)' /\ CeilingOf(p)' /\ SearchOf(p)' /\ CeilingRowOf(p)'
  BY <1>6, <1>7 DEF TypeOf, CeilingOf, SearchOf, CeilingRowOf, Working
<1>10. Local(p)'  BY <1>6, <1>8, <1>9 DEF Local
<1>11. QED  BY <1>2, <1>4, <1>5, <1>10, RunOnly

-----------------------------------------------------------------------------
(* Every step keeps the inductive invariant. *)
LEMMA NextKeeps == ASSUME IInv, [Next]_vars  PROVE IInv'
<1>1. CASE UNCHANGED vars
  BY <1>1 DEF vars, IInv, Shared, FnTypes, CeilingRowsCover, Covering, RowsExact,
              IsLast, Local, TypeOf, CeilingOf, SearchOf, CeilingRowOf, FoundOf, Block
<1>2. CASE Finalize  BY <1>2, FinalizeKeeps
<1>3. ASSUME NEW p \in Procs, NEW s \in Starts,
             DefaultEnd(p, s) \/ \E e \in Ends : GivenEnd(p, s, e)
      PROVE  IInv'
  <2>1. CASE DefaultEnd(p, s)  BY <2>1, DefaultEndKeeps
  <2>2. ASSUME NEW e \in Ends, GivenEnd(p, s, e)  PROVE IInv'
    <3>1. e \in Times  BY ChainAssumption
    <3>2. QED  BY <2>2, <3>1, GivenEndKeeps
  <2>3. QED  BY <1>3, <2>1, <2>2
<1>4. ASSUME NEW p \in Procs, NEW t \in Times, AtHit(p, t) \/ AtMiss(p, t)
      PROVE  IInv'
  BY <1>4, AtHitKeeps, AtMissKeeps
<1>5. ASSUME NEW p \in Procs, Ceiling(p)  PROVE IInv'
  BY <1>5, CeilingHitKeeps, FetchCeilingKeeps, StoreCeilingKeeps DEF Ceiling
<1>6. ASSUME NEW p \in Procs, Search(p) \/ StoreTime(p)  PROVE IInv'
  BY <1>6, ProbeTimeKeeps, TimeFoundKeeps, ProbeCodeKeeps, StoreCodeKeeps,
     StoreTimeKeeps DEF Search
<1>7. ASSUME NEW p \in Procs, Deployment(p) \/ ReadFails(p)  PROVE IInv'
  BY <1>7, NoDeploymentKeeps, DeploymentHitKeeps, DeploymentMissKeeps,
     ReadFailsKeeps DEF Deployment
<1>8. ASSUME NEW p \in Procs, Finish(p) \/ Fail(p)  PROVE IInv'
  BY <1>8, EndedKeeps DEF Finish, Fail
<1>9. QED  BY <1>1, <1>2, <1>3, <1>4, <1>5, <1>6, <1>7, <1>8 DEF Next

(* The inductive invariant, for every chain and every number of runs. *)
THEOREM Inductive == Spec => []IInv
BY InitHolds, NextKeeps, PTL DEF Spec

(* Types, and searches between genesis and the finalized head. *)
THEOREM TypeCorrect == Spec => []TypeOK
BY Inductive, Meaning, PTL

(* Every ceiling covers its end and every block a run uses is finalized. *)
THEOREM CeilingsCover == Spec => []CeilingCovers
BY Inductive, Meaning, PTL

(* Cached dates and deployments are exact whichever run found them. *)
THEOREM ExactRows == Spec => []RowsExact
BY Inductive, Meaning, PTL

(* There is one last block at or before a timestamp. *)
LEMMA OneLast ==
  ASSUME NEW b \in Blocks, NEW c \in Blocks, NEW t \in Times, IsLast(b, t), IsLast(c, t)
  PROVE  b = c
<1>1. b \in Int /\ c \in Int /\ t \in Int /\ Time[b] \in Int /\ Time[c] \in Int
  BY Numbers
<1>2. ~(b < c) /\ ~(c < b)
  BY <1>1 DEF IsLast
<1>3. QED  BY <1>1, <1>2

(* No two runs work on different blocks for one date or the deployment, whatever ceilings
   they hold: what a date resolves to does not depend on the ceiling. *)
THEOREM Agreement == Spec => []RunsAgree
<1>1. TypeOK /\ ResolvesExactly => RunsAgree
  <2> SUFFICES ASSUME TypeOK, ResolvesExactly, NEW p \in Procs, NEW q \in Procs,
                      NEW j \in Jobs, Block(p, j), Block(q, j)
               PROVE  found[p][j] = found[q][j]
    BY DEF RunsAgree
  <2>1. found[p][j] \in Blocks /\ found[q][j] \in Blocks
    BY DEF TypeOK, Block
  <2>2. CASE j = Code
    BY <2>2 DEF ResolvesExactly
  <2>3. CASE j \in Times
    <3>1. IsLast(found[p][j], j) /\ IsLast(found[q][j], j)
      BY <2>3 DEF ResolvesExactly, Block
    <3>2. QED  BY <2>1, <2>3, <3>1, OneLast
  <2>4. QED  BY <2>2, <2>3 DEF Jobs
<1>2. QED  BY <1>1, Inductive, Meaning, PTL

(* The binary searches never lose what they search for. *)
THEOREM SearchCorrect == Spec => []SearchBrackets
BY Inductive, Meaning, PTL

(* The check of cached dates against the ceiling is never the one that fails. *)
THEOREM NeverRefused == Spec => []CeilingNeverRefuses
BY Inductive, Meaning, PTL

(* A deployment of the cache is not later than the start that uses it. *)
THEOREM InTime == Spec => []DeployedInTime
BY Inductive, Meaning, PTL

(* Whatever a run has resolved is in the cache for an offline run. *)
THEOREM Replays == Spec => []ReplaysOffline
BY Inductive, Meaning, PTL

-----------------------------------------------------------------------------
(* What SearchHalves says of one run. *)
HalvesOf(q) ==
  /\ pc[q] = "search" /\ pc'[q] # "idle"
  /\ low'[q] # low[q] \/ high'[q] # high[q]
  => 2 * (high'[q] - low'[q]) <= high[q] - low[q]

LEMMA ProbeTimeHalves ==
  ASSUME IInv, NEW p \in Procs, NEW q \in Procs, ProbeTime(p)  PROVE HalvesOf(q)
<1>1. FnTypes  BY Types
<1>2. low[p] \in Int /\ high[p] \in Int /\ 0 <= low[p] /\ low[p] < high[p]
  BY Types, Numbers DEF ProbeTime
<1>3. PICK m \in Int : m = (low[p] + high[p] + 1) \div 2  BY <1>2
<1>4. 2 * (high[p] - m) <= high[p] - low[p] /\ 2 * ((m - 1) - low[p]) <= high[p] - low[p]
  BY <1>2, <1>3, Halves
<1>5. \/ low' = [low EXCEPT ![p] = m] /\ high' = high
      \/ high' = [high EXCEPT ![p] = m - 1] /\ low' = low
  BY <1>3 DEF ProbeTime, MiddleUp
<1>6. CASE q = p
  <2>1. CASE low' = [low EXCEPT ![p] = m] /\ high' = high
    BY <2>1, <1>1, <1>4, <1>6 DEF HalvesOf, FnTypes
  <2>2. CASE high' = [high EXCEPT ![p] = m - 1] /\ low' = low
    BY <2>2, <1>1, <1>4, <1>6 DEF HalvesOf, FnTypes
  <2>3. QED  BY <1>5, <2>1, <2>2
<1>7. CASE q # p  BY <1>1, <1>5, <1>7 DEF HalvesOf, FnTypes
<1>8. QED  BY <1>6, <1>7

LEMMA ProbeCodeHalves ==
  ASSUME IInv, NEW p \in Procs, NEW q \in Procs, ProbeCode(p)  PROVE HalvesOf(q)
<1>1. FnTypes  BY Types
<1>2. low[p] \in Int /\ high[p] \in Int /\ 0 <= low[p] /\ low[p] < high[p]
  BY Types, Numbers DEF ProbeCode
<1>3. PICK m \in Int : m = (low[p] + high[p]) \div 2  BY <1>2
<1>4. 2 * (m - low[p]) <= high[p] - low[p] /\ 2 * (high[p] - (m + 1)) <= high[p] - low[p]
  BY <1>2, <1>3, Halves
<1>5. \/ high' = [high EXCEPT ![p] = m] /\ low' = low
      \/ low' = [low EXCEPT ![p] = m + 1] /\ high' = high
  BY <1>3 DEF ProbeCode, Middle
<1>6. CASE q = p
  <2>1. CASE high' = [high EXCEPT ![p] = m] /\ low' = low
    BY <2>1, <1>1, <1>4, <1>6 DEF HalvesOf, FnTypes
  <2>2. CASE low' = [low EXCEPT ![p] = m + 1] /\ high' = high
    BY <2>2, <1>1, <1>4, <1>6 DEF HalvesOf, FnTypes
  <2>3. QED  BY <1>5, <2>1, <2>2
<1>7. CASE q # p  BY <1>1, <1>5, <1>7 DEF HalvesOf, FnTypes
<1>8. QED  BY <1>6, <1>7

(* The end of a search resets what is left to nothing. *)
LEMMA NoSearchHalves ==
  ASSUME IInv, NEW p \in Procs, NEW q \in Procs, NoSearch(p),
         \/ pc[p] # "search"
         \/ pc[p] = "search" /\ job[p] = Code
         \/ pc'[p] = "idle"
  PROVE  HalvesOf(q)
<1>1. FnTypes  BY Types
<1>2. low' = [low EXCEPT ![p] = 0] /\ high' = [high EXCEPT ![p] = 0]
  BY DEF NoSearch
<1>3. CASE q # p  BY <1>1, <1>2, <1>3 DEF HalvesOf, FnTypes
<1>4. CASE q = p
  <2>1. CASE pc[p] # "search" \/ pc'[p] = "idle"  BY <1>4, <2>1 DEF HalvesOf
  <2>2. CASE pc[p] = "search" /\ job[p] = Code
    <3>1. low[p] <= high[p] /\ low[p] \in Int /\ high[p] \in Int
      BY <2>2, SearchingCode
    <3>2. low'[p] = 0 /\ high'[p] = 0  BY <1>1, <1>2 DEF FnTypes
    <3>3. QED  BY <1>4, <3>1, <3>2 DEF HalvesOf
  <2>3. QED  BY <2>1, <2>2
<1>5. QED  BY <1>3, <1>4

LEMMA StepHalves ==
  ASSUME IInv, Next, NEW q \in Procs  PROVE HalvesOf(q)
<1>1. CASE low' = low /\ high' = high  BY <1>1 DEF HalvesOf
<1>2. CASE Finalize  BY <1>1, <1>2 DEF Finalize, search
<1>3. ASSUME NEW p \in Procs, NEW s \in Starts,
             DefaultEnd(p, s) \/ \E e \in Ends : GivenEnd(p, s, e)
      PROVE  HalvesOf(q)
  BY <1>1, <1>3 DEF DefaultEnd, GivenEnd, search
<1>4. ASSUME NEW p \in Procs, NEW t \in Times, AtHit(p, t)  PROVE HalvesOf(q)
  BY <1>1, <1>4 DEF AtHit, search
<1>5. ASSUME NEW p \in Procs, NEW t \in Times, AtMiss(p, t)  PROVE HalvesOf(q)
  <2>1. pc[p] = "dates"  BY <1>5 DEF AtMiss, Due
  <2>2. CASE q = p  BY <2>1, <2>2 DEF HalvesOf
  <2>3. CASE q # p  BY <1>5, <2>3, Types DEF AtMiss, HalvesOf, FnTypes
  <2>4. QED  BY <2>2, <2>3
<1>6. ASSUME NEW p \in Procs, Ceiling(p)  PROVE HalvesOf(q)
  BY <1>1, <1>6 DEF Ceiling, CeilingHit, FetchCeiling, StoreCeiling, search
<1>7. ASSUME NEW p \in Procs, Search(p)  PROVE HalvesOf(q)
  <2>1. CASE ProbeTime(p)  BY <2>1, ProbeTimeHalves
  <2>2. CASE TimeFound(p)  BY <1>1, <2>2 DEF TimeFound, search
  <2>3. CASE ProbeCode(p)  BY <2>3, ProbeCodeHalves
  <2>4. CASE StoreCode(p)  BY <2>4, NoSearchHalves DEF StoreCode
  <2>5. QED  BY <1>7, <2>1, <2>2, <2>3, <2>4 DEF Search
<1>8. ASSUME NEW p \in Procs, StoreTime(p)  PROVE HalvesOf(q)
  BY <1>8, NoSearchHalves DEF StoreTime
<1>9. ASSUME NEW p \in Procs, Deployment(p)  PROVE HalvesOf(q)
  <2>1. CASE NoDeployment(p) \/ DeploymentHit(p)
    BY <1>1, <2>1 DEF NoDeployment, DeploymentHit, search
  <2>2. CASE DeploymentMiss(p)
    <3>1. pc[p] = "dates"  BY <2>2 DEF DeploymentMiss, Verifying
    <3>2. CASE q = p  BY <3>1, <3>2 DEF HalvesOf
    <3>3. CASE q # p  BY <2>2, <3>3, Types DEF DeploymentMiss, HalvesOf, FnTypes
    <3>4. QED  BY <3>2, <3>3
  <2>3. QED  BY <1>9, <2>1, <2>2 DEF Deployment
<1>10. ASSUME NEW p \in Procs, ReadFails(p)  PROVE HalvesOf(q)
  BY <1>10, NoSearchHalves DEF ReadFails
<1>11. ASSUME NEW p \in Procs, Ended(p)  PROVE HalvesOf(q)
  <2>1. NoSearch(p) /\ pc'[p] = "idle"
    BY <1>11, Types DEF Ended, Goto, FnTypes
  <2>2. QED  BY <2>1, NoSearchHalves
<1>12. QED
  BY <1>2, <1>3, <1>4, <1>5, <1>6, <1>7, <1>8, <1>9, <1>10, <1>11
     DEF Next, Finish, Fail

(* Every read of a binary search at least halves what is left. *)
THEOREM Logarithmic == Spec => SearchHalves
<1>1. IInv /\ [Next]_vars =>
        [\A p \in Procs :
           /\ pc[p] = "search" /\ pc'[p] # "idle"
           /\ low'[p] # low[p] \/ high'[p] # high[p]
           => 2 * (high'[p] - low'[p]) <= high[p] - low[p]]_vars
  BY StepHalves DEF HalvesOf
<1>2. QED  BY <1>1, Inductive, PTL DEF Spec, SearchHalves
=============================================================================
