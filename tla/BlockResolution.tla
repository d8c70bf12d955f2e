--------------------------- MODULE BlockResolution ---------------------------
(* How runs agree on blocks (src/hodl/cli.py, src/hodl/data.py): every run
   settles on a ceiling, a finalized block, and resolves its dates and the
   deployment of a contract by binary search below it, while the head moves on
   and other runs, with other ceilings, fill the same cache.  The rows name a
   timestamp or an address, but not the ceiling they were found under. *)
EXTENDS Integers

CONSTANTS
  Procs,        \* runs of the program, an offline one never taking a miss
  MinHead, MaxBlock,    \* bounds on the head
  Time,         \* timestamp of a block
  Times,        \* timestamps a user or a block may name
  Starts, Ends, \* start dates and explicit end dates
  DatesOf,      \* start, anniversaries and end of a scenario
  FirstCode,    \* block the contract was deployed in
  None, Code    \* Code: the search for a deployment

Blocks == 0..MaxBlock

ASSUME ChainAssumption ==
  /\ MaxBlock \in Nat /\ MinHead \in Blocks /\ FirstCode \in 1..MaxBlock
  /\ Time \in [Blocks -> Times] /\ Times \subseteq Nat 
  /\ Starts \subseteq Times /\ Ends \subseteq Times
  /\ \A b, c \in Blocks : b < c => Time[b] < Time[c]
  /\ DatesOf \in [Starts -> [Times -> SUBSET Times]]
  /\ \A s \in Starts, e \in Times :
       s < e => s \in DatesOf[s][e] /\ \A t \in DatesOf[s][e] : t <= e
  /\ None \notin Times \cup Blocks /\ Code \notin Times /\ Code # None

VARIABLES
  head,         \* the latest finalized block
  ceilingRow,   \* cache rows "run-ceiling-v1", by end
  atRow,        \* cache rows "timestamp-v1", by timestamp
  codeRow,      \* the cache row "deployment-v1" of the contract
  pc, start, end, ceiling,   \* of each run
  job, low, high,   \* what it searches for, and between which blocks
  found         \* blocks it has resolved
vars == <<head, ceilingRow, atRow, codeRow, pc, start, end, ceiling, job, low,
          high, found>>

rows == <<ceilingRow, atRow, codeRow>>
scenario == <<start, end>>
search == <<job, low, high>>
Jobs == Times \cup {Code}
Absent == -1            \* the strategy is unavailable at the start block

Init == /\ head \in MinHead..MaxBlock
        /\ ceilingRow = [t \in Times |-> None]
        /\ atRow = [t \in Times |-> None]
        /\ codeRow = None
        /\ pc = [p \in Procs |-> "idle"]
        /\ start = [p \in Procs |-> None]
        /\ end = [p \in Procs |-> None]
        /\ ceiling = [p \in Procs |-> None]
        /\ job = [p \in Procs |-> None]
        /\ low = [p \in Procs |-> 0]
        /\ high = [p \in Procs |-> 0]
        /\ found = [p \in Procs |-> [j \in Jobs |-> None]]

\* INSERT OR IGNORE
NotKept(row, b) == row
Kept(row, b) == IF row = None THEN b ELSE row
Goto(p, l) == pc' = [pc EXCEPT ![p] = l]
NoSearch(p) == /\ job' = [job EXCEPT ![p] = None]
               /\ low' = [low EXCEPT ![p] = 0]
               /\ high' = [high EXCEPT ![p] = 0]
Resolve(p, j, b) == found' = [found EXCEPT ![p][j] = b]

\* blocks finalize while runs go on
Finalize == /\ head < MaxBlock
            /\ head' = head + 1
            /\ UNCHANGED <<rows, pc, scenario, ceiling, search, found>>

-----------------------------------------------------------------------------
(* cli.run: the ceiling *)

Begin(p, s, e) ==
  /\ pc[p] = "idle"
  /\ start' = [start EXCEPT ![p] = s]
  /\ end' = [end EXCEPT ![p] = e]
  /\ Goto(p, "ceiling")

GivenEnd(p, s, e) ==
  /\ Begin(p, s, e)
  /\ UNCHANGED <<head, rows, ceiling, search, found>>

\* the end defaults to that of the latest finalized block
DefaultEnd(p, s) ==
  /\ Begin(p, s, Time[head])
  /\ ceiling' = [ceiling EXCEPT ![p] = head]
  /\ UNCHANGED <<head, rows, search, found>>

\* Scenario refuses an end that is not after its start
CreateScenario(p) == Goto(p, IF start[p] < end[p] THEN "dates" ELSE "invalid")

CeilingHit(p) ==
  /\ pc[p] = "ceiling" /\ ceilingRow[end[p]] # None
  /\ ceiling' = [ceiling EXCEPT ![p] = ceilingRow[end[p]]]
  /\ CreateScenario(p)
  /\ UNCHANGED <<head, rows, scenario, search, found>>

NotChecked(e, b) == TRUE
Covers(e, b) == e <= Time[b]

\* finalized_ceiling(): an end the head has not reached is refused
FetchCeiling(p) ==
  /\ pc[p] = "ceiling" /\ ceilingRow[end[p]] = None
  /\ ceiling' = [ceiling EXCEPT ![p] = IF @ = None THEN head ELSE @]
  /\ Covers(end[p], ceiling'[p])
  /\ Goto(p, "store-ceiling")
  /\ UNCHANGED <<head, rows, scenario, search, found>>

\* the run goes on with the ceiling it fetched, whichever row is kept
StoreCeiling(p) ==
  /\ pc[p] = "store-ceiling"
  /\ ceilingRow' = [ceilingRow EXCEPT ![end[p]] = Kept(@, ceiling[p])]
  /\ CreateScenario(p)
  /\ UNCHANGED <<head, atRow, codeRow, scenario, ceiling, search, found>>

-----------------------------------------------------------------------------
(* Archive.at and last_block_at *)

\* compare() asks for the start and the end before the dates between them
Unresolved(p) == {t \in DatesOf[start[p]][end[p]] : found[p][t] = None}
Due(p, t) == /\ pc[p] = "dates" /\ t \in Unresolved(p)
             /\ start[p] \in Unresolved(p) => t = start[p]
             /\ end[p] \in Unresolved(p) => t \in {start[p], end[p]}

AtHit(p, t) ==
  /\ Due(p, t) /\ atRow[t] # None
  /\ IF atRow[t] > ceiling[p]
     THEN Goto(p, "refused") /\ UNCHANGED found
     ELSE Resolve(p, t, atRow[t]) /\ UNCHANGED pc
  /\ UNCHANGED <<head, rows, scenario, ceiling, search>>

\* a timestamp the ceiling has reached exactly, or is beyond, is the ceiling
NotTheEnd(p, t) == t # end[p]
BelowCeiling(p, t) == t < Time[ceiling[p]]

AtMiss(p, t) ==
  /\ Due(p, t) /\ atRow[t] = None
  /\ job' = [job EXCEPT ![p] = t]
  /\ low' = [low EXCEPT ![p] = IF BelowCeiling(p, t) THEN 0 ELSE ceiling[p]]
  /\ high' = [high EXCEPT ![p] = ceiling[p]]
  /\ Goto(p, IF BelowCeiling(p, t) THEN "search" ELSE "store")
  /\ UNCHANGED <<head, rows, scenario, ceiling, found>>

Before(b, t) == Time[b] < t
AtOrBefore(b, t) == Time[b] <= t

Middle(p) == (low[p] + high[p]) \div 2
MiddleUp(p) == (low[p] + high[p] + 1) \div 2

ProbeTime(p) ==
  /\ pc[p] = "search" /\ job[p] # Code /\ low[p] < high[p]
  /\ IF AtOrBefore(MiddleUp(p), job[p])
     THEN low' = [low EXCEPT ![p] = MiddleUp(p)] /\ UNCHANGED high
     ELSE high' = [high EXCEPT ![p] = MiddleUp(p) - 1] /\ UNCHANGED low
  /\ UNCHANGED <<head, rows, pc, scenario, ceiling, job, found>>

\* if the first block of all is still later, the date precedes genesis
TimeFound(p) ==
  /\ pc[p] = "search" /\ job[p] # Code /\ low[p] = high[p]
  /\ Time[low[p]] <= job[p]
  /\ Goto(p, "store")
  /\ UNCHANGED <<head, rows, scenario, ceiling, search, found>>

StoreTime(p) ==
  /\ pc[p] = "store" /\ job[p] # Code
  /\ atRow' = [atRow EXCEPT ![job[p]] = Kept(@, low[p])]
  /\ IF low[p] > ceiling[p]
     THEN Goto(p, "refused") /\ UNCHANGED found
     ELSE Resolve(p, job[p], low[p]) /\ Goto(p, "dates")
  /\ NoSearch(p)
  /\ UNCHANGED <<head, ceilingRow, codeRow, scenario, ceiling>>

-----------------------------------------------------------------------------
(* Archive.deployment, below the block the start date resolved to *)

HasCode(b) == b >= FirstCode
Verifying(p) == /\ pc[p] = "dates" /\ Unresolved(p) = {} /\ found[p][Code] = None

\* no code at the start block, or a read that failed or is not cached
NoDeployment(p) ==
  /\ Verifying(p)
  /\ Resolve(p, Code, Absent)
  /\ UNCHANGED <<head, rows, pc, scenario, ceiling, search>>

DeployedAnyway(p) == TRUE
DeployedByStart(p) == HasCode(found[p][start[p]])

DeploymentHit(p) ==
  /\ Verifying(p) /\ DeployedByStart(p) /\ codeRow # None
  /\ Resolve(p, Code, codeRow)
  /\ UNCHANGED <<head, rows, pc, scenario, ceiling, search>>

DeploymentMiss(p) ==
  /\ Verifying(p) /\ DeployedByStart(p) /\ codeRow = None
  /\ job' = [job EXCEPT ![p] = Code]
  /\ low' = [low EXCEPT ![p] = 0]
  /\ high' = [high EXCEPT ![p] = found[p][start[p]]]
  /\ Goto(p, "search")
  /\ UNCHANGED <<head, rows, scenario, ceiling, found>>

ProbeCode(p) ==
  /\ pc[p] = "search" /\ job[p] = Code /\ low[p] < high[p]
  /\ IF HasCode(Middle(p))
     THEN high' = [high EXCEPT ![p] = Middle(p)] /\ UNCHANGED low
     ELSE low' = [low EXCEPT ![p] = Middle(p) + 1] /\ UNCHANGED high
  /\ UNCHANGED <<head, rows, pc, scenario, ceiling, job, found>>

StoreCode(p) ==
  /\ pc[p] = "search" /\ job[p] = Code /\ low[p] = high[p]
  /\ codeRow' = Kept(codeRow, low[p])
  /\ Resolve(p, Code, low[p])
  /\ Goto(p, "dates")
  /\ NoSearch(p)
  /\ UNCHANGED <<head, ceilingRow, atRow, scenario, ceiling>>

-----------------------------------------------------------------------------
\* a read below the search for a deployment fails, and with it the strategy
ReadFails(p) ==
  /\ pc[p] = "search" /\ job[p] = Code
  /\ Resolve(p, Code, Absent)
  /\ Goto(p, "dates")
  /\ NoSearch(p)
  /\ UNCHANGED <<head, rows, scenario, ceiling>>

Ended(p) == /\ Goto(p, "idle")
            /\ start' = [start EXCEPT ![p] = None]
            /\ end' = [end EXCEPT ![p] = None]
            /\ ceiling' = [ceiling EXCEPT ![p] = None]
            /\ found' = [found EXCEPT ![p] = [j \in Jobs |-> None]]
            /\ NoSearch(p)
            /\ UNCHANGED <<head, rows>>

Finish(p) == /\ pc[p] = "dates" /\ Unresolved(p) = {} /\ found[p][Code] # None
             /\ Ended(p)

\* the run fails: its end or start is refused, a read for a date fails, it is
\* offline and a row is missing, a date precedes genesis; or it is killed
Fail(p) == pc[p] # "idle" /\ Ended(p)

Ceiling(p) == CeilingHit(p) \/ FetchCeiling(p) \/ StoreCeiling(p)
Search(p) == ProbeTime(p) \/ TimeFound(p) \/ ProbeCode(p) \/ StoreCode(p)
Deployment(p) == NoDeployment(p) \/ DeploymentHit(p) \/ DeploymentMiss(p)

Next == \/ Finalize
        \/ \E p \in Procs :
             \/ \E s \in Starts :
                  DefaultEnd(p, s) \/ \E e \in Ends : GivenEnd(p, s, e)
             \/ \E t \in Times : AtHit(p, t) \/ AtMiss(p, t)
             \/ Ceiling(p) \/ Search(p) \/ StoreTime(p) \/ Deployment(p)
             \/ ReadFails(p) \/ Finish(p) \/ Fail(p)

Spec == Init /\ [][Next]_vars

-----------------------------------------------------------------------------
(* Types: a run has a scenario as soon as it begins, and nothing before, ordered
   once it is checked, and searches between genesis and the finalized head. *)
Working == {"dates", "search", "store", "refused"}
TypeOK ==
  /\ head \in Blocks
  /\ ceilingRow \in [Times -> Blocks \cup {None}]
  /\ atRow \in [Times -> Blocks \cup {None}]
  /\ codeRow \in Blocks \cup {None}
  /\ pc \in [Procs -> Working \cup {"idle", "ceiling", "store-ceiling", "invalid"}]
  /\ start \in [Procs -> Starts \cup {None}]
  /\ end \in [Procs -> Times \cup {None}]
  /\ ceiling \in [Procs -> Blocks \cup {None}]
  /\ job \in [Procs -> Jobs \cup {None}]
  /\ low \in [Procs -> Blocks] /\ high \in [Procs -> Blocks]
  /\ found \in [Procs -> [Jobs -> Blocks \cup {None, Absent}]]
  /\ \A p \in Procs : /\ pc[p] # "idle" => start[p] # None /\ end[p] # None
                      /\ pc[p] = "idle" => ceiling[p] = None /\ found[p][Code] = None
                      /\ pc[p] \in Working => start[p] < end[p]
                      /\ high[p] <= head

IsLast(b, t) == /\ Time[b] <= t
                /\ \A c \in Blocks : c > b => Time[c] > t
Covering(b, t) == b <= head /\ t <= Time[b]
Block(p, j) == found[p][j] \notin {None, Absent}

(* Every ceiling, cached or held by a run, reaches the end it is for, and it and
   every block a run resolves is finalized. *)
CeilingCovers ==
  /\ \A t \in Times : ceilingRow[t] # None => Covering(ceilingRow[t], t)
  /\ \A p \in Procs :
        /\ \/ ceiling[p] = None /\ pc[p] \in {"idle", "ceiling"}
           \/ ceiling[p] # None /\ Covering(ceiling[p], end[p])
        /\ \A j \in Jobs : Block(p, j) => found[p][j] <= head

(* A cached date is the last block of the final chain at or before it, and the
   cached deployment the first block with code, whichever run found them,
   below whichever ceiling, and whatever was finalized since. *)
RowsExact == /\ \A t \in Times : atRow[t] # None => IsLast(atRow[t], t)
             /\ codeRow # None => codeRow = FirstCode

(* No two runs work on different blocks for one date, or for the deployment, although
   two that race for the ceiling of one end go on with different ones. *)
RunsAgree ==
  \A p, q \in Procs, j \in Jobs :
    Block(p, j) /\ Block(q, j) => found[p][j] = found[q][j]

(* A run resolves a date to the last block at or before it, and the deployment to the
   first block with code, below whichever ceiling it is. *)
ResolvesExactly ==
  \A p \in Procs :
     /\ \A t \in Times : found[p][t] # None => Block(p, t) /\ IsLast(found[p][t], t)
     /\ Block(p, Code) => found[p][Code] = FirstCode

(* The block that is searched for is never lost from what is left to search,
   as long as the date is not before genesis, and what is stored is that block. *)
SearchBrackets ==
  \A p \in Procs :
     /\ pc[p] = "search" /\ job[p] \in Times =>
          /\ low[p] <= high[p] /\ high[p] <= ceiling[p]
          /\ low[p] = 0 \/ Time[low[p]] <= job[p]
          /\ \A b \in Blocks : b > high[p] => Time[b] > job[p]
     /\ pc[p] = "search" /\ job[p] = Code =>
          /\ low[p] <= FirstCode /\ FirstCode <= high[p]
          /\ Block(p, start[p]) /\ high[p] <= found[p][start[p]]
     /\ pc[p] = "search" => job[p] # None
     /\ pc[p] = "store" =>
          job[p] \in Times /\ low[p] <= ceiling[p] /\ IsLast(low[p], job[p])

(* The check of a cached date against the ceiling never refuses a run. *)
CeilingNeverRefuses == \A p \in Procs : pc[p] # "refused"

(* A deployment taken from the cache, where it was put by a run with another
   start, is not later than the start block of the run that uses it. *)
DeployedInTime ==
  \A p \in Procs : Block(p, Code) =>
    Block(p, start[p]) /\ found[p][Code] <= found[p][start[p]]

(* What a run has resolved is resolved again by an offline run with the end it
   reported: no row of it is missing, whichever run has stored it. *)
ReplaysOffline ==
  \A p \in Procs :
     /\ pc[p] \in Working => ceilingRow[end[p]] # None
     /\ \A t \in Times : found[p][t] # None => atRow[t] # None
     /\ Block(p, Code) => codeRow # None

(* Each read of a search at least halves what is left of it, so that a date
   costs as many reads as the ceiling has bits. *)
SearchHalves ==
  [][\A p \in Procs :
       /\ pc[p] = "search" /\ pc'[p] # "idle"
       /\ low'[p] # low[p] \/ high'[p] # high[p]
       => 2 * (high'[p] - low'[p]) <= high[p] - low[p]]_vars
=============================================================================
