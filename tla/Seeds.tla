-------------------------------- MODULE Seeds ---------------------------------
(****************************************************************************)
(* The two seeds and one board they write: seed.ts upserts the demo rows one   *)
(* statement at a time, seed-volume.ts writes a plan whose size is an option in  *)
(* one transaction. Either may be stopped at any step and is run again, while     *)
(* the users of the seeded board go on creating tasks. Rows 1..MaxPlanned may be   *)
(* planned, each with its own number as its sequence; the others are created.       *)
(****************************************************************************)
EXTENDS Integers, FiniteSetsExt

CONSTANTS
  MaxPlanned,    \* rows that a plan may have
  Users,         \* rows that users create
  Seed           \* which seeds are run: subset of {"demo", "volume"}

VARIABLES
  seed,       \* the seed of this database
  account,    \* the first planned user: "none", "user" or "credential"
  sequence,   \* sequence of each row, 0 if there is none
  content,    \* the row has the fields of the plan
  edges,      \* dependencies between planned rows
  counter,    \* nextTaskSequence, 0 if there is no board
  plan,       \* rows planned by the current or the last run
  row,        \* the row that the loop of the demo seed upserts next
  at,         \* what the run does next, "idle" if none is running
  ended,      \* how the last run ended: "never", "done", "cut" or "refused"
  halved,     \* a run was cut between the user and the credential
  usable      \* the first run has ended, and the API was started

vars == <<seed, account, sequence, content, edges, counter, plan, row, at, ended, halved, usable>>

Row == 1..MaxPlanned \cup Users
Planned == 1..plan
PlannedEdges == {<<r, r - 1>> : r \in 2..plan}
Rows == {r \in Row : sequence[r] # 0}
Taken == {sequence[r] : r \in Rows}
Highest(s) == Max(s \cup {0})

Init ==
  /\ seed \in Seed
  /\ account = "none"
  /\ sequence = [r \in Row |-> 0] /\ content = [r \in Row |-> FALSE]
  /\ edges = {} /\ counter = 0
  /\ plan = 0 /\ row = 1 /\ at = "idle" /\ ended = "never"
  /\ halved = FALSE /\ usable = FALSE

board == <<sequence, content, edges, counter>>
outcome == <<ended, halved, usable>>

-----------------------------------------------------------------------------
(* Both seeds first create the users that are missing. The volume seed makes the  *)
(* credential with a call of its own, for the users it has just created.           *)

StartDemo ==
  /\ at = "idle" /\ seed = "demo"
  /\ at' = "users" /\ plan' = MaxPlanned /\ row' = 1
  /\ UNCHANGED <<seed, account, board, outcome>>

SignUpDemoUsers ==
  /\ at = "users" /\ seed = "demo"
  /\ account' = "credential" /\ at' = "board"
  /\ UNCHANGED <<seed, board, plan, row, outcome>>

StartVolume ==
  /\ at = "idle" /\ seed = "volume"
  /\ plan' \in 1..MaxPlanned
  /\ at' = "users"
  /\ UNCHANGED <<seed, account, board, row, outcome>>

ProvisionVolumeUsers ==
  /\ at = "users" /\ seed = "volume"
  /\ IF account = "none" THEN account' = "user" /\ at' = "link"
     ELSE at' = "reset" /\ UNCHANGED account
  /\ UNCHANGED <<seed, board, plan, row, outcome>>

LinkAccount ==
  /\ at = "link"
  /\ account' = "credential" /\ at' = "reset"
  /\ UNCHANGED <<seed, board, plan, row, outcome>>

-----------------------------------------------------------------------------
(* The demo seed: a statement for each row, then the counter.                    *)

UpsertBoard ==
  /\ at = "board"
  /\ counter' = IF counter = 0 THEN 1 ELSE counter
  /\ at' = "tasks"
  /\ UNCHANGED <<seed, account, sequence, content, edges, plan, row, outcome>>

(* The fields of the plan, whatever users made of the row; a new row has to find  *)
(* its sequence free.                                                              *)
UpsertTask ==
  /\ at = "tasks" /\ row \in Planned
  /\ sequence[row] = 0 => row \notin Taken
  /\ sequence' = [sequence EXCEPT ![row] = row]
  /\ content' = [content EXCEPT ![row] = TRUE]
  /\ row' = row + 1
  /\ UNCHANGED <<seed, account, edges, counter, plan, at, outcome>>

UpsertDependencies ==
  /\ at = "tasks" /\ row \notin Planned
  /\ edges' = edges \cup PlannedEdges
  /\ at' = "counter"
  /\ UNCHANGED <<seed, account, sequence, content, counter, plan, row, outcome>>

SetCounter ==
  /\ at = "counter"
  /\ counter' = Highest(Planned) + 1
  /\ at' = "idle" /\ ended' = "done" /\ usable' = TRUE
  /\ UNCHANGED <<seed, account, sequence, content, edges, plan, row, halved>>

-----------------------------------------------------------------------------
(* The volume seed: what conflicts is skipped, and a dependency on a row that was *)
(* skipped fails the transaction.                                                  *)

ResetVolumeData ==
  /\ at = "reset"
  /\ \/ /\ sequence' = [r \in Row |-> 0] /\ content' = [r \in Row |-> FALSE]
        /\ edges' = {} /\ counter' = 0
     \/ UNCHANGED board
  /\ at' = "write"
  /\ UNCHANGED <<seed, account, plan, row, outcome>>

Inserted == {r \in Planned \ Rows : r \notin Taken}

(* Slip: the counter follows the plan, as in the demo seed.                      *)
Reset(rows) == Highest(Planned) + 1
Raised(rows) == Max({counter, Highest(Taken \cup rows) + 1})

WriteVolumePlan ==
  /\ at = "write"
  /\ IF \A e \in PlannedEdges : {e[1], e[2]} \subseteq Rows \cup Inserted
     THEN /\ sequence' = [r \in Row |-> IF r \in Inserted THEN r ELSE sequence[r]]
          /\ content' = [r \in Row |-> content[r] \/ r \in Inserted]
          /\ edges' = edges \cup PlannedEdges
          /\ counter' = Raised(Inserted)
          /\ ended' = "done" /\ usable' = TRUE
     ELSE UNCHANGED <<board, usable>> /\ ended' = "refused"
  /\ at' = "idle"
  /\ UNCHANGED <<seed, account, plan, row, halved>>

-----------------------------------------------------------------------------
(* The process dies: statements that ran stay, a transaction leaves nothing.     *)
Crash ==
  /\ at # "idle"
  /\ at' = "idle" /\ ended' = "cut"
  /\ halved' = (halved \/ at = "link")
  /\ UNCHANGED <<seed, account, board, plan, row, usable>>

(* createForMember: a sequence that is taken violates the unique key, and the     *)
(* transaction that had raised the counter is undone.                              *)
CreateTask(r) ==
  /\ usable /\ counter # 0 /\ sequence[r] = 0
  /\ counter \notin Taken
  /\ sequence' = [sequence EXCEPT ![r] = counter]
  /\ counter' = counter + 1
  /\ UNCHANGED <<seed, account, content, edges, plan, row, at, outcome>>

UpdateTask(r) ==
  /\ usable /\ sequence[r] # 0 /\ content[r]
  /\ content' = [content EXCEPT ![r] = FALSE]
  /\ UNCHANGED <<seed, account, sequence, edges, counter, plan, row, at, outcome>>

Next ==
  \/ StartDemo \/ SignUpDemoUsers \/ UpsertBoard \/ UpsertTask \/ UpsertDependencies \/ SetCounter
  \/ StartVolume \/ ProvisionVolumeUsers \/ LinkAccount \/ ResetVolumeData \/ WriteVolumePlan
  \/ Crash
  \/ \E r \in Users : CreateTask(r)
  \/ \E r \in 1..MaxPlanned : UpdateTask(r)

Spec == Init /\ [][Next]_vars

-----------------------------------------------------------------------------
(* What a run leaves, however often runs were stopped before and whatever users   *)
(* did between them and since: a run that ends well leaves no sequence at or above   *)
(* the counter, so that no later task collides, but that the demo seed looks at its   *)
(* own rows only (seed.ts:497-498) and may set the counter back below tasks that        *)
(* users created; every planned row is there, but one whose sequence a task of a         *)
(* user had taken before; such a row is also the only reason for which a run is           *)
(* refused; and every planned user can sign in, but one that a crash left without          *)
(* credential, which no later run repairs.                                                  *)
SeededBoardSound ==
  LET outrun == \E u \in Users : sequence[u] \in Planned IN
  at = "idle" =>
    /\ ended = "refused" => seed = "volume" /\ outrun
    /\ ended = "done" =>
         /\ \A r \in Rows : sequence[r] < counter \/ (seed = "demo" /\ r \in Users)
         /\ ~outrun => Planned \subseteq Rows
         /\ account = "credential" \/ halved
==============================================================================
