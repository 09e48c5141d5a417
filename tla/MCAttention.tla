---------------------------- MODULE MCAttention ----------------------------
(***************************************************************************)
(* Parts of the exchange between a human and the agents checked by one     *)
(* run: the waiting queue (WaitingQueue), the instruction queue            *)
(* (InstructionQueue), permission automation (Approval) and the inbox      *)
(* through which agents address each other (InboxBoard).  "part" picks the *)
(* one that moves; the others stay in their initial states.                *)
(***************************************************************************)
EXTENDS WaitingQueue, TLC

CONSTANTS Parts, Prompts, Limit, Requests
VARIABLES part,
  directions, recorded, written, failed, terminals, asked, given, sent,
  crashes,                                                  \* of InstructionQueue
  dialog, shown, output, keys, screen, enabled, delivered, status, invocation, owner, manual,
  enters, wrong,                                            \* of Approval
  service, mail, inv, last, bound, live, now, reader        \* of InboxBoard

directionVars == <<directions, recorded, written, failed, terminals, asked, given, sent, crashes>>
approvalVars  == <<dialog, shown, output, keys, screen, enabled, delivered, status, invocation,
                   owner, manual, enters, wrong>>
boardVars     == <<service, mail, inv, last, bound, live, now, reader>>

\* Three small instances: several process groups, several requests, a crash.
Direction == INSTANCE InstructionQueue WITH
  MaxWorkspace <- 3, MaxInvocation <- 2, MaxAsked <- 2, MaxDelivery <- 2, MaxPid <- 3,
  MaxVerdicts <- 1, MaxCrashes <- 0, queue <- directions, panes <- terminals
Edited == INSTANCE InstructionQueue WITH
  MaxWorkspace <- 3, MaxInvocation <- Limit, MaxAsked <- Requests, MaxDelivery <- 2, MaxPid <- 2,
  MaxVerdicts <- 1, MaxCrashes <- 0, queue <- directions, panes <- terminals
Replayed == INSTANCE InstructionQueue WITH
  MaxWorkspace <- 2, MaxInvocation <- 2, MaxAsked <- 2, MaxDelivery <- 2, MaxPid <- 2,
  MaxVerdicts <- 1, MaxCrashes <- 1, queue <- directions, panes <- terminals

Approvals == INSTANCE Approval WITH MaxDialogs <- 2, MaxInvocations <- 2, Lag <- 2

\* Two Panes of two Projects: claims, replies read across a restart, and watches.
Claims  == INSTANCE InboxBoard WITH
  Panes <- {1, 2}, Owner <- <<1, 2>>, Projects <- {1, 2}, PageLimit <- 1, MaxQueue <- 1,
  Verbs <- {"claim", "release", "revoke", "bind"}, Lives <- {1}, MaxSeq <- 4, MaxTime <- 0,
  MaxJournal <- 9, MaxBinds <- 3, MaxRestarts <- 0, queue <- mail
Replies == INSTANCE InboxBoard WITH
  Panes <- {1}, Owner <- <<1, 2>>, Projects <- {1, 2}, PageLimit <- 1, MaxQueue <- 1,
  Verbs <- {"reply", "ack", "clear", "read"}, Lives <- {1}, MaxSeq <- 3, MaxTime <- 1,
  MaxJournal <- 3, MaxBinds <- 1, MaxRestarts <- 1, queue <- mail
Watches == INSTANCE InboxBoard WITH
  Panes <- {1, 2}, Owner <- <<1, 2>>, Projects <- {1, 2}, PageLimit <- 1, MaxQueue <- 1,
  Verbs <- {"watch", "credential", "bind", "claim", "pause"}, Lives <- {1, 2}, MaxSeq <- 2,
  MaxTime <- 1, MaxJournal <- 2, MaxBinds <- 3, MaxRestarts <- 0, queue <- mail

Env(s, with) == [status |-> s, with |-> with]
SmallEnvelopes ==
  {Env("Working", "nothing"), Env("Permission", "nothing"),
   Env("Permission", "session"), Env("Permission", "asked"), Env("Exited", "nothing")}

NoBoard ==
  /\ service = 0 /\ mail = 0 /\ inv = 0 /\ last = 0 /\ bound = 0 /\ live = 0 /\ now = 0 /\ reader = 0

MCInit ==
  /\ part \in Parts
  /\ Init /\ Direction!Init /\ Approvals!Init
  /\ CASE part = "claims"  -> Claims!Init
       [] part = "replies" -> Replies!Init
       [] part = "watches" -> Watches!Init
       [] OTHER            -> NoBoard

WaitingStep ==
  part = "waiting" /\ UNCHANGED <<part, directionVars, approvalVars, boardVars>> /\ Next
DirectionStep ==
  /\ UNCHANGED <<part, vars, approvalVars, boardVars>>
  /\ \/ part = "direction" /\ Direction!Next
     \/ part = "edited" /\ Edited!Next
     \/ part = "replayed" /\ Replayed!Next
ApprovalStep ==
  part = "approval" /\ UNCHANGED <<part, vars, directionVars, boardVars>> /\ Approvals!Next
BoardStep ==
  /\ UNCHANGED <<part, vars, directionVars, approvalVars>>
  /\ \/ part = "claims" /\ Claims!Next
     \/ part = "replies" /\ Replies!Next
     \/ part = "watches" /\ Watches!Next

MCNext == WaitingStep \/ DirectionStep \/ ApprovalStep \/ BoardStep

MCSpec == MCInit /\ [][MCNext]_<<part, vars, directionVars, approvalVars, boardVars>>

Symmetry == Permutations(Summaries) \cup Permutations(Prompts)

-----------------------------------------------------------------------------
(* The properties of the instances; each is stated and explained in its    *)
(* own module.                                                             *)

\* WaitingQueue and InstructionQueue: the queues keep their limits, the events
\* appended replay to the live queue, and a ready event delivers to the process
\* group addressed.
QueuesReplay ==
  /\ TypeOK /\ ReplayAgrees /\ Direction!ReplayAgrees /\ Direction!ReadyReachesItsInvocation
  /\ part = "direction" => Direction!TypeOK
  /\ part = "edited" => Edited!TypeOK
  /\ part = "replayed" => Replayed!TypeOK
\* InstructionQueue: a request is typed into a Pane at most once, crashes
\* included, and a ready event delivers the earliest request that waits.
DeliveredOnceInOrder == [][Direction!FirstDelivery /\ Direction!EarliestDelivered]_directionVars
\* InstructionQueue, against instruction.rs: a replaced item keeps its place.
ReplacementKeepsPlace == Direction!ReplacementKeepsPlace
\* Approval: a dialog gets at most one submission from one invocation, on its
\* affirmative row, and with the mode off only for an approval the human gave.
DialogsAnsweredAsMeant ==
  /\ Approvals!OneSubmission /\ Approvals!SubmitsTheAffirmative
  /\ Approvals!ManualStaysOnItsDialog
\* InboxBoard: a claim is held by one live invocation, no event a watcher waits for
\* is slept through, and a reader that pages gets every record.
BoardIsHonest ==
  /\ part = "claims" => Claims!ClaimsAreLive /\ Claims!NothingSleptThrough
                        /\ Claims!ReaderIsComplete
  /\ part = "replies" => Replies!ClaimsAreLive /\ Replies!NothingSleptThrough
                         /\ Replies!ReaderIsComplete
  /\ part = "watches" => Watches!ClaimsAreLive /\ Watches!NothingSleptThrough
                         /\ Watches!ReaderIsComplete
=============================================================================
