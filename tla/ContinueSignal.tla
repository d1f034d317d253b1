--------------------------- MODULE ContinueSignal ---------------------------
(***************************************************************************)
(* How one run's worker blocks at its held gates: waitForContinueSignal,   *)
(* command by command.  StlcRun takes a check of the flags, a poll and a   *)
(* message to be one step each; here every Redis command, its reply and    *)
(* every message is a step, as they are on the worker's two connections:   *)
(* one carries commands and their replies in order, the other, opened for  *)
(* each wait, carries the messages of the run's continue channel.          *)
(***************************************************************************)
EXTENDS Integers, Sequences

CONSTANTS
  LastWait,        \* number of held gates of the run
  MaxPending,      \* bound: commands and replies in flight when a poll fires
  PromptHandlers   \* TRUE: a stage outlasts the handler of the answer before it

ASSUME WaitAssumption ==
  /\ LastWait \in Nat \ {0}
  /\ MaxPending \in Nat
  /\ PromptHandlers \in BOOLEAN

VARIABLES
  contFlag, cancelFlag,    \* the two flags in Redis
  pc, wait,                \* the worker: step, and the wait it is in or works towards
  wire,                    \* commands sent to Redis and not executed yet
  replies,                 \* replies on their way back
  sub,                     \* the subscription of this wait: off, pending, on
  inbox,                   \* messages on their way to the subscriber
  asked,                   \* the row is AWAITING_<gate>
  answerer, canceller,     \* the API handlers: idle, set, publish (canceller ends in done)
  answered,                \* history: waits a human answered
  cancelTaken              \* history: a command of the worker took the cancel-flag

flags == <<contFlag, cancelFlag>>
worker == <<pc, wait, sub>>
user == <<asked, answerer, canceller, answered>>
vars == <<flags, worker, wire, replies, inbox, user, cancelTaken>>

Waits == 1..LastWait

\* GETDEL of a flag, sent on entry ("first") or by a poll of wait n; DEL after settling;
\* "event" stands for the commands of publishEvent, which a stage awaits.
Command == [op : {"first", "poll"}, key : {"cancel", "continue"}, of : Waits]
           \union [op : {"del"}, key : {"cancel", "continue"}, of : Waits]
           \union [op : {"event"}, key : {"none"}, of : Waits]
Reply == [to : Command, hit : BOOLEAN]

Cmd(op, key) == [op |-> op, key |-> key, of |-> wait]

TypeOK ==
  /\ contFlag \in BOOLEAN /\ cancelFlag \in BOOLEAN
  /\ pc \in {"stage", "working", "first", "wait", "leaving", "quitting", "closed", "stopped", "failed"}
  /\ wait \in Waits
  /\ wire \in Seq(Command)
  /\ replies \in Seq(Reply)
  /\ sub \in {"off", "pending", "on"}
  /\ inbox \in Seq({"continue", "cancel"})
  /\ asked \in BOOLEAN
  /\ answerer \in {"idle", "set", "publish"}
  /\ canceller \in {"idle", "set", "publish", "done"}
  /\ answered \subseteq Waits
  /\ cancelTaken \in BOOLEAN

Init ==
  /\ contFlag = FALSE /\ cancelFlag = FALSE
  /\ pc = "stage" /\ wait = 1
  /\ wire = <<>> /\ replies = <<>>
  /\ sub = "off" /\ inbox = <<>>
  /\ asked = FALSE
  /\ answerer = "idle" /\ canceller = "idle"
  /\ answered = {}
  /\ cancelTaken = FALSE

-----------------------------------------------------------------------------
(* The stage before a wait, and the entry of waitForContinueSignal *)

\* A stage reports through publishEvent, on the connection the flags are read on.
SendEvent ==
  /\ pc = "stage"
  /\ pc' = "working"
  /\ wire' = Append(wire, Cmd("event", "none"))
  /\ UNCHANGED <<flags, wait, sub, replies, inbox, user, cancelTaken>>

\* Slip: publishEvent is not awaited.
EventDoneUnawaited ==
  /\ pc = "working"
  /\ ~PromptHandlers \/ answerer = "idle"
  /\ pc' = "first"
  /\ asked' = TRUE
  /\ wire' = Append(wire, Cmd("first", "cancel"))
  /\ UNCHANGED <<flags, wait, sub, replies, inbox, answerer, canceller, answered, cancelTaken>>

\* The gate is asked and the wait begins: GETDEL cancel-flag.
EventDone ==
  /\ pc = "working"
  /\ replies # <<>> /\ Head(replies).to.op = "event"
  /\ ~PromptHandlers \/ answerer = "idle"
  /\ pc' = "first"
  /\ asked' = TRUE
  /\ replies' = Tail(replies)
  /\ wire' = Append(wire, Cmd("first", "cancel"))
  /\ UNCHANGED <<flags, wait, sub, inbox, answerer, canceller, answered, cancelTaken>>

\* The wait returned: on to the next stage, or the run closes.
Return ==
  IF wait = LastWait THEN pc' = "closed" /\ UNCHANGED wait
  ELSE pc' = "stage" /\ wait' = wait + 1

\* The replies of the first two commands are awaited one by one.
FirstReply ==
  /\ pc = "first"
  /\ replies # <<>>
  /\ replies' = Tail(replies)
  /\ LET r == Head(replies) IN
       CASE r.to.op # "first"                      -> UNCHANGED <<worker, wire>>
         [] r.to.op = "first" /\ r.to.key = "cancel" /\ r.hit
              -> pc' = "stopped" /\ UNCHANGED <<wait, sub, wire>>
         [] r.to.op = "first" /\ r.to.key = "cancel" /\ ~r.hit
              -> wire' = Append(wire, Cmd("first", "continue")) /\ UNCHANGED worker
         [] r.to.op = "first" /\ r.to.key = "continue" /\ r.hit
              -> Return /\ UNCHANGED <<sub, wire>>
         [] r.to.op = "first" /\ r.to.key = "continue" /\ ~r.hit
              -> pc' = "wait" /\ sub' = "pending" /\ UNCHANGED <<wait, wire>>
  /\ UNCHANGED <<flags, inbox, user, cancelTaken>>

-----------------------------------------------------------------------------
(* While the promise is pending *)

\* Slip: the poll reads the cancel-flag alone.
PollTickCancelOnly ==
  /\ pc = "wait"
  /\ Len(wire) + Len(replies) <= MaxPending
  /\ wire' = Append(wire, Cmd("poll", "cancel"))
  /\ UNCHANGED <<flags, worker, replies, inbox, user, cancelTaken>>

\* setInterval: both GETDELs are sent and neither is awaited.
PollTick ==
  /\ pc = "wait"
  /\ Len(wire) + Len(replies) <= MaxPending
  /\ wire' = wire \o <<Cmd("poll", "cancel"), Cmd("poll", "continue")>>
  /\ UNCHANGED <<flags, worker, replies, inbox, user, cancelTaken>>

\* Slip: the flag a message stood for is left in Redis.
SettleKeepsFlag(key) ==
  /\ pc' = IF key = "cancel" THEN "quitting" ELSE "leaving"
  /\ UNCHANGED wire

\* finishOk and finishCancel: settle once, DEL the flag, unsubscribe.
Settle(key) ==
  /\ pc' = IF key = "cancel" THEN "quitting" ELSE "leaving"
  /\ wire' = Append(wire, Cmd("del", key))

\* The reply of a poll settles the promise it was sent for, if that is still pending.
PollReply ==
  /\ pc \in {"wait", "leaving", "quitting", "stage", "working"}
  /\ replies # <<>>
  /\ Head(replies).to.op \in {"poll", "del"}
  /\ replies' = Tail(replies)
  /\ LET r == Head(replies) IN
       IF r.to.op = "poll" /\ r.hit /\ pc = "wait" /\ r.to.of = wait
       THEN Settle(r.to.key)
       ELSE UNCHANGED <<pc, wire>>
  /\ UNCHANGED <<flags, wait, sub, inbox, user, cancelTaken>>

\* A message settles the promise, if it is still pending.
Message ==
  /\ inbox # <<>>
  /\ inbox' = Tail(inbox)
  /\ IF pc = "wait" THEN Settle(Head(inbox)) ELSE UNCHANGED <<pc, wire>>
  /\ UNCHANGED <<flags, wait, sub, replies, user, cancelTaken>>

\* unsubscribe and disconnect, then the promise resolves or rejects.
Leave ==
  /\ pc \in {"leaving", "quitting"}
  /\ sub' = "off"
  /\ inbox' = <<>>
  /\ IF pc = "leaving" THEN Return ELSE pc' = "stopped" /\ UNCHANGED wait
  /\ UNCHANGED <<flags, wire, replies, user, cancelTaken>>

\* The 30 minute timer, or SUBSCRIBE fails.  The row stays AWAITING until the
\* orchestrator writes FAILED.
TimeOut ==
  /\ pc = "wait"
  /\ pc' = "failed"
  /\ sub' = "off"
  /\ inbox' = <<>>
  /\ UNCHANGED <<flags, wait, wire, replies, user, cancelTaken>>

-----------------------------------------------------------------------------
(* Redis *)

\* The oldest command of the worker's connection; a GETDEL takes the flag at once.
Execute ==
  /\ wire # <<>>
  /\ wire' = Tail(wire)
  /\ LET c == Head(wire)
         cancels == c.key = "cancel"
         hit == \/ c.key = "cancel" /\ cancelFlag
                \/ c.key = "continue" /\ contFlag
     IN /\ replies' = Append(replies, [to |-> c, hit |-> hit /\ c.op # "del"])
        /\ cancelFlag' = (cancelFlag /\ c.key # "cancel")
        /\ contFlag' = (contFlag /\ c.key # "continue")
        /\ cancelTaken' = (cancelTaken \/ (cancels /\ hit))
  /\ UNCHANGED <<worker, inbox, user>>

Subscribed ==
  /\ sub = "pending"
  /\ sub' = "on"
  /\ UNCHANGED <<flags, pc, wait, wire, replies, inbox, user, cancelTaken>>

\* A message reaches a subscriber that is there.
Deliver(m) == inbox' = IF sub = "on" THEN Append(inbox, m) ELSE inbox

-----------------------------------------------------------------------------
(* The API: publishContinue and publishCancel *)

\* A handler accepts the answer to the gate that is asked.
Answer ==
  /\ answerer = "idle"
  /\ asked
  /\ answerer' = "set"
  /\ asked' = FALSE
  /\ answered' = answered \union {wait}
  /\ UNCHANGED <<flags, worker, wire, replies, inbox, canceller, cancelTaken>>

\* cancel writes CANCELLED over the row before it signals.
Cancel ==
  /\ canceller = "idle"
  /\ canceller' = "set"
  /\ asked' = FALSE
  /\ UNCHANGED <<flags, worker, wire, replies, inbox, answerer, answered, cancelTaken>>

SetFlag ==
  /\ \/ answerer = "set" /\ answerer' = "publish" /\ contFlag' = TRUE /\ UNCHANGED <<cancelFlag, canceller>>
     \/ canceller = "set" /\ canceller' = "publish" /\ cancelFlag' = TRUE /\ UNCHANGED <<contFlag, answerer>>
  /\ UNCHANGED <<worker, wire, replies, inbox, asked, answered, cancelTaken>>

Publish ==
  /\ \/ answerer = "publish" /\ answerer' = "idle" /\ Deliver("continue") /\ UNCHANGED canceller
     \/ canceller = "publish" /\ canceller' = "done" /\ Deliver("cancel") /\ UNCHANGED answerer
  /\ UNCHANGED <<flags, worker, wire, replies, asked, answered, cancelTaken>>

-----------------------------------------------------------------------------
Worker == SendEvent \/ EventDone \/ FirstReply \/ PollReply \/ Message \/ Leave
Redis == Execute \/ Subscribed
Api == SetFlag \/ Publish

Next == Worker \/ PollTick \/ TimeOut \/ Redis \/ Answer \/ Cancel \/ Api

Spec == Init /\ [][Next]_vars

-----------------------------------------------------------------------------
(* Properties *)

(* waitForContinueSignal returns only for an answer to the gate it waits at: no  *)
(* flag, message or reply of an earlier gate lets the run through a later one.   *)
PassedOnAnswer ==
  /\ \A n \in Waits : n < wait => n \in answered
  /\ pc = "closed" => LastWait \in answered

(* "Handles approve-before-subscribe races": an answer ends the wait without the *)
(* timer, unless the run is stopped.  Only the gate that is waited at is asked,   *)
(* so the run has passed an answered gate where its wait is not answered.         *)
AnswerEndsWait ==
  wait \in answered ~> wait \notin answered \/ pc \in {"closed", "stopped", "failed"}

(* No command or reply of an earlier wait is left when a gate is asked, so none *)
(* can take a flag that is not its own.                                         *)
NoStaleCommand ==
  pc \in {"first", "wait"} =>
    /\ \A i \in 1..Len(wire) : wire[i].of = wait
    /\ \A i \in 1..Len(replies) : replies[i].to.of = wait

(* "Cancel wins over continue": once a command took the cancel-flag the run goes *)
(* to no further stage.                                                          *)
CancelWins == [][cancelTaken => wait' = wait /\ pc' # "closed"]_vars
=============================================================================
