------------------------------ MODULE AnswerProofs ------------------------------
(***************************************************************************)
(* What a human says and what becomes of it: the continue and cancel       *)
(* signals of a gate, the answers to the clarification rounds, and the     *)
(* approval of the requirements.                                           *)
(***************************************************************************)
EXTENDS ContinueSignal, Clarification, RequirementReview,
        SequenceTheorems, FiniteSetTheorems, WellFoundedInduction, TLAPS

--------------------------------------------------------------------------------
(* The commands of the worker's connection.  They are answered in the order they were sent,    *)
(* so the event that a stage waits for has every command of the earlier wait before it, and    *)
(* the gate is asked over an empty line.                                                       *)

Asides == {"poll", "del"}

OnlyAsides ==
  /\ \A i \in 1..Len(wire) : wire[i].op \in Asides
  /\ \A i \in 1..Len(replies) : replies[i].to.op \in Asides

Own ==
  /\ \A i \in 1..Len(wire) : wire[i].of = wait
  /\ \A i \in 1..Len(replies) : replies[i].to.of = wait

\* The event is on the wire, or its reply is under way, behind everything else.
EventLast ==
  \/ /\ wire # <<>> /\ wire[Len(wire)].op = "event"
     /\ \A i \in 1..Len(wire) : i # Len(wire) => wire[i].op \in Asides
     /\ \A i \in 1..Len(replies) : replies[i].to.op \in Asides
  \/ /\ wire = <<>> /\ replies # <<>> /\ replies[Len(replies)].to.op = "event"
     /\ \A i \in 1..Len(replies) : i # Len(replies) => replies[i].to.op \in Asides

FirstAlone ==
  \/ /\ replies = <<>> /\ Len(wire) = 1 /\ wire[1].op = "first" /\ wire[1].of = wait
  \/ /\ wire = <<>> /\ Len(replies) = 1 /\ replies[1].to.op = "first" /\ replies[1].to.of = wait

Line ==
  /\ pc \in {"stage", "leaving", "quitting"} => OnlyAsides
  /\ pc = "working" => EventLast
  /\ pc = "first" => FirstAlone
  /\ pc = "wait" => OnlyAsides /\ Own

LineInv == TypeOK /\ Line

\* What Append, Head and Tail do to the elements of a sequence.
LEMMA Appending ==
  ASSUME NEW S, NEW s \in Seq(S), NEW e \in S
  PROVE  /\ Append(s, e) \in Seq(S) /\ Append(s, e) # <<>>
         /\ Len(s) \in Nat /\ Len(Append(s, e)) = Len(s) + 1
         /\ Append(s, e)[Len(s) + 1] = e
         /\ \A i \in 1..Len(s) : Append(s, e)[i] = s[i]
         /\ \A i \in 1..Len(Append(s, e)) : i \in 1..Len(s) \/ i = Len(s) + 1
PROOF BY AppendProperties, LenProperties

LEMMA Taking ==
  ASSUME NEW S, NEW s \in Seq(S), s # <<>>
  PROVE  /\ Head(s) \in S /\ Tail(s) \in Seq(S) /\ Head(s) = s[1]
         /\ Len(s) \in Nat /\ Len(s) >= 1 /\ Len(Tail(s)) = Len(s) - 1
         /\ \A i \in 1..Len(Tail(s)) : i + 1 \in 1..Len(s) /\ Tail(s)[i] = s[i + 1]
         /\ \A i \in 1..Len(s) : i = 1 \/ (i - 1 \in 1..Len(Tail(s)) /\ Tail(s)[i - 1] = s[i])
         /\ Len(s) = 1 => Tail(s) = <<>>
PROOF
  <1>1. Len(s) \in Nat /\ (Len(s) = 0 <=> s = <<>>)
    BY EmptySeq, LenProperties
  <1>2. /\ Head(s) \in S /\ Tail(s) \in Seq(S) /\ Head(s) = s[1] /\ Len(Tail(s)) = Len(s) - 1
        /\ \A i \in 1..Len(Tail(s)) : Tail(s)[i] = s[i + 1]
    BY HeadTailProperties, LenProperties
  <1>3. Len(s) = 1 => Tail(s) = <<>>
    <2>1. \A t \in Seq(S) : Len(t) = 0 => t = <<>>
      BY EmptySeq
    <2>2. SUFFICES ASSUME Len(s) = 1 PROVE Tail(s) = <<>>
      OBVIOUS
    <2>3. Len(Tail(s)) = 0 /\ Tail(s) \in Seq(S)
      BY <1>2, <2>2
    <2> QED BY <2>1, <2>3, Zenon
  <1> QED BY <1>1, <1>2, <1>3

\* A command that the worker may send, and the reply that Redis may send.
LEMMA Commands ==
  ASSUME TypeOK
  PROVE  /\ \A op \in {"first", "poll", "del"}, key \in {"cancel", "continue"} : Cmd(op, key) \in Command
         /\ Cmd("event", "none") \in Command
         /\ \A op, key : Cmd(op, key).op = op /\ Cmd(op, key).key = key /\ Cmd(op, key).of = wait
         /\ \A c \in Command, hit \in BOOLEAN : [to |-> c, hit |-> hit] \in Reply
         /\ \A r \in Reply : r.to \in Command /\ r.hit \in BOOLEAN
PROOF
  <1>1. wait \in Waits BY DEF TypeOK
  <1> QED BY <1>1 DEF Cmd, Command, Reply

\* The stage and the entry of the wait.
LEMMA EntryLine == ASSUME LineInv, SendEvent \/ EventDone \/ FirstReply PROVE LineInv'
PROOF
  <1> USE DEF LineInv
  <1>1. CASE SendEvent
    <2> DEFINE c == Cmd("event", "none")
    <2>1. wire \in Seq(Command) /\ c \in Command /\ c.op = "event"
      BY Commands DEF TypeOK
    <2>2. TypeOK'
      BY <1>1, <2>1, Appending DEF SendEvent, TypeOK, flags, user
    <2>3. EventLast'
      BY <1>1, <2>1, Appending DEF SendEvent, Line, OnlyAsides, EventLast
    <2> QED BY <1>1, <2>2, <2>3 DEF SendEvent, Line
  <1>2. CASE EventDone
    <2> DEFINE c == Cmd("first", "cancel")
    <2>1. c \in Command /\ c.op = "first" /\ c.of = wait /\ wire \in Seq(Command) /\ replies \in Seq(Reply)
      BY Commands DEF TypeOK
    <2>2. wire = <<>> /\ Len(replies) = 1
      <3>1. EventLast /\ replies # <<>> /\ Head(replies).to.op = "event"
        BY <1>2 DEF EventDone, Line
      <3>2. replies[1].to.op = "event" /\ Len(replies) \in Nat /\ 1 \in 1..Len(replies)
        BY <2>1, <3>1, Taking
      <3> QED BY <3>1, <3>2 DEF EventLast, Asides
    <2>3. replies' = <<>> /\ wire' = <<c>>
      BY <1>2, <2>1, <2>2, Taking DEF EventDone
    <2>4. TypeOK'
      BY <1>2, <2>1, <2>3 DEF EventDone, TypeOK, flags
    <2>5. FirstAlone'
      BY <1>2, <2>1, <2>3 DEF EventDone, FirstAlone
    <2> QED BY <1>2, <2>4, <2>5 DEF EventDone, Line
  <1>3. CASE FirstReply
    <2> DEFINE c == Cmd("first", "continue")
               r == Head(replies)
    <2>1. c \in Command /\ c.op = "first" /\ c.of = wait /\ wire \in Seq(Command) /\ replies \in Seq(Reply)
          /\ wait \in Waits /\ LastWait \in Nat
      BY Commands, WaitAssumption DEF TypeOK
    <2>2. wire = <<>> /\ replies' = <<>> /\ r.to.op = "first" /\ r.to.key \in {"cancel", "continue"} /\ r.hit \in BOOLEAN
      BY <1>3, <2>1, Taking, Commands DEF FirstReply, Line, FirstAlone, Command
    <2>3. CASE r.to.key = "cancel" /\ ~r.hit
      <3>0. wire' = Append(wire, c) /\ UNCHANGED worker
        BY <1>3, <2>2, <2>3 DEF FirstReply
      <3>1. wire' = <<c>> /\ UNCHANGED worker
        BY <2>2, <3>0
      <3>2. TypeOK'
        BY <1>3, <2>1, <2>2, <3>1 DEF FirstReply, TypeOK, worker, flags, user
      <3>3. FirstAlone'
        BY <2>1, <2>2, <3>1 DEF FirstAlone, worker
      <3> QED BY <1>3, <3>1, <3>2, <3>3 DEF FirstReply, Line, worker
    <2>4. CASE r.to.key = "cancel" /\ r.hit
      <3>1. wire' = wire /\ pc' = "stopped" /\ wait' = wait /\ sub' = sub
        BY <1>3, <2>2, <2>4 DEF FirstReply
      <3> QED BY <1>3, <2>2, <3>1 DEF FirstReply, TypeOK, Line, flags, user
    <2>5. CASE r.to.key = "continue" /\ r.hit
      <3>1. wire' = wire /\ Return /\ sub' = sub
        BY <1>3, <2>2, <2>5 DEF FirstReply
      <3>2. pc' \in {"stage", "closed"} /\ wait' \in Waits
        BY <2>1, <3>1 DEF Return, Waits
      <3>3. TypeOK'
        BY <1>3, <2>2, <3>1, <3>2 DEF FirstReply, TypeOK, flags, user
      <3>4. OnlyAsides'
        BY <2>2, <3>1 DEF OnlyAsides
      <3> QED BY <3>2, <3>3, <3>4 DEF Line
    <2>6. CASE r.to.key = "continue" /\ ~r.hit
      <3>1. wire' = wire /\ pc' = "wait" /\ wait' = wait /\ sub' = "pending"
        BY <1>3, <2>2, <2>6 DEF FirstReply
      <3>2. TypeOK'
        BY <1>3, <2>2, <3>1 DEF FirstReply, TypeOK, flags, user
      <3>3. OnlyAsides' /\ Own'
        BY <2>2, <3>1 DEF OnlyAsides, Own
      <3> QED BY <3>1, <3>2, <3>3 DEF Line
    <2> QED BY <2>2, <2>3, <2>4, <2>5, <2>6
  <1> QED BY <1>1, <1>2, <1>3

\* A wait that settles sends a DEL of its own.
LEMMA Settling ==
  ASSUME TypeOK, OnlyAsides, pc = "wait", NEW key \in {"continue", "cancel"}, Settle(key),
         replies' \in Seq(Reply), \A i \in 1..Len(replies') : replies'[i].to.op \in Asides
  PROVE  pc' \in {"leaving", "quitting"} /\ wire' \in Seq(Command) /\ OnlyAsides'
PROOF
  <1>1. wire \in Seq(Command) /\ Cmd("del", key) \in Command /\ Cmd("del", key).op = "del"
    BY Commands DEF TypeOK
  <1> QED BY <1>1, Appending DEF Settle, OnlyAsides, Asides

\* While the promise is pending, and after it.
LEMMA WaitLine == ASSUME LineInv, PollTick \/ PollReply \/ Message \/ Leave \/ TimeOut PROVE LineInv'
PROOF
  <1> USE DEF LineInv
  <1>1. CASE PollTick
    <2> DEFINE c == Cmd("poll", "cancel")
               d == Cmd("poll", "continue")
    <2>1. /\ wire \in Seq(Command) /\ c \in Command /\ d \in Command
          /\ c.op = "poll" /\ d.op = "poll" /\ c.of = wait /\ d.of = wait
      BY Commands DEF TypeOK
    <2>2. wire' = Append(Append(wire, c), d)
      BY <1>1, <2>1 DEF PollTick
    <2> HIDE DEF c, d
    <2>3. Append(wire, c) \in Seq(Command)
      BY <2>1, Appending
    <2>4. TypeOK'
      <3>1. wire' \in Seq(Command)
        BY <2>1, <2>2, <2>3, Appending
      <3> QED BY <1>1, <3>1 DEF PollTick, TypeOK, flags, worker, user
    <2>5. \A i \in 1..Len(Append(wire, c)) : Append(wire, c)[i].op \in Asides /\ Append(wire, c)[i].of = wait
      BY <1>1, <2>1, Appending DEF PollTick, Line, OnlyAsides, Own, Asides
    <2>6. \A i \in 1..Len(wire') : wire'[i].op \in Asides /\ wire'[i].of = wait
      BY <2>1, <2>2, <2>3, <2>5, Appending DEF Asides
    <2> QED BY <1>1, <2>4, <2>6 DEF PollTick, Line, OnlyAsides, Own, worker
  <1>2. CASE PollReply
    <2> DEFINE r == Head(replies)
    <2>1. replies \in Seq(Reply) /\ replies # <<>> /\ replies' = Tail(replies) /\ r.to.op \in Asides
          /\ wait' = wait /\ sub' = sub /\ inbox' = inbox /\ UNCHANGED <<flags, user, cancelTaken>>
      BY <1>2 DEF PollReply, TypeOK, Asides
    <2>2. /\ replies' \in Seq(Reply) /\ Len(replies) \in Nat /\ Len(replies') = Len(replies) - 1
          /\ \A i \in 1..Len(replies') : i + 1 \in 1..Len(replies) /\ replies'[i] = replies[i + 1]
      BY <2>1, Taking
    <2>3. CASE pc = "wait" /\ r.to.op = "poll" /\ r.hit /\ r.to.of = wait
      <3>1. Settle(r.to.key) /\ r.to.key \in {"continue", "cancel"} /\ OnlyAsides
        BY <1>2, <2>1, <2>3, Taking, Commands DEF PollReply, Command, Line
      <3>2. pc' \in {"leaving", "quitting"} /\ wire' \in Seq(Command) /\ OnlyAsides'
        BY <2>2, <2>3, <3>1, Settling DEF OnlyAsides
      <3>3. TypeOK'
        BY <2>1, <2>2, <3>2 DEF TypeOK, flags, user
      <3> QED BY <3>2, <3>3 DEF Line
    <2>4. CASE ~(pc = "wait" /\ r.to.op = "poll" /\ r.hit /\ r.to.of = wait)
      <3>1. pc' = pc /\ wire' = wire
        BY <1>2, <2>4 DEF PollReply
      <3>2. TypeOK'
        BY <2>1, <2>2, <3>1 DEF TypeOK, flags, user
      <3>3. OnlyAsides => OnlyAsides'
        BY <2>2, <3>1 DEF OnlyAsides
      <3>4. Own => Own'
        BY <2>1, <2>2, <3>1 DEF Own
      <3>5. EventLast => EventLast'
        <4>1. replies[1].to.op # "event"
          BY <2>1, Taking DEF Asides
        <4>2. CASE wire = <<>>
          <5> SUFFICES ASSUME EventLast PROVE EventLast'
            OBVIOUS
          <5>1. Len(replies) \in 1..Len(replies) /\ replies[Len(replies)].to.op = "event"
                /\ \A i \in 1..Len(replies) : i # Len(replies) => replies[i].to.op \in Asides
            BY <2>1, <4>2, Taking DEF EventLast
          <5>2. Len(replies) # 1 /\ Len(replies') \in 1..Len(replies')
            BY <2>2, <4>1, <5>1
          <5>3. replies'[Len(replies')].to.op = "event" /\ replies' # <<>>
            BY <2>2, <5>1, <5>2, EmptySeq
          <5>4. \A i \in 1..Len(replies') : i # Len(replies') => replies'[i].to.op \in Asides
            BY <2>2, <5>1
          <5> QED BY <3>1, <4>2, <5>3, <5>4 DEF EventLast
        <4>3. CASE wire # <<>>
          BY <2>2, <3>1, <4>3 DEF EventLast
        <4> QED BY <4>2, <4>3
      <3>6. pc # "first"
        BY <1>2 DEF PollReply
      <3> QED BY <3>1, <3>2, <3>3, <3>4, <3>5, <3>6 DEF Line
    <2> QED BY <2>3, <2>4
  <1>3. CASE Message
    <2>1. inbox' \in Seq({"continue", "cancel"}) /\ Head(inbox) \in {"continue", "cancel"}
      BY <1>3, Taking DEF Message, TypeOK
    <2>2. CASE pc = "wait"
      <3>1. OnlyAsides /\ Settle(Head(inbox)) /\ replies' = replies /\ replies \in Seq(Reply)
        BY <1>3, <2>2 DEF Message, Line, TypeOK
      <3>2. pc' \in {"leaving", "quitting"} /\ wire' \in Seq(Command) /\ OnlyAsides'
        BY <2>1, <2>2, <3>1, Settling DEF OnlyAsides
      <3>3. TypeOK'
        BY <1>3, <2>1, <3>2 DEF Message, TypeOK, flags, user
      <3> QED BY <3>2, <3>3 DEF Line
    <2>3. CASE pc # "wait"
      <3>1. UNCHANGED <<pc, wire, flags, wait, sub, replies, user, cancelTaken>>
        BY <1>3, <2>3 DEF Message
      <3>2. TypeOK'
        BY <2>1, <3>1 DEF TypeOK, flags, user
      <3>3. Line'
        BY <3>1 DEF Line, OnlyAsides, Own, EventLast, FirstAlone
      <3> QED BY <3>2, <3>3
    <2> QED BY <2>2, <2>3
  <1>4. CASE Leave
    <2>1. pc' \in {"stage", "closed", "stopped"} /\ wait' \in Waits
      BY <1>4, WaitAssumption DEF Leave, Return, TypeOK, Waits
    <2>2. TypeOK'
      BY <1>4, <2>1 DEF Leave, TypeOK, flags, user
    <2>3. OnlyAsides'
      BY <1>4 DEF Leave, Line, OnlyAsides
    <2> QED BY <2>1, <2>2, <2>3 DEF Line
  <1>5. CASE TimeOut
    BY <1>5 DEF TimeOut, TypeOK, Line, flags, user
  <1> QED BY <1>1, <1>2, <1>3, <1>4, <1>5

\* Redis answers the oldest command; the line keeps its order.
LEMMA RedisLine == ASSUME LineInv, Execute \/ Subscribed PROVE LineInv'
PROOF
  <1> USE DEF LineInv
  <1>1. CASE Execute
    <2>1. /\ wire \in Seq(Command) /\ wire # <<>> /\ replies \in Seq(Reply) /\ wire' = Tail(wire)
          /\ UNCHANGED <<worker, inbox, user>> /\ Len(replies) \in Nat
      BY <1>1, LenProperties DEF Execute, TypeOK
    <2>2. PICK hit \in BOOLEAN : replies' = Append(replies, [to |-> Head(wire), hit |-> hit])
      BY <1>1, <2>1 DEF Execute, TypeOK
    <2> DEFINE r == [to |-> Head(wire), hit |-> hit]
    <2>3. /\ Head(wire) = wire[1] /\ wire' \in Seq(Command) /\ Len(wire) \in Nat /\ Len(wire) >= 1
          /\ Len(wire') = Len(wire) - 1 /\ (Len(wire) = 1 => wire' = <<>>)
          /\ \A i \in 1..Len(wire') : i + 1 \in 1..Len(wire) /\ wire'[i] = wire[i + 1]
      BY <2>1, Taking
    <2>4. r \in Reply /\ r.to = wire[1]
      BY <2>1, <2>3, Taking, Commands
    <2>5. /\ replies' \in Seq(Reply) /\ replies' # <<>> /\ Len(replies') = Len(replies) + 1
          /\ replies'[Len(replies) + 1] = r
          /\ \A i \in 1..Len(replies) : replies'[i] = replies[i]
          /\ \A i \in 1..Len(replies') : i \in 1..Len(replies) \/ i = Len(replies) + 1
      BY <2>1, <2>2, <2>4, Appending
    <2> HIDE DEF r
    <2>6. TypeOK'
      BY <1>1, <2>1, <2>3, <2>5 DEF Execute, TypeOK, worker, user
    <2>7. OnlyAsides => OnlyAsides'
      <3> SUFFICES ASSUME OnlyAsides PROVE OnlyAsides'
        OBVIOUS
      <3>1. \A i \in 1..Len(wire') : wire'[i].op \in Asides
        BY <2>3 DEF OnlyAsides
      <3>2. \A i \in 1..Len(replies') : replies'[i].to.op \in Asides
        BY <2>3, <2>4, <2>5 DEF OnlyAsides
      <3> QED BY <3>1, <3>2 DEF OnlyAsides
    <2>8. Own => Own'
      BY <2>1, <2>3, <2>4, <2>5 DEF Own, worker
    <2>9. EventLast => EventLast'
      <3> SUFFICES ASSUME EventLast PROVE EventLast'
        OBVIOUS
      <3>0. /\ wire[Len(wire)].op = "event"
            /\ \A i \in 1..Len(wire) : i # Len(wire) => wire[i].op \in Asides
            /\ \A i \in 1..Len(replies) : replies[i].to.op \in Asides
        BY <2>1 DEF EventLast
      <3>1. CASE Len(wire) = 1
        BY <2>1, <2>3, <2>4, <2>5, <3>0, <3>1 DEF EventLast
      <3>2. CASE Len(wire) # 1
        <4>1. wire' # <<>> /\ Len(wire') \in 1..Len(wire')
          BY <2>3, <3>2, EmptySeq
        <4>2. wire'[Len(wire')].op = "event"
          BY <2>3, <3>0, <4>1
        <4>3. \A i \in 1..Len(wire') : i # Len(wire') => wire'[i].op \in Asides
          BY <2>3, <3>0
        <4>4. \A i \in 1..Len(replies') : replies'[i].to.op \in Asides
          BY <2>3, <2>4, <2>5, <3>0, <3>2
        <4> QED BY <4>1, <4>2, <4>3, <4>4 DEF EventLast
      <3> QED BY <3>1, <3>2
    <2>10. FirstAlone => FirstAlone'
      BY <2>1, <2>3, <2>4, <2>5 DEF FirstAlone, worker
    <2> QED BY <2>1, <2>6, <2>7, <2>8, <2>9, <2>10 DEF Line, worker
  <1>2. CASE Subscribed
    BY <1>2 DEF Subscribed, TypeOK, Line, OnlyAsides, Own, EventLast, FirstAlone, flags, user
  <1> QED BY <1>1, <1>2

\* The handlers of the API do not touch the worker's line.
LEMMA ApiLine == ASSUME LineInv, Answer \/ Cancel \/ Api PROVE LineInv'
PROOF
  <1>1. UNCHANGED <<worker, wire, replies>>
    BY DEF Answer, Cancel, Api, SetFlag, Publish
  <1>2. Line'
    BY <1>1 DEF LineInv, Line, OnlyAsides, Own, EventLast, FirstAlone, worker
  <1>3. inbox' \in Seq({"continue", "cancel"})
    <2>1. inbox \in Seq({"continue", "cancel"})
      BY DEF LineInv, TypeOK
    <2>2. \A m \in {"continue", "cancel"} : Deliver(m) => inbox' \in Seq({"continue", "cancel"})
      BY <2>1, Appending DEF Deliver
    <2> QED BY <2>1, <2>2 DEF Answer, Cancel, Api, SetFlag, Publish
  <1>4. TypeOK'
    <2>1. CASE Answer BY <1>1, <1>3, <2>1 DEF Answer, LineInv, TypeOK, worker, flags
    <2>2. CASE Cancel BY <1>1, <1>3, <2>2 DEF Cancel, LineInv, TypeOK, worker, flags
    <2>3. CASE SetFlag BY <1>1, <1>3, <2>3 DEF SetFlag, LineInv, TypeOK, worker
    <2>4. CASE Publish BY <1>1, <1>3, <2>4 DEF Publish, LineInv, TypeOK, worker, flags
    <2> QED BY <2>1, <2>2, <2>3, <2>4 DEF Api
  <1> QED BY <1>2, <1>4 DEF LineInv

LEMMA LineStep == ASSUME LineInv, [Next]_vars PROVE LineInv'
PROOF
  <1>1. CASE UNCHANGED vars
    BY <1>1 DEF vars, flags, worker, user, LineInv, TypeOK, Line, OnlyAsides, Own, EventLast, FirstAlone
  <1> QED BY <1>1, EntryLine, WaitLine, RedisLine, ApiLine DEF Next, Worker, Redis

LEMMA LineInvariance == Spec => []LineInv
PROOF
  <1>1. Init => LineInv
    <2> SUFFICES ASSUME Init PROVE LineInv
      OBVIOUS
    <2>1. \A S : <<>> \in Seq(S)
      OBVIOUS
    <2>2. TypeOK
      <3>1. 1 \in Waits
        BY WaitAssumption DEF Waits
      <3>2. wire \in Seq(Command) /\ replies \in Seq(Reply) /\ inbox \in Seq({"continue", "cancel"})
        BY <2>1, Zenon DEF Init
      <3> QED BY <3>1, <3>2 DEF Init, TypeOK
    <2>3. OnlyAsides
      BY DEF Init, OnlyAsides
    <2> QED BY <2>2, <2>3 DEF Init, LineInv, Line
  <1> QED BY <1>1, LineStep, PTL DEF Spec

(* Every variable of the wait keeps its type. *)
THEOREM SignalTyped == Spec => []TypeOK
PROOF
  <1>1. LineInv => TypeOK BY DEF LineInv
  <1> QED BY <1>1, LineInvariance, PTL

(* waitForContinueSignal on the connection of publishEvent: when a gate is asked no command *)
(* and no reply of an earlier wait is left, for any number of gates and of polls that are    *)
(* not awaited.                                                                              *)
THEOREM NoCommandIsStale == Spec => []NoStaleCommand
PROOF
  <1>1. LineInv => NoStaleCommand
    BY DEF LineInv, Line, Own, FirstAlone, NoStaleCommand
  <1> QED BY <1>1, LineInvariance, PTL
--------------------------------------------------------------------------------
(* The answers.  A continue-flag, a message or a hit counts for the wait that is on only when  *)
(* that wait was answered; what is left of it when the wait returns is a flag with its DEL on  *)
(* the wire, ahead of the event of the next stage.  A message could be left too, if the        *)
(* handler of the answer lasted longer than the next stage: the theorem is for PromptHandlers. *)

Clearing == \E i \in 1..Len(wire) : wire[i].op = "del" /\ wire[i].key = "continue"
Hit      == \E i \in 1..Len(replies) : replies[i].hit /\ replies[i].to.key = "continue"
Told     == \E i \in 1..Len(inbox) : inbox[i] = "continue"

AtGate == pc \in {"first", "wait"}

Answered ==
  /\ \A n \in Waits : n < wait => n \in answered
  /\ \A n \in answered : n <= wait
  /\ pc \in {"leaving", "closed"} => wait \in answered
  /\ pc = "closed" => wait = LastWait

Asked == asked => pc \notin {"stage", "working"} /\ wait \notin answered /\ answerer = "idle"

\* Nothing that could end the next wait is under way between two waits.
Between ==
  /\ pc \in {"stage", "working"} => wait \notin answered
  /\ pc \in {"stage", "working", "leaving"} => answerer # "set" /\ (contFlag => Clearing)
  /\ pc \in {"stage", "working", "first"} => sub = "off"
  /\ sub # "on" => inbox = <<>>

\* Whatever lets the wait pass was sent by the handler of its answer, and only once.
Evidence ==
  AtGate =>
    /\ wait \notin answered => ~contFlag /\ ~Hit /\ ~Told /\ answerer = "idle"
    /\ contFlag \/ Hit => answerer # "set"
    /\ Hit => ~contFlag
    /\ Told => answerer = "idle"

AnswerInv == LineInv /\ Answered /\ Asked /\ Between /\ Evidence

\* A wait that returns leaves nothing behind for the next one.
LEMMA Returning ==
  ASSUME AnswerInv, LineInv', Return, wait \in answered, ~asked, answerer # "set", contFlag => Clearing,
         UNCHANGED <<flags, asked, answerer, answered>>, sub' = "off", inbox' = <<>>, Clearing => Clearing'
  PROVE  AnswerInv'
PROOF
  <1>1. wait \in Waits /\ LastWait \in Nat /\ answered \subseteq Waits
    BY WaitAssumption DEF AnswerInv, LineInv, TypeOK
  <1>2. CASE wait = LastWait
    <2>1. pc' = "closed" /\ wait' = wait
      BY <1>2 DEF Return
    <2> QED BY <1>2, <2>1 DEF AnswerInv, Answered, Asked, Between, Evidence, AtGate, flags
  <1>3. CASE wait # LastWait
    <2>1. pc' = "stage" /\ wait' = wait + 1
      BY <1>3 DEF Return
    <2>2. \A n \in Waits : n < wait + 1 => n < wait \/ n = wait
      BY <1>1 DEF Waits
    <2>3. \A n \in Waits : n < wait' => n \in answered'
      BY <2>1, <2>2 DEF AnswerInv, Answered
    <2>4. \A n \in answered' : n <= wait' /\ n # wait'
      <3>0. \A n \in answered : n \in Nat
        BY <1>1 DEF Waits
      <3>1. \A n \in answered : n <= wait
        BY DEF AnswerInv, Answered
      <3>2. wait \in Nat /\ \A n \in answered : n <= wait + 1 /\ n # wait + 1
        BY <1>1, <3>0, <3>1 DEF Waits
      <3>3. answered' = answered
        OBVIOUS
      <3> QED BY <2>1, <3>2, <3>3
    <2>5. Answered' /\ wait' \notin answered'
      BY <2>1, <2>3, <2>4 DEF Answered
    <2> QED BY <2>1, <2>5 DEF AnswerInv, Asked, Between, Evidence, AtGate, flags
  <1> QED BY <1>2, <1>3

LEMMA EntryAnswers ==
  ASSUME PromptHandlers, AnswerInv, LineInv', SendEvent \/ EventDone \/ FirstReply
  PROVE  AnswerInv'
PROOF
  <1> USE DEF AnswerInv, LineInv
  <1>0. wire \in Seq(Command) /\ replies \in Seq(Reply)
    BY DEF TypeOK
  <1>1. CASE SendEvent
    <2>1. Clearing => Clearing'
      <3>1. Cmd("event", "none") \in Command
        BY Commands
      <3> QED BY <1>0, <1>1, <3>1, Appending DEF SendEvent, Clearing
    <2> QED BY <1>1, <2>1 DEF SendEvent, Answered, Asked, Between, Evidence, AtGate, flags, user
  <1>2. CASE EventDone
    <2>1. EventLast /\ replies # <<>> /\ Head(replies).to.op = "event"
      BY <1>2 DEF EventDone, Line
    <2>2. replies[1].to.op = "event" /\ Len(replies) \in Nat /\ 1 \in 1..Len(replies)
      BY <1>0, <2>1, Taking
    <2>3. wire = <<>> /\ Len(replies) = 1
      BY <2>1, <2>2 DEF EventLast, Asides
    <2>4. replies' = <<>>
      BY <1>0, <1>2, <2>1, <2>3, Taking DEF EventDone
    <2>5. ~Clearing /\ ~Hit'
      BY <2>3, <2>4 DEF Clearing, Hit
    <2>6. /\ pc = "working" /\ pc' = "first" /\ asked' /\ answerer = "idle"
          /\ UNCHANGED <<flags, wait, sub, inbox, answerer, answered>>
      BY <1>2 DEF EventDone
    <2>7. wait \notin answered /\ ~contFlag /\ sub = "off" /\ inbox = <<>>
      BY <2>5, <2>6 DEF Between
    <2>8. ~Told'
      BY <2>6, <2>7 DEF Told
    <2> QED BY <2>5, <2>6, <2>7, <2>8 DEF Answered, Asked, Between, Evidence, AtGate, flags
  <1>3. CASE FirstReply
    <2> DEFINE r == Head(replies)
    <2>1. pc = "first" /\ FirstAlone /\ replies # <<>> /\ replies' = Tail(replies)
          /\ UNCHANGED <<flags, inbox, asked, answerer, answered>>
      BY <1>3 DEF FirstReply, Line, user
    <2>2. wire = <<>> /\ replies' = <<>> /\ r = replies[1] /\ Len(replies) = 1 /\ r.to.op = "first"
          /\ r.to.key \in {"cancel", "continue"} /\ r.hit \in BOOLEAN
      BY <1>0, <2>1, Taking, Commands DEF FirstAlone, Command
    <2>3. ~Clearing /\ ~Hit' /\ sub = "off" /\ inbox = <<>> /\ ~Told
      <3>1. sub = "off" /\ inbox = <<>>
        BY <2>1 DEF Between
      <3> QED BY <2>2, <3>1 DEF Clearing, Hit, Told
    <2>4. CASE r.to.key = "cancel" /\ ~r.hit
      <3>1. UNCHANGED worker
        BY <1>3, <2>2, <2>4 DEF FirstReply
      <3> QED BY <2>1, <2>3, <3>1 DEF Answered, Asked, Between, Evidence, AtGate, flags, worker, Told
    <2>5. CASE r.to.key = "cancel" /\ r.hit
      <3>1. pc' = "stopped" /\ wait' = wait /\ sub' = sub
        BY <1>3, <2>2, <2>5 DEF FirstReply
      <3> QED BY <2>1, <2>3, <3>1 DEF Answered, Asked, Between, Evidence, AtGate, flags
    <2>6. CASE r.to.key = "continue" /\ r.hit
      <3>1. wire' = wire /\ Return /\ sub' = sub
        BY <1>3, <2>2, <2>6 DEF FirstReply
      <3>2. Hit
        BY <2>2, <2>6 DEF Hit
      <3>3. wait \in answered /\ ~asked /\ answerer # "set" /\ ~contFlag
        BY <2>1, <3>2 DEF Evidence, AtGate, Asked
      <3>4. inbox' = <<>> /\ sub' = "off"
        BY <2>1, <2>3, <3>1
      <3> QED BY <2>1, <2>3, <3>1, <3>3, <3>4, Returning
    <2>7. CASE r.to.key = "continue" /\ ~r.hit
      <3>1. pc' = "wait" /\ wait' = wait /\ sub' = "pending"
        BY <1>3, <2>2, <2>7 DEF FirstReply
      <3> QED BY <2>1, <2>3, <3>1 DEF Answered, Asked, Between, Evidence, AtGate, flags, Told
    <2> QED BY <2>2, <2>4, <2>5, <2>6, <2>7
  <1> QED BY <1>1, <1>2, <1>3

\* A hit or a message that settles the wait for good is evidence of its answer.
LEMMA SettlingAnswers ==
  ASSUME AnswerInv, LineInv', pc = "wait", NEW key \in {"continue", "cancel"}, Settle(key),
         key = "continue" => Hit \/ Told, UNCHANGED <<flags, wait, sub, asked, answerer, answered>>,
         sub # "on" => inbox' = <<>>
  PROVE  AnswerInv'
PROOF
  <1>1. CASE key = "cancel"
    <2>1. pc' = "quitting"
      BY <1>1 DEF Settle
    <2> QED BY <2>1 DEF AnswerInv, Answered, Asked, Between, Evidence, AtGate, flags
  <1>2. CASE key = "continue"
    <2>1. pc' = "leaving" /\ wire' = Append(wire, Cmd("del", "continue"))
      BY <1>2 DEF Settle
    <2>2. wait \in answered /\ answerer # "set" /\ ~asked
      BY <1>2 DEF AnswerInv, Evidence, AtGate, Asked
    <2>3. Clearing'
      <3> DEFINE c == Cmd("del", "continue")
      <3>1. wire \in Seq(Command) /\ c \in Command /\ c.op = "del" /\ c.key = "continue"
        BY Commands DEF AnswerInv, LineInv, TypeOK
      <3> HIDE DEF c
      <3>2. Len(wire) + 1 \in 1..Len(wire') /\ wire'[Len(wire) + 1] = c
        BY <2>1, <3>1, Appending DEF c
      <3> QED BY <3>1, <3>2 DEF Clearing
    <2> QED BY <2>1, <2>2, <2>3 DEF AnswerInv, Answered, Asked, Between, Evidence, AtGate, flags
  <1> QED BY <1>1, <1>2

LEMMA WaitAnswers ==
  ASSUME AnswerInv, LineInv', PollTick \/ PollReply \/ Message \/ Leave \/ TimeOut
  PROVE  AnswerInv'
PROOF
  <1> USE DEF AnswerInv, LineInv
  <1>0. wire \in Seq(Command) /\ replies \in Seq(Reply) /\ inbox \in Seq({"continue", "cancel"})
    BY DEF TypeOK
  <1>1. CASE PollTick
    BY <1>1 DEF PollTick, Answered, Asked, Between, Evidence, AtGate, Hit, Told, flags, worker, user
  <1>2. CASE PollReply
    <2> DEFINE r == Head(replies)
    <2>1. /\ replies # <<>> /\ replies' = Tail(replies) /\ pc # "first" /\ r.to.op \in Asides
          /\ UNCHANGED <<flags, wait, sub, inbox, asked, answerer, answered>>
      BY <1>2 DEF PollReply, user, Asides
    <2>2. r = replies[1] /\ 1 \in 1..Len(replies) /\ r.to.key \in {"continue", "cancel"}
      BY <1>0, <2>1, Taking, Commands DEF Command, Asides
    <2>3. CASE pc = "wait" /\ r.to.op = "poll" /\ r.hit /\ r.to.of = wait
      <3>1. Settle(r.to.key)
        BY <1>2, <2>3 DEF PollReply
      <3>2. r.to.key = "continue" => Hit
        BY <2>2, <2>3 DEF Hit
      <3>3. sub # "on" => inbox' = <<>>
        BY <2>1 DEF Between
      <3> HIDE DEF r
      <3> QED BY <2>1, <2>2, <2>3, <3>1, <3>2, <3>3, SettlingAnswers
    <2>4. CASE ~(pc = "wait" /\ r.to.op = "poll" /\ r.hit /\ r.to.of = wait)
      <3>1. pc' = pc /\ wire' = wire
        BY <1>2, <2>4 DEF PollReply
      <3>2. Hit' => Hit
        BY <1>0, <2>1, Taking DEF Hit
      <3>3. (Clearing <=> Clearing') /\ (Told <=> Told')
        BY <2>1, <3>1 DEF Clearing, Told
      <3> QED BY <2>1, <3>1, <3>2, <3>3 DEF Answered, Asked, Between, Evidence, AtGate, flags
    <2> QED BY <2>3, <2>4
  <1>3. CASE Message
    <2>1. /\ inbox # <<>> /\ inbox' = Tail(inbox)
          /\ UNCHANGED <<flags, wait, sub, replies, asked, answerer, answered>>
      BY <1>3 DEF Message, user
    <2>2. /\ Head(inbox) = inbox[1] /\ 1 \in 1..Len(inbox) /\ Head(inbox) \in {"continue", "cancel"}
          /\ Told' => Told
      BY <1>0, <2>1, Taking DEF Told
    <2>3. sub = "on"
      BY <2>1 DEF Between
    <2>4. CASE pc = "wait"
      <3>1. Settle(Head(inbox))
        BY <1>3, <2>4 DEF Message
      <3>2. Head(inbox) = "continue" => Told
        BY <2>2 DEF Told
      <3> QED BY <2>1, <2>2, <2>3, <2>4, <3>1, <3>2, SettlingAnswers
    <2>5. CASE pc # "wait"
      <3>1. pc' = pc /\ wire' = wire
        BY <1>3, <2>5 DEF Message
      <3>2. (Clearing <=> Clearing') /\ (Hit <=> Hit')
        BY <2>1, <3>1 DEF Clearing, Hit
      <3> QED BY <2>1, <2>2, <2>3, <3>1, <3>2 DEF Answered, Asked, Between, Evidence, AtGate, flags
    <2> QED BY <2>4, <2>5
  <1>4. CASE Leave
    <2>1. /\ pc \in {"leaving", "quitting"} /\ sub' = "off" /\ inbox' = <<>> /\ wire' = wire
          /\ UNCHANGED <<flags, asked, answerer, answered>>
      BY <1>4 DEF Leave, user
    <2>2. CASE pc = "quitting"
      <3>1. pc' = "stopped" /\ wait' = wait
        BY <1>4, <2>2 DEF Leave
      <3> QED BY <2>1, <2>2, <3>1 DEF Answered, Asked, Between, Evidence, AtGate, flags
    <2>3. CASE pc = "leaving"
      <3>1. Return /\ wait \in answered /\ ~asked /\ answerer # "set" /\ (contFlag => Clearing)
        BY <1>4, <2>3 DEF Leave, Answered, Asked, Between
      <3>2. Clearing => Clearing'
        BY <2>1 DEF Clearing
      <3> QED BY <2>1, <3>1, <3>2, Returning
    <2> QED BY <2>1, <2>2, <2>3
  <1>5. CASE TimeOut
    BY <1>5 DEF TimeOut, Answered, Asked, Between, Evidence, AtGate, flags, user
  <1> QED BY <1>1, <1>2, <1>3, <1>4, <1>5

\* A flag that is taken turns into a hit, and a DEL clears it.
LEMMA RedisAnswers == ASSUME AnswerInv, LineInv', Execute \/ Subscribed PROVE AnswerInv'
PROOF
  <1> USE DEF AnswerInv, LineInv
  <1>1. CASE Execute
    <2> DEFINE c == Head(wire)
    <2>1. /\ wire \in Seq(Command) /\ wire # <<>> /\ replies \in Seq(Reply) /\ wire' = Tail(wire)
          /\ UNCHANGED <<pc, wait, sub, inbox, asked, answerer, answered>>
      BY <1>1 DEF Execute, TypeOK, worker, user
    <2>2. PICK hit \in BOOLEAN :
            /\ replies' = Append(replies, [to |-> c, hit |-> hit])
            /\ hit => (c.key = "cancel" /\ cancelFlag) \/ (c.key = "continue" /\ contFlag)
            /\ contFlag' = (contFlag /\ c.key # "continue")
      BY <1>1, <2>1 DEF Execute, TypeOK
    <2>3. /\ c = wire[1] /\ c \in Command
          /\ \A i \in 1..Len(wire) : i = 1 \/ (i - 1 \in 1..Len(wire') /\ wire'[i - 1] = wire[i])
      BY <2>1, Taking
    <2> HIDE DEF c
    <2> DEFINE r == [to |-> c, hit |-> hit]
    <2>4. r \in Reply /\ r.to = c /\ r.hit = hit
      BY <2>1, <2>3, Commands
    <2> HIDE DEF r
    <2>5. replies' = Append(replies, r)
      BY <2>2 DEF r
    <2>6. /\ replies'[Len(replies) + 1] = r /\ \A i \in 1..Len(replies) : replies'[i] = replies[i]
          /\ \A i \in 1..Len(replies') : i \in 1..Len(replies) \/ i = Len(replies) + 1
      BY <2>1, <2>4, <2>5, Appending
    <2>7. Hit' => Hit \/ contFlag
      BY <2>2, <2>4, <2>6 DEF Hit
    <2>8. contFlag' /\ Clearing => Clearing'
      BY <2>2, <2>3 DEF Clearing
    <2>9. Told' <=> Told
      BY <2>1 DEF Told
    <2>10. Hit' => ~contFlag' \/ ~AtGate
      <3> SUFFICES ASSUME Hit', contFlag', AtGate PROVE FALSE
        OBVIOUS
      <3>1. contFlag /\ c.key # "continue"
        BY <2>2
      <3>2. ~Hit
        BY <3>1 DEF Evidence
      <3> QED BY <2>4, <2>6, <3>1, <3>2 DEF Hit
    <2>11. contFlag' => contFlag
      BY <2>2
    <2>12. Answered' /\ Asked'
      BY <2>1 DEF Answered, Asked
    <2>13. Between'
      BY <2>1, <2>8, <2>11 DEF Between
    <2>14. Evidence'
      BY <2>1, <2>7, <2>9, <2>10, <2>11 DEF Evidence, AtGate
    <2> QED BY <2>12, <2>13, <2>14
  <1>2. CASE Subscribed
    BY <1>2 DEF Subscribed, Answered, Asked, Between, Evidence, AtGate, Hit, Told, Clearing, flags, user
  <1> QED BY <1>1, <1>2

\* The handlers: an answer is set, then published.
LEMMA ApiAnswers == ASSUME AnswerInv, LineInv', Answer \/ Cancel \/ Api PROVE AnswerInv'
PROOF
  <1> USE DEF AnswerInv, LineInv
  <1>0. wait \in Waits /\ wait <= wait /\ inbox \in Seq({"continue", "cancel"})
    BY DEF TypeOK, Waits
  <1>1. UNCHANGED <<pc, wait, sub, wire, replies>>
    BY DEF Answer, Cancel, Api, SetFlag, Publish, worker
  <1>2. (Hit' <=> Hit) /\ (Clearing' <=> Clearing)
    BY <1>1 DEF Hit, Clearing
  <1>3. CASE Answer
    BY <1>0, <1>1, <1>2, <1>3 DEF Answer, Answered, Asked, Between, Evidence, AtGate, Told, flags
  <1>4. CASE Cancel
    BY <1>1, <1>2, <1>4 DEF Cancel, Answered, Asked, Between, Evidence, AtGate, Told, flags
  <1>5. CASE SetFlag
    <2>1. /\ UNCHANGED <<inbox, asked, answered>>
          /\ \/ answerer = "set" /\ answerer' = "publish"
             \/ contFlag' = contFlag /\ answerer' = answerer
      BY <1>5 DEF SetFlag
    <2>2. Told' <=> Told
      BY <2>1 DEF Told
    <2> QED BY <1>1, <1>2, <2>1, <2>2 DEF Answered, Asked, Between, Evidence, AtGate
  <1>6. CASE Publish
    <2>1. /\ UNCHANGED <<flags, asked, answered>>
          /\ \/ answerer = "publish" /\ answerer' = "idle" /\ Deliver("continue")
             \/ answerer' = answerer /\ Deliver("cancel")
      BY <1>6 DEF Publish
    <2>2. \A m \in {"continue", "cancel"} : Deliver(m) =>
            (sub # "on" => inbox' = inbox) /\ (Told' => Told \/ m = "continue")
      BY <1>0, Appending DEF Deliver, Told
    <2>3. Answered' /\ Asked'
      BY <1>1, <2>1 DEF Answered, Asked
    <2>4. Between'
      BY <1>1, <1>2, <2>1, <2>2 DEF Between, flags
    <2>5. Evidence'
      BY <1>1, <1>2, <2>1, <2>2 DEF Evidence, AtGate, flags
    <2> QED BY <2>3, <2>4, <2>5
  <1> QED BY <1>3, <1>4, <1>5, <1>6 DEF Api

LEMMA AnswerInvariance == ASSUME PromptHandlers PROVE Spec => []AnswerInv
PROOF
  <1>1. Init => Answered /\ Asked /\ Between /\ Evidence
    BY WaitAssumption DEF Init, Answered, Asked, Between, Evidence, AtGate, Waits
  <1>2. AnswerInv /\ LineInv' /\ [Next]_vars => AnswerInv'
    <2> SUFFICES ASSUME AnswerInv, LineInv', [Next]_vars PROVE AnswerInv'
      OBVIOUS
    <2>1. CASE UNCHANGED vars
      BY <2>1 DEF vars, flags, worker, user, AnswerInv, Answered, Asked, Between, Evidence, AtGate,
                  Hit, Told, Clearing
    <2> QED BY <2>1, EntryAnswers, WaitAnswers, RedisAnswers, ApiAnswers DEF Next, Worker, Redis
  <1>3. LineInv /\ Answered /\ Asked /\ Between /\ Evidence => AnswerInv
    BY DEF AnswerInv
  <1> QED BY <1>1, <1>2, <1>3, LineInvariance, PTL DEF Spec

(* waitForContinueSignal command by command: it returns only for an answer to the gate it   *)
(* waits at, however polls, messages and DELs interleave with the handler of the answer, for *)
(* any number of gates, when that handler has returned before the next gate is asked.        *)
THEOREM PassesOnAnswer == ASSUME PromptHandlers PROVE Spec => []PassedOnAnswer
PROOF
  <1>1. AnswerInv => PassedOnAnswer
    BY DEF AnswerInv, Answered, PassedOnAnswer
  <1> QED BY <1>1, AnswerInvariance, PTL

--------------------------------------------------------------------------------
(* The clarification loop.  A run of STLC that waits for its user has a question open: while   *)
(* one slot at a time is on it, whatever makes it wait is still under way, or is the question  *)
(* itself.                                                                                     *)

\* Every job is waiting, worked on, or about to be enqueued by an answer that has come.
Replying  == {q \in Caller : hpc[q] # "idle" /\ route[q] = "execution"}
JobBudget == Cardinality(Waiting) + Cardinality(Busy) + Cardinality(Replying) <= MaxJobs

\* The steps that only a FULL run takes.
Blocking == {"check", "wait", "woken", "taken", "rest"}
Pipeline == Mode = "STLC" => cstatus # "COMPLETED" /\ \A s \in Slot : cpc[s] \notin Blocking

\* The project's route writes no row and enqueues no job.
ByExecution == \A q \in Caller : hpc[q] \in {"answer", "mark", "resume"} => route[q] = "execution"

\* A question, a job or an answer: what carries a waiting run on.
AnyOpen == \E i \in DOMAIN rounds : IsOpen(i)
Going   == AnyOpen \/ (\E a \in Attempt : jobs[a] > 0) \/ Replying # {}

Single ==
  /\ \A s, t \in Busy : s = t
  /\ \A s \in Slot : cpc[s] = "open" => Going
  /\ \A s \in Slot : cpc[s] = "failed" => cstatus # "CLARIFY"
  /\ cstatus = "CLARIFY" => Going \/ Busy # {}

ClarifyInv ==
  /\ ClarifyType /\ JobBudget /\ Pipeline /\ ByExecution
  /\ Mode = "STLC" /\ ~doubled => Single

--------------------------------------------------------------------------------
(* Counting jobs.                                                             *)

WaitingIn(j) == {x \in Attempt \X (1..MaxJobs) : x[2] <= j[x[1]]}

LEMMA ClarifyBounds ==
  /\ IsFiniteSet(Slot) /\ IsFiniteSet(Caller)
  /\ MaxClarifyRounds \in Nat \ {0} /\ MaxAttempts \in Nat \ {0} /\ MaxJobs \in Nat \ {0}
  /\ MaxRows \in Nat /\ MaxDeaths \in Nat
  /\ 1 \in Attempt /\ 1 \in Round /\ Attempt \subseteq Nat
PROOF BY ClarifyAssumption DEF ClarifyAssumption, Attempt, Round

LEMMA WaitingFinite ==
  ASSUME NEW j \in [Attempt -> 0..MaxJobs]
  PROVE  IsFiniteSet(WaitingIn(j)) /\ Cardinality(WaitingIn(j)) \in Nat
PROOF
  <1>1. IsFiniteSet(Attempt) /\ IsFiniteSet(1..MaxJobs) BY FS_Interval, ClarifyBounds DEF Attempt
  <1>2. IsFiniteSet(Attempt \X (1..MaxJobs)) BY <1>1, FS_Product
  <1>3. WaitingIn(j) \in SUBSET (Attempt \X (1..MaxJobs)) BY DEF WaitingIn
  <1>4. IsFiniteSet(WaitingIn(j)) BY <1>2, <1>3, FS_Subset
  <1> QED BY <1>4, FS_CardinalityType

\* The jobs of one attempt are among those that wait.
LEMMA WaitingCounts ==
  ASSUME NEW j \in [Attempt -> 0..MaxJobs], NEW a \in Attempt
  PROVE  j[a] <= Cardinality(WaitingIn(j))
PROOF
  <1>1. j[a] \in 0..MaxJobs /\ MaxJobs \in Nat BY ClarifyBounds
  <1> DEFINE Mine == {a} \X (1..j[a])
  <1>2. Mine \in SUBSET WaitingIn(j)
    <2> SUFFICES ASSUME NEW n \in 1..j[a] PROVE <<a, n>> \in WaitingIn(j) OBVIOUS
    <2>1. n \in 1..MaxJobs BY <1>1
    <2>2. n <= j[a] BY <1>1
    <2> QED BY <2>1, <2>2 DEF WaitingIn
  <1>3. IsFiniteSet(1..j[a]) /\ Cardinality(1..j[a]) = j[a] BY <1>1, FS_Interval
  <1>4. IsFiniteSet({a}) /\ Cardinality({a}) = 1 BY FS_Singleton
  <1>5. Cardinality(Mine) = Cardinality({a}) * Cardinality(1..j[a]) BY <1>3, <1>4, FS_Product
  <1>6. Cardinality(Mine) = j[a] BY <1>1, <1>3, <1>4, <1>5
  <1>7. Cardinality(Mine) <= Cardinality(WaitingIn(j)) BY <1>2, WaitingFinite, FS_Subset
  <1> QED BY <1>6, <1>7

LEMMA JobAdded ==
  ASSUME NEW j \in [Attempt -> 0..MaxJobs], NEW a \in Attempt, Cardinality(WaitingIn(j)) < MaxJobs
  PROVE  /\ [j EXCEPT ![a] = @ + 1] \in [Attempt -> 0..MaxJobs]
         /\ Cardinality(WaitingIn([j EXCEPT ![a] = @ + 1])) = Cardinality(WaitingIn(j)) + 1
PROOF
  <1> DEFINE k == [j EXCEPT ![a] = @ + 1]
             x == <<a, j[a] + 1>>
  <1>1. j[a] \in 0..MaxJobs /\ MaxJobs \in Nat /\ Cardinality(WaitingIn(j)) \in Nat
    BY ClarifyBounds, WaitingFinite
  <1>2. j[a] < MaxJobs BY <1>1, WaitingCounts
  <1>3. k \in [Attempt -> 0..MaxJobs] BY <1>1, <1>2
  <1>4. WaitingIn(k) = WaitingIn(j) \cup {x}
    <2>1. ASSUME NEW b \in Attempt, NEW n \in 1..MaxJobs
          PROVE  n <= k[b] <=> n <= j[b] \/ <<b, n>> = x
      <3>1. CASE b = a BY <1>1, <3>1
      <3>2. CASE b # a BY <3>2
      <3> QED BY <3>1, <3>2
    <2>2. x \in Attempt \X (1..MaxJobs) BY <1>1, <1>2
    <2>3. WaitingIn(k) \subseteq WaitingIn(j) \cup {x} BY <2>1 DEF WaitingIn
    <2>4. WaitingIn(j) \cup {x} \subseteq WaitingIn(k) BY <2>1, <2>2 DEF WaitingIn
    <2> QED BY <2>3, <2>4
  <1>5. x \notin WaitingIn(j) BY <1>1 DEF WaitingIn
  <1>6. Cardinality(WaitingIn(j) \cup {x}) = Cardinality(WaitingIn(j)) + 1
    BY <1>5, WaitingFinite, FS_AddElement
  <1> QED BY <1>3, <1>4, <1>6

LEMMA JobTaken ==
  ASSUME NEW j \in [Attempt -> 0..MaxJobs], NEW a \in Attempt, j[a] > 0
  PROVE  /\ [j EXCEPT ![a] = @ - 1] \in [Attempt -> 0..MaxJobs]
         /\ Cardinality(WaitingIn([j EXCEPT ![a] = @ - 1])) = Cardinality(WaitingIn(j)) - 1
PROOF
  <1> DEFINE k == [j EXCEPT ![a] = @ - 1]
             x == <<a, j[a]>>
  <1>1. j[a] \in 0..MaxJobs /\ MaxJobs \in Nat BY ClarifyBounds
  <1>2. k \in [Attempt -> 0..MaxJobs] BY <1>1
  <1>3. WaitingIn(k) = WaitingIn(j) \ {x}
    <2>1. ASSUME NEW b \in Attempt, NEW n \in 1..MaxJobs
          PROVE  n <= k[b] <=> n <= j[b] /\ <<b, n>> # x
      <3>1. CASE b = a BY <1>1, <3>1
      <3>2. CASE b # a BY <3>2
      <3> QED BY <3>1, <3>2
    <2>2. WaitingIn(k) \subseteq WaitingIn(j) \ {x} BY <2>1 DEF WaitingIn
    <2>3. WaitingIn(j) \ {x} \subseteq WaitingIn(k) BY <2>1 DEF WaitingIn
    <2> QED BY <2>2, <2>3
  <1>4. x \in WaitingIn(j) BY <1>1 DEF WaitingIn
  <1>5. Cardinality(WaitingIn(j) \ {x}) = Cardinality(WaitingIn(j)) - 1
    BY <1>4, WaitingFinite, FS_RemoveElement
  <1> QED BY <1>2, <1>3, <1>5

\* The three counts.
LEMMA Counts ==
  ASSUME ClarifyType
  PROVE  /\ Waiting = WaitingIn(jobs) /\ Cardinality(Waiting) \in Nat
         /\ IsFiniteSet(Busy) /\ Cardinality(Busy) \in Nat
         /\ IsFiniteSet(Replying) /\ Cardinality(Replying) \in Nat
         /\ IsFiniteSet(Answering) /\ Cardinality(Answering) \in Nat
         /\ Cardinality(Replying) <= Cardinality(Answering)
         /\ MaxJobs \in Nat
PROOF
  <1>1. Waiting = WaitingIn(jobs) BY DEF Waiting, WaitingIn
  <1>2. Cardinality(Waiting) \in Nat BY <1>1, WaitingFinite DEF ClarifyType
  <1>3. Busy \in SUBSET Slot /\ Replying \in SUBSET Answering /\ Answering \in SUBSET Caller
    BY DEF Busy, Replying, Answering
  <1>4. IsFiniteSet(Busy) /\ IsFiniteSet(Answering) BY <1>3, ClarifyBounds, FS_Subset
  <1>5. IsFiniteSet(Replying) /\ Cardinality(Replying) <= Cardinality(Answering) BY <1>3, <1>4, FS_Subset
  <1> QED BY <1>1, <1>2, <1>4, <1>5, FS_CardinalityType, ClarifyBounds

--------------------------------------------------------------------------------
(* The rounds.                                                                *)

\* A round that has rows has a newest one.
LEMMA LatestIsARow ==
  ASSUME ClarifyType, NEW r, RowsOf(r) # {}
  PROVE  Latest(r) \in DOMAIN rounds /\ rounds[Latest(r)].round = r
PROOF
  <1>1. Len(rounds) \in Nat /\ DOMAIN rounds = 1..Len(rounds) BY LenProperties DEF ClarifyType
  <1> DEFINE n == Len(rounds)
             Back == {n - i : i \in RowsOf(r)}
  <1>2. Back \subseteq Nat /\ Back # {} BY <1>1 DEF RowsOf
  <1>3. PICK m \in Back : \A y \in Back : ~(<<y, m>> \in OpToRel(<, Nat))
    BY <1>2, NatLessThanWellFounded, WFMin
  <1>4. PICK i \in RowsOf(r) : m = n - i BY <1>3
  <1>5. ASSUME NEW k \in RowsOf(r) PROVE k <= i
    <2>1. k \in Int /\ i \in Int /\ k <= n BY <1>1 DEF RowsOf
    <2>2. n - k \in Back BY <1>5
    <2>3. ~(n - k < m) BY <1>2, <1>3, <2>2 DEF OpToRel
    <2> QED BY <1>1, <1>4, <2>1, <2>3
  <1>6. Latest(r) \in RowsOf(r) BY <1>5 DEF Latest
  <1> QED BY <1>6 DEF RowsOf

--------------------------------------------------------------------------------
(* Types.                                                                     *)

LEMMA ClarifyInitInv == ClarifyInit => ClarifyInv
PROOF
  <1> SUFFICES ASSUME ClarifyInit PROVE ClarifyInv OBVIOUS
  <1> USE DEF ClarifyInit
  <1>1. MaxJobs >= 1 /\ 0 \in 0..MaxJobs /\ 1 \in 0..MaxJobs BY ClarifyBounds
  <1>2. rounds \in Seq(RoundRow) /\ Len(rounds) = 0 BY EmptySeq
  <1>3. ClarifyType
    <2>1. jobs \in [Attempt -> 0..MaxJobs] BY <1>1
    <2>2. /\ cpc \in [Slot -> {"idle"}] /\ cround \in [Slot -> {1}] /\ ctry \in [Slot -> {1}]
          /\ hpc \in [Caller -> {"idle"}] /\ route \in [Caller -> {"execution"}]
      OBVIOUS
    <2>3. Len(rounds) <= MaxRows /\ deaths \in 0..MaxDeaths BY <1>2, ClarifyBounds
    <2> QED BY <1>2, <2>1, <2>2, <2>3, ClarifyBounds DEF ClarifyType
  <1>4. Busy = {} /\ Replying = {} BY DEF Busy, Replying
  <1>5. Cardinality(Waiting) <= 1
    <2> DEFINE none == [a \in Attempt |-> 0]
    <2>1. none \in [Attempt -> 0..MaxJobs] BY <1>1
    <2>2. WaitingIn(none) = {} BY DEF WaitingIn
    <2>3. Cardinality(WaitingIn(none)) = 0 BY <2>2, FS_EmptySet
    <2>4. jobs = [none EXCEPT ![1] = @ + 1]
      <3>1. \A a \in Attempt : jobs[a] = [none EXCEPT ![1] = @ + 1][a] BY ClarifyBounds
      <3>2. jobs \in [Attempt -> Int] /\ [none EXCEPT ![1] = @ + 1] \in [Attempt -> Int] BY ClarifyBounds
      <3> HIDE DEF none, ClarifyInit
      <3> QED BY <3>1, <3>2
    <2>5. Cardinality(WaitingIn(jobs)) = 1 BY <1>1, <2>1, <2>3, <2>4, ClarifyBounds, JobAdded
    <2> QED BY <1>3, <2>5, Counts
  <1>6. JobBudget
    <2>1. Cardinality(Busy) = 0 /\ Cardinality(Replying) = 0 BY <1>4, FS_EmptySet
    <2> QED BY <1>1, <1>3, <1>5, <2>1, Counts DEF JobBudget
  <1>7. Pipeline /\ ByExecution BY DEF Pipeline, Blocking, ByExecution
  <1>8. Single BY <1>4 DEF Single
  <1> QED BY <1>3, <1>6, <1>7, <1>8 DEF ClarifyInv

\* The steps of a slot that has a job and keeps it.
Moves(s) ==
  \/ Begin(s) \/ Analysed(s) \/ FindAnswered(s) \/ FindOpen(s) \/ FindNone(s) \/ Ask(s)
  \/ AskOnce(s) \/ Check(s) \/ Poll(s) \/ Timeout(s) \/ Merge(s) \/ AgentThrows(s) \/ RecordRunFailure(s)

\* ... and those that end its job.
Ends(s) == Await(s) \/ Plan(s) \/ Finish(s)

\* The steps of a request that is under way and stays so, or takes no job with it.
Handles(q) == ClarifyProject(q) \/ AnswerRounds(q) \/ MarkRunning(q) \/ SetClarifyFlag(q) \/ PublishClarify(q)

LEMMA ClarifySteps ==
  ASSUME ClarifyNext
  PROVE  \/ \E s \in Slot, a \in Attempt : Take(s, a)
         \/ \E s \in Slot : Moves(s) \/ Ends(s) \/ Retry(s) \/ Die(s)
         \/ \E q \in Caller : Handles(q) \/ ClarifyExecution(q) \/ Resume(q)
         \/ FlagExpires
PROOF BY DEF ClarifyNext, SlotWorks, HandlerWorks, Moves, Ends, Handles

\* A skipped or answered round is a round, and a new one is appended.
LEMMA AskTyped ==
  ASSUME ClarifyType, NEW s \in Slot, Ask(s)
  PROVE  rounds' \in Seq(RoundRow) /\ Len(rounds') <= MaxRows
PROOF
  <1>1. Len(rounds) < MaxRows /\ Len(rounds) \in Nat BY LenProperties DEF Ask, ClarifyType
  <1>2. PICK asks \in BOOLEAN :
          rounds' = Append(rounds, [round |-> cround[s], asks |-> asks, answered |-> FALSE, skipped |-> FALSE])
    BY DEF Ask
  <1>3. [round |-> cround[s], asks |-> asks, answered |-> FALSE, skipped |-> FALSE] \in RoundRow
    BY DEF ClarifyType, RoundRow
  <1>4. rounds' \in Seq(RoundRow) /\ Len(rounds') = Len(rounds) + 1
    BY <1>2, <1>3, AppendProperties DEF ClarifyType
  <1> QED BY <1>1, <1>4, ClarifyBounds

LEMMA AnswerTyped ==
  ASSUME ClarifyType, NEW q \in Caller, AnswerRounds(q)
  PROVE  rounds' \in Seq(RoundRow) /\ Len(rounds') <= MaxRows
PROOF
  <1>1. Len(rounds) \in Nat /\ DOMAIN rounds = 1..Len(rounds) BY LenProperties DEF ClarifyType
  <1>2. PICK skip \in BOOLEAN :
          rounds' = [i \in DOMAIN rounds |->
                       IF IsOpen(i) THEN [rounds[i] EXCEPT !.answered = TRUE, !.skipped = skip] ELSE rounds[i]]
    BY DEF AnswerRounds
  <1>3. ASSUME NEW i \in 1..Len(rounds) PROVE rounds'[i] \in RoundRow
    <2>1. rounds[i] \in RoundRow BY <1>3, ElementOfSeq DEF ClarifyType
    <2>2. [rounds[i] EXCEPT !.answered = TRUE, !.skipped = skip] \in RoundRow BY <2>1 DEF RoundRow
    <2> QED BY <1>1, <1>2, <2>1, <2>2
  <1>4. rounds' \in [1..Len(rounds) -> RoundRow] BY <1>1, <1>2, <1>3
  <1>5. rounds' \in Seq(RoundRow) BY <1>1, <1>4, IsASeq
  <1>6. Len(rounds') = Len(rounds) BY <1>1, <1>4, <1>5, LenProperties
  <1> QED BY <1>5, <1>6 DEF ClarifyType

LEMMA RoundMoves ==
  ASSUME ClarifyType, NEW s \in Slot, FindAnswered(s)
  PROVE  cround' \in [Slot -> Round]
PROOF
  <1> DEFINE i == Latest(cround[s])
  <1>1. i \in DOMAIN rounds /\ rounds[i].round = cround[s] BY LatestIsARow DEF FindAnswered
  <1>2. cround[s] \in 1..MaxClarifyRounds BY DEF ClarifyType, Round
  <1>3. CASE requirementsSeemClear(i) BY <1>3 DEF FindAnswered, ClarifyType
  <1>4. CASE ~requirementsSeemClear(i)
    <2>1. cround[s] < MaxClarifyRounds BY <1>1, <1>2, <1>4, ClarifyBounds DEF requirementsSeemClear
    <2>2. cround[s] + 1 \in Round BY <1>2, <2>1, ClarifyBounds DEF Round
    <2> QED BY <1>4, <2>2 DEF FindAnswered, ClarifyType
  <1> QED BY <1>3, <1>4

LEMMA SlotTypes ==
  ASSUME ClarifyType, NEW s \in Slot, Moves(s) \/ Ends(s)
  PROVE  ClarifyType'
PROOF
  <1> USE DEF ClarifyType, Go, slot, handler, tally
  <1>1. CASE Begin(s) BY <1>1 DEF Begin
  <1>2. CASE Analysed(s) BY <1>2 DEF Analysed
  <1>3. CASE FindAnswered(s) BY <1>3, RoundMoves DEF FindAnswered
  <1>4. CASE FindOpen(s) BY <1>4 DEF FindOpen
  <1>5. CASE FindNone(s) BY <1>5 DEF FindNone
  <1>6. CASE Ask(s)
    <2>1. cpc' \in [Slot -> {"idle", "init", "requirements", "find", "ask", "open", "clear",
                       "check", "wait", "woken", "taken", "rest", "failing", "failed"}]
      BY <1>6 DEF Ask
    <2>2. UNCHANGED <<cstatus, flag, jobs, cround, ctry, hpc, route, doubled, deaths>> BY <1>6 DEF Ask
    <2> QED BY <1>6, <2>1, <2>2, AskTyped
  <1>7. CASE AskOnce(s) BY <1>7 DEF AskOnce
  <1>8. CASE Check(s) BY <1>8 DEF Check
  <1>9. CASE Poll(s) BY <1>9 DEF Poll
  <1>10. CASE Timeout(s) BY <1>10 DEF Timeout
  <1>11. CASE Merge(s) BY <1>11 DEF Merge
  <1>12. CASE AgentThrows(s) BY <1>12 DEF AgentThrows
  <1>13. CASE RecordRunFailure(s) BY <1>13 DEF RecordRunFailure
  <1>14. CASE Await(s) BY <1>14 DEF Await
  <1>15. CASE Plan(s) BY <1>15 DEF Plan
  <1>16. CASE Finish(s) BY <1>16 DEF Finish
  <1> QED BY <1>1, <1>2, <1>3, <1>4, <1>5, <1>6, <1>7, <1>8, <1>9, <1>10, <1>11, <1>12, <1>13,
            <1>14, <1>15, <1>16 DEF Moves, Ends

\* A job put back finds room: the slot that held it is counted.
LEMMA Requeued ==
  ASSUME ClarifyType, JobBudget, NEW a \in Nat \ {0}, Busy # {}
  PROVE  /\ Requeue(a) \in [Attempt -> 0..MaxJobs]
         /\ Cardinality(WaitingIn(Requeue(a))) <= Cardinality(Waiting) + 1
         /\ \A b \in Attempt : jobs[b] > 0 => Requeue(a)[b] > 0
         /\ a \in Attempt => Requeue(a)[a] > 0
PROOF
  <1>1. Cardinality(Waiting) < MaxJobs
    <2>1. Cardinality(Busy) # 0 BY Counts, FS_EmptySet
    <2> QED BY <2>1, Counts DEF JobBudget
  <1>2. jobs \in [Attempt -> 0..MaxJobs] /\ Waiting = WaitingIn(jobs) /\ MaxJobs \in Nat
        /\ Cardinality(Waiting) \in Nat
    BY Counts DEF ClarifyType
  <1>3. CASE a \in Attempt
    <2>1. Requeue(a) = [jobs EXCEPT ![a] = @ + 1] BY <1>3 DEF Requeue
    <2>2. \A b \in Attempt : jobs[b] > 0 => Requeue(a)[b] > 0 BY <1>2, <2>1
    <2>3. Requeue(a)[a] > 0 BY <1>2, <1>3, <2>1
    <2>4. /\ Requeue(a) \in [Attempt -> 0..MaxJobs]
          /\ Cardinality(WaitingIn(Requeue(a))) = Cardinality(WaitingIn(jobs)) + 1
      <3>1. /\ [jobs EXCEPT ![a] = @ + 1] \in [Attempt -> 0..MaxJobs]
            /\ Cardinality(WaitingIn([jobs EXCEPT ![a] = @ + 1])) = Cardinality(WaitingIn(jobs)) + 1
        BY <1>1, <1>2, <1>3, JobAdded
      <3> QED BY <2>1, <3>1
    <2> QED BY <1>2, <2>2, <2>3, <2>4
  <1>4. CASE a \notin Attempt
    <2>1. Requeue(a) = jobs BY <1>4 DEF Requeue
    <2> QED BY <1>2, <1>4, <2>1
  <1> QED BY <1>3, <1>4

LEMMA RestTypes ==
  ASSUME ClarifyType, JobBudget, ByExecution, ClarifyNext
  PROVE  ClarifyType'
PROOF
  <1> USE DEF ClarifyType, Go, Respond, slot, handler, tally
  <1>1. ASSUME NEW s \in Slot, NEW a \in Attempt, Take(s, a) PROVE ClarifyType'
    <2>1. jobs' \in [Attempt -> 0..MaxJobs] BY <1>1, JobTaken DEF Take
    <2>2. UNCHANGED <<cstatus, rounds, flag, hpc, route, deaths>> BY <1>1 DEF Take
    <2>3. doubled' \in BOOLEAN BY <1>1 DEF Take
    <2>4. /\ cpc' \in [Slot -> {"idle", "init", "requirements", "find", "ask", "open", "clear",
                       "check", "wait", "woken", "taken", "rest", "failing", "failed"}]
          /\ cround' \in [Slot -> Round] /\ ctry' \in [Slot -> Attempt]
      BY <1>1, ClarifyBounds DEF Take
    <2> QED BY <2>1, <2>2, <2>3, <2>4
  <1>2. ASSUME NEW s \in Slot, Moves(s) \/ Ends(s) PROVE ClarifyType' BY <1>2, SlotTypes
  <1>3. ASSUME NEW s \in Slot, Retry(s) PROVE ClarifyType'
    <2>1. Busy # {} BY <1>3 DEF Retry, Busy
    <2>3. ctry[s] \in Nat /\ ctry[s] + 1 \in Nat \ {0} BY ClarifyBounds DEF Attempt
    <2>2. jobs' \in [Attempt -> 0..MaxJobs] BY <1>3, <2>1, <2>3, Requeued DEF Retry
    <2> QED BY <1>3, <2>2 DEF Retry
  <1>4. ASSUME NEW s \in Slot, Die(s) PROVE ClarifyType'
    <2>1. Busy # {} /\ ctry[s] \in Nat \ {0} BY <1>4, ClarifyBounds DEF Die, Busy, Attempt
    <2>2. jobs' \in [Attempt -> 0..MaxJobs] BY <1>4, <2>1, Requeued DEF Die
    <2>3. deaths' \in 0..MaxDeaths BY <1>4, ClarifyBounds DEF Die
    <2> QED BY <1>4, <2>2, <2>3 DEF Die
  <1>5. ASSUME NEW q \in Caller, ClarifyProject(q) PROVE ClarifyType' BY <1>5 DEF ClarifyProject
  <1>6. ASSUME NEW q \in Caller, AnswerRounds(q) PROVE ClarifyType'
    <2>1. hpc' \in [Caller -> {"idle", "answer", "mark", "flag", "publish", "resume"}]
      BY <1>6 DEF AnswerRounds
    <2>2. UNCHANGED <<cstatus, flag, jobs, cpc, cround, ctry, route, doubled, deaths>> BY <1>6 DEF AnswerRounds
    <2> QED BY <1>6, <2>1, <2>2, AnswerTyped
  <1>7. ASSUME NEW q \in Caller, MarkRunning(q) PROVE ClarifyType' BY <1>7 DEF MarkRunning
  <1>8. ASSUME NEW q \in Caller, SetClarifyFlag(q) PROVE ClarifyType' BY <1>8 DEF SetClarifyFlag
  <1>9. ASSUME NEW q \in Caller, PublishClarify(q) PROVE ClarifyType' BY <1>9 DEF PublishClarify
  <1>10. ASSUME NEW q \in Caller, ClarifyExecution(q) PROVE ClarifyType' BY <1>10 DEF ClarifyExecution
  <1>11. ASSUME NEW q \in Caller, Resume(q) PROVE ClarifyType'
    <2>1. q \in Replying BY <1>11 DEF Resume, Replying, ByExecution
    <2>2. Cardinality(Replying) # 0 BY <2>1, Counts, FS_EmptySet
    <2>3. Cardinality(WaitingIn(jobs)) < MaxJobs BY <2>2, Counts DEF JobBudget
    <2>4. jobs' \in [Attempt -> 0..MaxJobs] BY <1>11, <2>3, JobAdded, ClarifyBounds DEF Resume
    <2> QED BY <1>11, <2>4 DEF Resume
  <1>12. CASE FlagExpires BY <1>12 DEF FlagExpires
  <1> QED BY <1>1, <1>2, <1>3, <1>4, <1>5, <1>6, <1>7, <1>8, <1>9, <1>10, <1>11, <1>12, ClarifySteps DEF Handles

LEMMA PipelineStep ==
  ASSUME ClarifyType, Pipeline, ClarifyNext
  PROVE  Pipeline'
PROOF
  <1> SUFFICES ASSUME Mode = "STLC"
               PROVE  cstatus' # "COMPLETED" /\ \A s \in Slot : cpc'[s] \notin Blocking
    BY DEF Pipeline
  <1> USE DEF ClarifyType, Go, Respond, slot, handler, tally, Pipeline, Blocking
  <1>1. ASSUME NEW s \in Slot, NEW a \in Attempt, Take(s, a) PROVE Pipeline' BY <1>1 DEF Take
  <1>2. ASSUME NEW s \in Slot, Moves(s) PROVE Pipeline'
    BY <1>2 DEF Moves, Begin, Analysed, FindAnswered, FindOpen, FindNone, Ask, AskOnce, Check, Poll,
                Timeout, Merge, AgentThrows, RecordRunFailure
  <1>3. ASSUME NEW s \in Slot, Ends(s) PROVE Pipeline' BY <1>3 DEF Ends, Await, Plan, Finish
  <1>4. ASSUME NEW s \in Slot, Retry(s) \/ Die(s) PROVE Pipeline' BY <1>4 DEF Retry, Die
  <1>5. ASSUME NEW q \in Caller, Handles(q) PROVE Pipeline'
    BY <1>5 DEF Handles, ClarifyProject, AnswerRounds, MarkRunning, SetClarifyFlag, PublishClarify
  <1>6. ASSUME NEW q \in Caller, ClarifyExecution(q) \/ Resume(q) PROVE Pipeline'
    BY <1>6 DEF ClarifyExecution, Resume
  <1>7. CASE FlagExpires BY <1>7 DEF FlagExpires
  <1> QED BY <1>1, <1>2, <1>3, <1>4, <1>5, <1>6, <1>7, ClarifySteps

LEMMA ByExecutionStep ==
  ASSUME ClarifyType, ByExecution, ClarifyNext
  PROVE  ByExecution'
PROOF
  <1> USE DEF ClarifyType, Respond, slot, handler, tally, ByExecution
  <1>1. ASSUME NEW s \in Slot, NEW a \in Attempt, Take(s, a) PROVE ByExecution' BY <1>1 DEF Take
  <1>2. ASSUME NEW s \in Slot, Moves(s) PROVE ByExecution'
    BY <1>2 DEF Moves, Begin, Analysed, FindAnswered, FindOpen, FindNone, Ask, AskOnce, Check, Poll,
                Timeout, Merge, AgentThrows, RecordRunFailure
  <1>3. ASSUME NEW s \in Slot, Ends(s) PROVE ByExecution' BY <1>3 DEF Ends, Await, Plan, Finish
  <1>4. ASSUME NEW s \in Slot, Retry(s) \/ Die(s) PROVE ByExecution' BY <1>4 DEF Retry, Die
  <1>5. ASSUME NEW q \in Caller, Handles(q) PROVE ByExecution'
    BY <1>5 DEF Handles, ClarifyProject, AnswerRounds, MarkRunning, SetClarifyFlag, PublishClarify
  <1>6. ASSUME NEW q \in Caller, ClarifyExecution(q) \/ Resume(q) PROVE ByExecution'
    BY <1>6 DEF ClarifyExecution, Resume
  <1>7. CASE FlagExpires BY <1>7 DEF FlagExpires
  <1> QED BY <1>1, <1>2, <1>3, <1>4, <1>5, <1>6, <1>7, ClarifySteps

--------------------------------------------------------------------------------
(* The budget.                                                                *)

\* A slot that moves stays busy, one that ends its job does not, and neither touches a job or
\* a request.
LEMMA SlotCounts ==
  ASSUME ClarifyType, NEW s \in Slot
  PROVE  /\ Moves(s) \/ Ends(s) => UNCHANGED <<jobs, hpc, route, doubled>>
         /\ Moves(s) => Busy' = Busy /\ s \in Busy
         /\ Ends(s) \/ Retry(s) \/ Die(s) => Busy' = Busy \ {s} /\ s \in Busy
PROOF
  <1> USE DEF ClarifyType, Go, slot, handler, tally, Busy
  <1>1. ASSUME Moves(s) PROVE UNCHANGED <<jobs, hpc, route, doubled>>
    BY <1>1 DEF Moves, Begin, Analysed, FindAnswered, FindOpen, FindNone, Ask, AskOnce, Check, Poll,
                Timeout, Merge, AgentThrows, RecordRunFailure
  <1>2. ASSUME Ends(s) PROVE UNCHANGED <<jobs, hpc, route, doubled>> BY <1>2 DEF Ends, Await, Plan, Finish
  <1>3. ASSUME Moves(s) PROVE cpc[s] # "idle" /\ cpc'[s] # "idle" /\ \A t \in Slot : t # s => cpc'[t] = cpc[t]
    BY <1>3 DEF Moves, Begin, Analysed, FindAnswered, FindOpen, FindNone, Ask, AskOnce, Check, Poll,
                Timeout, Merge, AgentThrows, RecordRunFailure
  <1>4. ASSUME Ends(s) \/ Retry(s) \/ Die(s)
        PROVE  cpc[s] # "idle" /\ cpc'[s] = "idle" /\ \A t \in Slot : t # s => cpc'[t] = cpc[t]
    BY <1>4 DEF Ends, Await, Plan, Finish, Retry, Die
  <1> QED BY <1>1, <1>2, <1>3, <1>4

\* A request under way keeps the slots that are busy and those who will enqueue a job.
LEMMA HandlerCounts ==
  ASSUME ClarifyType, ByExecution, NEW q \in Caller, Handles(q)
  PROVE  UNCHANGED <<jobs, doubled>> /\ Busy' = Busy /\ Replying' = Replying
PROOF
  <1> USE DEF ClarifyType, Respond, slot, handler, tally, Busy, Replying, ByExecution
  <1>1. CASE ClarifyProject(q) BY <1>1 DEF ClarifyProject
  <1>2. CASE AnswerRounds(q) BY <1>2 DEF AnswerRounds
  <1>3. CASE MarkRunning(q) BY <1>3 DEF MarkRunning
  <1>4. CASE SetClarifyFlag(q) BY <1>4 DEF SetClarifyFlag
  <1>5. CASE PublishClarify(q)
    <2>1. UNCHANGED <<jobs, doubled, route>> BY <1>5 DEF PublishClarify
    <2>2. \A s \in Slot : cpc'[s] = "idle" <=> cpc[s] = "idle" BY <1>5 DEF PublishClarify
    <2>3. hpc[q] = "publish" /\ hpc'[q] = (IF route[q] = "execution" THEN "resume" ELSE "idle")
          /\ \A p \in Caller : p # q => hpc'[p] = hpc[p]
      BY <1>5 DEF PublishClarify
    <2> QED BY <2>1, <2>2, <2>3
  <1> QED BY <1>1, <1>2, <1>3, <1>4, <1>5 DEF Handles

LEMMA BudgetStep ==
  ASSUME ClarifyType, JobBudget, ByExecution, ClarifyNext
  PROVE  JobBudget'
PROOF
  <1> DEFINE w == Cardinality(Waiting)
             b == Cardinality(Busy)
             r == Cardinality(Replying)
  <1>1. w \in Nat /\ b \in Nat /\ r \in Nat /\ MaxJobs \in Nat /\ w + b + r <= MaxJobs
    BY Counts DEF JobBudget
  <1>2. ClarifyType' BY RestTypes
  <1>3. w' \in Nat /\ b' \in Nat /\ r' \in Nat /\ Waiting' = WaitingIn(jobs')
    <2>1. Waiting' = WaitingIn(jobs') BY DEF Waiting, WaitingIn
    <2>2. Cardinality(Waiting') \in Nat BY <1>2, <2>1, WaitingFinite DEF ClarifyType
    <2>3. Busy' \in SUBSET Slot /\ Replying' \in SUBSET Caller BY DEF Busy, Replying
    <2>4. IsFiniteSet(Busy') /\ IsFiniteSet(Replying') BY <2>3, ClarifyBounds, FS_Subset
    <2>5. Cardinality(Busy') \in Nat /\ Cardinality(Replying') \in Nat BY <2>4, FS_CardinalityType
    <2> QED BY <2>1, <2>2, <2>5
  <1>4. Waiting = WaitingIn(jobs) /\ jobs \in [Attempt -> 0..MaxJobs] BY Counts DEF ClarifyType
  <1>5. SUFFICES w' + b' + r' <= MaxJobs BY DEF JobBudget
  <1>6. ASSUME NEW s \in Slot, NEW a \in Attempt, Take(s, a) PROVE w' + b' + r' <= MaxJobs
    <2>1. w' = w - 1 BY <1>3, <1>4, <1>6, JobTaken DEF Take
    <2>2. r' = r BY <1>6 DEF Take, handler, Replying
    <2>3. b' <= b + 1
      <3>1. CASE UNCHANGED cpc BY <1>1, <3>1 DEF Busy
      <3>2. CASE Go(s, "init")
        <4>1. Busy' = Busy \cup {s} BY <3>2 DEF Busy, Go, ClarifyType
        <4>2. Cardinality(Busy \cup {s}) = IF s \in Busy THEN b ELSE b + 1 BY Counts, FS_AddElement
        <4> QED BY <1>1, <4>1, <4>2
      <3> QED BY <1>6, <3>1, <3>2 DEF Take, slot
    <2> QED BY <1>1, <1>3, <2>1, <2>2, <2>3
  <1>7. ASSUME NEW s \in Slot, Moves(s) PROVE w' + b' + r' <= MaxJobs
    BY <1>1, <1>7, SlotCounts DEF Waiting, Replying
  <1>8. ASSUME NEW s \in Slot, Ends(s) \/ Retry(s) \/ Die(s) PROVE b' = b - 1 /\ b > 0
    <2>1. Busy' = Busy \ {s} /\ s \in Busy BY <1>8, SlotCounts
    <2>2. Cardinality(Busy \ {s}) = b - 1 BY <2>1, Counts, FS_RemoveElement
    <2> QED BY <1>1, <1>3, <2>1, <2>2
  <1>9. ASSUME NEW s \in Slot, Ends(s) PROVE w' + b' + r' <= MaxJobs
    <2>1. w' = w /\ r' = r BY <1>9, SlotCounts DEF Waiting, Replying
    <2> QED BY <1>1, <1>8, <1>9, <2>1
  <1>10. ASSUME NEW s \in Slot, NEW a \in Nat \ {0}, Retry(s) \/ Die(s), jobs' = Requeue(a)
         PROVE  w' + b' + r' <= MaxJobs
    <2>1. r' = r BY <1>10 DEF Retry, Die, handler, Replying
    <2>2. Busy # {} BY <1>10, SlotCounts
    <2>3. w' <= w + 1 BY <1>3, <1>10, <2>2, Requeued
    <2> QED BY <1>1, <1>3, <1>8, <1>10, <2>1, <2>3
  <1>11. ASSUME NEW s \in Slot, Retry(s) \/ Die(s) PROVE w' + b' + r' <= MaxJobs
    <2>1. ctry[s] \in Nat \ {0} /\ ctry[s] + 1 \in Nat \ {0}
      BY ClarifyBounds DEF ClarifyType, Attempt
    <2>2. jobs' = Requeue(ctry[s] + 1) \/ jobs' = Requeue(ctry[s]) BY <1>11 DEF Retry, Die
    <2> QED BY <1>10, <1>11, <2>1, <2>2
  <1>12. ASSUME NEW q \in Caller, Handles(q) PROVE w' + b' + r' <= MaxJobs
    BY <1>1, <1>12, HandlerCounts DEF Waiting
  <1>13. ASSUME NEW q \in Caller, ClarifyExecution(q) PROVE w' + b' + r' <= MaxJobs
    <2>1. w' = w /\ b' = b BY <1>13 DEF ClarifyExecution, slot, Waiting, Busy
    <2>2. Replying' = Replying \cup {q} BY <1>13 DEF ClarifyExecution, Respond, Replying, ClarifyType
    <2>3. Cardinality(Replying \cup {q}) = IF q \in Replying THEN r ELSE r + 1 BY Counts, FS_AddElement
    <2>4. w + b + r < MaxJobs BY <1>1, <1>13, Counts DEF ClarifyExecution, HasRoom
    <2>5. r' <= r + 1 BY <1>1, <2>2, <2>3
    <2> QED BY <1>1, <1>3, <2>1, <2>4, <2>5
  <1>14. ASSUME NEW q \in Caller, Resume(q) PROVE w' + b' + r' <= MaxJobs
    <2>1. b' = b BY <1>14 DEF Resume, slot, Busy
    <2>2. q \in Replying BY <1>14 DEF Resume, Replying, ByExecution
    <2>3. Replying' = Replying \ {q} BY <1>14 DEF Resume, Respond, Replying, ClarifyType
    <2>4. Cardinality(Replying \ {q}) = r - 1 BY <2>2, Counts, FS_RemoveElement
    <2>5. r' = r - 1 BY <2>3, <2>4
    <2>6. r # 0 BY <2>2, Counts, FS_EmptySet
    <2>7. Cardinality(WaitingIn(jobs)) < MaxJobs BY <1>1, <1>4, <2>6
    <2>8. Cardinality(WaitingIn([jobs EXCEPT ![1] = @ + 1])) = Cardinality(WaitingIn(jobs)) + 1
      BY <1>4, <2>7, JobAdded, ClarifyBounds
    <2>9. w' = w + 1 BY <1>3, <1>4, <1>14, <2>8 DEF Resume
    <2> QED BY <1>1, <2>1, <2>5, <2>9
  <1>15. CASE FlagExpires
    BY <1>1, <1>15 DEF FlagExpires, slot, handler, Waiting, Busy, Replying
  <1> QED BY <1>6, <1>7, <1>9, <1>11, <1>12, <1>13, <1>14, <1>15, ClarifySteps

--------------------------------------------------------------------------------
(* One slot at a time.                                                        *)

\* A question that is open stays so until an answer takes it, and the answer is then Going.
LEMMA RoundsKept ==
  ASSUME ClarifyType, NEW s \in Slot, Ask(s)
  PROVE  AnyOpen'
PROOF
  <1>1. PICK asks \in BOOLEAN :
          rounds' = Append(rounds, [round |-> cround[s], asks |-> asks, answered |-> FALSE, skipped |-> FALSE])
    BY DEF Ask
  <1> DEFINE new == [round |-> cround[s], asks |-> asks, answered |-> FALSE, skipped |-> FALSE]
  <1>2. new \in RoundRow BY DEF ClarifyType, RoundRow
  <1>3. Len(rounds) + 1 \in DOMAIN rounds' /\ rounds'[Len(rounds) + 1] = new
    BY <1>1, <1>2, AppendProperties, LenProperties DEF ClarifyType
  <1>4. ~new.answered OBVIOUS
  <1> QED BY <1>3, <1>4 DEF AnyOpen, IsOpen

\* Nothing but a job that is taken, an answer, or the job it enqueues ends what goes on.
LEMMA GoingKept ==
  ASSUME ClarifyType, JobBudget, ByExecution, ClarifyNext, Going,
         \A s \in Slot, a \in Attempt : ~Take(s, a)
  PROVE  Going'
PROOF
  <1> USE DEF ClarifyType, slot, handler, tally
  <1>1. ASSUME NEW s \in Slot, Ask(s) PROVE Going' BY <1>1, RoundsKept DEF Going
  <1>2. ASSUME NEW s \in Slot, Moves(s) \/ Ends(s), ~Ask(s) PROVE Going'
    <2>1. UNCHANGED <<rounds, jobs, hpc, route>>
      BY <1>2 DEF Moves, Begin, Analysed, FindAnswered, FindOpen, FindNone, AskOnce, Check, Poll,
                  Timeout, Merge, AgentThrows, RecordRunFailure, Ends, Await, Plan, Finish
    <2> QED BY <2>1 DEF Going, AnyOpen, IsOpen, Replying
  <1>3. ASSUME NEW s \in Slot, Retry(s) \/ Die(s) PROVE Going'
    <2>1. UNCHANGED <<rounds, hpc, route>> BY <1>3 DEF Retry, Die
    <2>2. Busy # {} BY <1>3, SlotCounts
    <2>3. ctry[s] \in Nat \ {0} /\ ctry[s] + 1 \in Nat \ {0} BY ClarifyBounds DEF Attempt
    <2>4. jobs' = Requeue(ctry[s] + 1) \/ jobs' = Requeue(ctry[s]) BY <1>3 DEF Retry, Die
    <2>5. \A b \in Attempt : jobs[b] > 0 => jobs'[b] > 0 BY <2>2, <2>3, <2>4, Requeued
    <2> QED BY <2>1, <2>5 DEF Going, AnyOpen, IsOpen, Replying
  <1>4. ASSUME NEW q \in Caller, AnswerRounds(q) PROVE Going'
    <2>1. q \in Replying' BY <1>4 DEF AnswerRounds, Respond, Replying, ByExecution
    <2> QED BY <2>1 DEF Going
  <1>5. ASSUME NEW q \in Caller, Handles(q), ~AnswerRounds(q) PROVE Going'
    <2>1. UNCHANGED rounds
      BY <1>5 DEF Handles, ClarifyProject, MarkRunning, SetClarifyFlag, PublishClarify
    <2> QED BY <1>5, <2>1, HandlerCounts DEF Going, AnyOpen, IsOpen
  <1>6. ASSUME NEW q \in Caller, ClarifyExecution(q) PROVE Going'
    <2>1. q \in Replying' BY <1>6 DEF ClarifyExecution, Respond, Replying
    <2> QED BY <2>1 DEF Going
  <1>7. ASSUME NEW q \in Caller, Resume(q) PROVE Going'
    <2>1. jobs'[1] > 0 BY <1>7, ClarifyBounds DEF Resume
    <2> QED BY <2>1, ClarifyBounds DEF Going
  <1>8. CASE FlagExpires
    BY <1>8 DEF FlagExpires, Going, AnyOpen, IsOpen, Replying
  <1> QED BY <1>1, <1>2, <1>3, <1>4, <1>5, <1>6, <1>7, <1>8, ClarifySteps

LEMMA SingleStep ==
  ASSUME ClarifyInv, ClarifyNext, Mode = "STLC", ~doubled'
  PROVE  Single'
PROOF
  <1> USE DEF ClarifyInv
  <1>1. ~doubled
    <2>1. ASSUME NEW s \in Slot, NEW a \in Attempt, Take(s, a) PROVE ~doubled
      BY <2>1 DEF Take
    <2>2. ASSUME NEW s \in Slot, Retry(s) \/ Die(s) PROVE ~doubled BY <2>2 DEF Retry, Die, tally
    <2>3. ASSUME NEW q \in Caller, ClarifyExecution(q) \/ Resume(q) PROVE ~doubled
      BY <2>3 DEF ClarifyExecution, Resume, tally
    <2>4. CASE FlagExpires BY <2>4 DEF FlagExpires, tally
    <2> QED BY <2>1, <2>2, <2>3, <2>4, SlotCounts, HandlerCounts, ClarifySteps
  <1>2. Single BY <1>1
  <1>3. ClarifyType /\ JobBudget /\ ByExecution /\ Pipeline OBVIOUS
  <1>4. \A s \in Slot : cpc[s] \notin Blocking BY <1>3 DEF Pipeline
  <1> HIDE DEF ClarifyInv
  <1> USE DEF ClarifyType, Go, Respond, slot, handler, tally
  <1>5. ASSUME NEW s \in Slot, NEW a \in Attempt, Take(s, a) PROVE Single'
    <2>1. cstatus # "COMPLETED" BY <1>3 DEF Pipeline
    <2>2. Busy = {} BY <1>5, <2>1 DEF Take
    <2>3. \A t \in Slot : cpc[t] = "idle" BY <2>2 DEF Busy
    <2>4. cpc'[s] = "init" /\ \A t \in Slot : t # s => cpc'[t] = "idle" BY <1>3, <1>5, <2>1, <2>3 DEF Take
    <2>5. Busy' = {s} BY <2>4 DEF Busy
    <2> QED BY <2>4, <2>5 DEF Single
  <1>6. ASSUME NEW s \in Slot, Moves(s) \/ Ends(s) \/ Retry(s) \/ Die(s)
        PROVE  /\ cpc[s] # "idle"
               /\ \A t \in Slot : t # s => cpc[t] = "idle" /\ cpc'[t] = "idle"
               /\ \A x, y \in Busy' : x = y
               /\ Going => Going'
    <2>1. s \in Busy /\ Busy' \subseteq Busy BY <1>3, <1>6, SlotCounts
    <2>2. \A t \in Slot : t # s => t \notin Busy BY <1>2, <2>1 DEF Single
    <2>3. \A x, y \in Busy' : x = y BY <1>2, <2>1 DEF Single
    <2>4. cpc[s] # "idle" /\ \A t \in Slot : t # s => cpc[t] = "idle" /\ cpc'[t] = "idle"
      BY <2>1, <2>2 DEF Busy
    <2>5. \A t \in Slot, a \in Attempt : ~Take(t, a)
      <3> SUFFICES ASSUME NEW t \in Slot, NEW a \in Attempt, Take(t, a) PROVE FALSE OBVIOUS
      <3>1. t # s BY <2>4 DEF Take
      <3>2. cstatus # "COMPLETED" BY <1>3 DEF Pipeline
      <3>3. cpc'[t] = "init" BY <1>3, <3>2 DEF Take
      <3> QED BY <2>4, <3>1, <3>3
    <2> QED BY <1>3, <2>3, <2>4, <2>5, GoingKept
  <1>7. ASSUME NEW s \in Slot, Moves(s) PROVE Single'
    <2>1. s \in Busy' BY <1>3, <1>7, SlotCounts
    <2>2. cpc'[s] = "open" => Going'
      <3>1. CASE FindOpen(s)
        <4>1. AnyOpen BY <1>3, <3>1, LatestIsARow DEF FindOpen, AnyOpen
        <4> QED BY <1>6, <1>7, <4>1 DEF Going
      <3>2. CASE Ask(s) BY <1>3, <3>2, RoundsKept DEF Going
      <3>3. CASE ~FindOpen(s) /\ ~Ask(s)
        <4>1. cpc'[s] # "open" \/ cpc[s] = "open"
          BY <1>3, <1>7, <3>3 DEF Moves, Begin, Analysed, FindAnswered, FindNone, AskOnce, Check, Poll,
                Timeout, Merge, AgentThrows, RecordRunFailure
        <4> QED BY <1>2, <1>6, <1>7, <4>1 DEF Single
      <3> QED BY <3>1, <3>2, <3>3
    <2>3. cpc'[s] = "failed" => cstatus' # "CLARIFY"
      BY <1>3, <1>7 DEF Moves, Begin, Analysed, FindAnswered, FindOpen, FindNone, Ask, AskOnce, Check, Poll,
                Timeout, Merge, AgentThrows, RecordRunFailure
    <2> QED BY <1>6, <1>7, <2>1, <2>2, <2>3 DEF Single
  <1>8. ASSUME NEW s \in Slot, Ends(s) PROVE Single'
    <2>1. cpc'[s] = "idle" BY <1>3, <1>8 DEF Ends, Await, Plan, Finish
    <2>2. cstatus' = "CLARIFY" => Going'
      <3>1. CASE Await(s) BY <1>2, <1>6, <1>8, <3>1 DEF Await, Single
      <3>2. CASE ~Await(s) BY <1>8, <3>2 DEF Ends, Plan, Finish
      <3> QED BY <3>1, <3>2
    <2> QED BY <1>6, <1>8, <2>1, <2>2 DEF Single
  <1>9. ASSUME NEW s \in Slot, Retry(s) PROVE Single'
    <2>1. cpc'[s] = "idle" BY <1>3, <1>9 DEF Retry
    <2>2. cstatus' # "CLARIFY" BY <1>2, <1>9 DEF Retry, Single
    <2> QED BY <1>6, <1>9, <2>1, <2>2 DEF Single
  <1>10. ASSUME NEW s \in Slot, Die(s) PROVE Single'
    <2>1. cpc'[s] = "idle" BY <1>3, <1>10 DEF Die
    <2>2. Busy # {} /\ ctry[s] \in Nat \ {0} /\ ctry[s] \in Attempt
      BY <1>3, <1>10, SlotCounts, ClarifyBounds DEF Attempt
    <2>3. jobs'[ctry[s]] > 0 BY <1>3, <1>10, <2>2, Requeued DEF Die
    <2>4. Going' BY <2>2, <1>10, <2>3 DEF Going, Die
    <2> QED BY <1>6, <1>10, <2>1, <2>4 DEF Single
  <1>11. ASSUME UNCHANGED cpc, Going => Going', cstatus' = "CLARIFY" => cstatus = "CLARIFY" PROVE Single'
    BY <1>2, <1>11 DEF Single, Busy
  <1>12. ASSUME UNCHANGED cpc PROVE Going => Going'
    <2>1. \A s \in Slot, a \in Attempt : ~Take(s, a)
      <3> SUFFICES ASSUME NEW s \in Slot, NEW a \in Attempt, Take(s, a) PROVE FALSE OBVIOUS
      <3>1. cstatus # "COMPLETED" BY <1>3 DEF Pipeline
      <3> QED BY <1>3, <1>12, <3>1 DEF Take
    <2> QED BY <1>3, <2>1, GoingKept
  <1>13. ASSUME NEW q \in Caller, Handles(q) PROVE Single'
    <2>1. UNCHANGED cpc
      <3>1. CASE PublishClarify(q)
        <4>1. \A s \in Slot : cpc[s] # "wait" BY <1>4 DEF Blocking
        <4>2. \A s \in Slot : cpc'[s] = cpc[s] BY <3>1, <4>1 DEF PublishClarify
        <4>3. cpc' \in [Slot -> {cpc'[s] : s \in Slot}] /\ DOMAIN cpc' = Slot BY <3>1 DEF PublishClarify
        <4> QED BY <1>3, <4>2, <4>3
      <3>2. CASE ~PublishClarify(q)
        BY <1>13, <3>2 DEF Handles, ClarifyProject, AnswerRounds, MarkRunning, SetClarifyFlag
      <3> QED BY <3>1, <3>2
    <2>2. cstatus' = "CLARIFY" => cstatus = "CLARIFY"
      BY <1>13 DEF Handles, ClarifyProject, AnswerRounds, MarkRunning, SetClarifyFlag, PublishClarify
    <2> QED BY <1>11, <1>12, <2>1, <2>2
  <1>14. ASSUME NEW q \in Caller, ClarifyExecution(q) \/ Resume(q) PROVE Single'
    BY <1>11, <1>12, <1>14 DEF ClarifyExecution, Resume
  <1>15. CASE FlagExpires BY <1>11, <1>12, <1>15 DEF FlagExpires
  <1> QED BY <1>5, <1>7, <1>8, <1>9, <1>10, <1>13, <1>14, <1>15, ClarifySteps

LEMMA ClarifyStepInv ==
  ASSUME ClarifyInv, [ClarifyNext]_clarifyVars
  PROVE  ClarifyInv'
PROOF
  <1>1. CASE ClarifyNext
    <2>1. ClarifyType /\ JobBudget /\ ByExecution /\ Pipeline BY DEF ClarifyInv
    <2>2. ClarifyType' /\ JobBudget' /\ ByExecution' /\ Pipeline'
      BY <1>1, <2>1, RestTypes, BudgetStep, ByExecutionStep, PipelineStep
    <2>3. Mode = "STLC" /\ ~doubled' => Single' BY <1>1, SingleStep
    <2> QED BY <2>2, <2>3 DEF ClarifyInv
  <1>2. CASE UNCHANGED clarifyVars
    <2>1. UNCHANGED <<cstatus, rounds, flag, jobs, cpc, cround, ctry, hpc, route, doubled, deaths>>
      BY <1>2 DEF clarifyVars
    <2>2. ClarifyType' BY <2>1 DEF ClarifyInv, ClarifyType
    <2>3. JobBudget' BY <2>1 DEF ClarifyInv, JobBudget, Waiting, Busy, Replying
    <2>4. Pipeline' /\ ByExecution' BY <2>1 DEF ClarifyInv, Pipeline, ByExecution
    <2>5. Mode = "STLC" /\ ~doubled' => Single'
      BY <2>1 DEF ClarifyInv, Single, Busy, Going, AnyOpen, IsOpen, Replying
    <2> QED BY <2>2, <2>3, <2>4, <2>5 DEF ClarifyInv
  <1> QED BY <1>1, <1>2

\* The loop is well typed in every reachable state, and no count leaves its bound: a job put
\* back by a retry or a death, and one that an answer enqueues, always finds its place.
THEOREM ClarifyTyped == ClarifySpec => []ClarifyType
PROOF
  <1>1. ClarifyInv => ClarifyType BY DEF ClarifyInv
  <1> QED BY <1>1, ClarifyInitInv, ClarifyStepInv, PTL DEF ClarifySpec

\* A run of STLC at rest that waits for its user has a question open, whatever the order of
\* answers, retries and deaths, unless two slots have been on it at once.
THEOREM AQuestionIsOpen == ClarifySpec => []WaitsForAQuestion
PROOF
  <1>1. ASSUME ClarifyInv PROVE WaitsForAQuestion
    <2> SUFFICES ASSUME Mode = "STLC", Quiet, cstatus = "CLARIFY", ~doubled PROVE AnyOpen
      BY DEF WaitsForAQuestion, AnyOpen
    <2>1. Single /\ ClarifyType BY <1>1 DEF ClarifyInv
    <2>2. Busy = {} /\ Replying = {} /\ ~\E a \in Attempt : jobs[a] > 0
      BY <2>1 DEF Quiet, Busy, Replying, ClarifyType
    <2> QED BY <2>1, <2>2 DEF Single, Going
  <1> QED BY <1>1, ClarifyInitInv, ClarifyStepInv, PTL DEF ClarifySpec

--------------------------------------------------------------------------------
(* The review of the requirements.                                            *)

\* What a request has read is still listed, and it holds rows only while it analyses them.
Reads ==
  /\ \A q \in Client : \A k \in Req : work[q][k] \in {"same", "edited"} => k \in listed
  /\ \A q \in Client : rpc[q] \notin {"analyse", "analyseOne"} => Unread(q) = {}
  /\ \A q \in Client : rpc[q] = "analyseOne" => \A j, k \in Unread(q) : j = k

\* While no requests have overlapped, one at most is under way and reads what is there.
Undisturbed ==
  /\ \A p, q \in Client : rpc[p] # "idle" /\ rpc[q] # "idle" => p = q
  /\ \A q \in Client : \A k \in Req : work[q][k] \in {"none", "same"}

\* A review has withdrawn the approval and the rejection; an approval under way has found the
\* analysis completed, which no rejection leaves it.
Decided ==
  /\ \A q \in Client : rpc[q] \in Reviewing \ {"start"} => ~approved /\ ~rejected
  /\ \A q \in Client : rpc[q] = "approve" => analysis = "COMPLETED" /\ question = {} /\ conflict = {}
  /\ \A q \in Client : rpc[q] = "ready" => unmarked
  /\ rejected => analysis # "COMPLETED"

\* An analysis that is completed has seen every row, except the one of an edit that is about to
\* say so; an approval needs one that is completed.
Covered ==
  /\ approved => analysis = "COMPLETED"
  /\ analysis = "COMPLETED" => fresh = listed \/ \E q \in Client : rpc[q] \in {"markRead", "markWrite"}
  /\ \A q \in Client : rpc[q] = "markWrite" /\ analysis = "COMPLETED" => mark[q] = "withdraw"
  /\ \A q \in Client : rpc[q] = "analyse" => \A k \in listed : k \in fresh \/ work[q][k] = "same"
  /\ \A q \in Client : rpc[q] \in {"conflicts", "unstale", "complete"} => fresh = listed

ReviewInv ==
  /\ ReviewType /\ Reads
  /\ ~crossed => Undisturbed /\ Decided
  /\ ~crossed /\ ~unmarked => Covered

--------------------------------------------------------------------------------
(* Rows and requests.                                                         *)

LEMMA ReviewBounds == Req \subseteq Nat /\ 0 \notin Req /\ IsFiniteSet(Req) /\ MaxRestarts \in Nat
PROOF BY ReviewAssumption DEF ReviewAssumption

\* The first of some keys is one of them.
LEMMA FirstIsOne ==
  ASSUME NEW ks \in SUBSET Req, ks # {}
  PROVE  First(ks) \in ks
PROOF
  <1>1. PICK k \in ks : \A j \in ks : ~(<<j, k>> \in OpToRel(<, Nat))
    BY ReviewBounds, NatLessThanWellFounded, WFMin
  <1>2. ASSUME NEW j \in ks PROVE k <= j
    <2>1. j \in Nat /\ k \in Nat BY ReviewBounds
    <2>2. ~(j < k) BY <1>1, <2>1 DEF OpToRel
    <2> QED BY <2>1, <2>2
  <1> QED BY <1>2 DEF First

\* A pair of rows has a first one.
LEMMA FirstOfPair ==
  ASSUME NEW ks \in SUBSET Req, NEW p \in Pairs(ks)
  PROVE  First(p) \in ks
PROOF
  <1>1. p \in SUBSET ks /\ p # {} BY FS_EmptySet DEF Pairs
  <1> QED BY <1>1, FirstIsOne

Works == [Client -> [Req -> {"none", "same", "edited", "gone"}]]

LEMMA Overtaken ==
  ASSUME work \in Works, NEW ks, NEW what \in {"edited", "gone"}, Overtake(ks, what)
  PROVE  /\ work' \in Works
         /\ \A q \in Client : \A k \in Req : work'[q][k] = "none" <=> work[q][k] = "none"
         /\ \A q \in Client : \A k \in Req : work'[q][k] \in {"same", "edited"} => work[q][k] \in {"same", "edited"}
         /\ what = "gone" =>
              \A q \in Client : \A k \in Req : work'[q][k] \in {"same", "edited"} => k \notin ks
PROOF BY DEF Overtake, Works

\* What an analysis leaves behind.
LEMMA Persisted ==
  ASSUME ReviewType, Reads, NEW q \in Client, NEW k \in Req,
         NEW outcome \in {"clear", "blocked"}, NEW asks \in BOOLEAN, Persist(q, k, outcome, asks)
  PROVE  /\ k \in listed
         /\ review' \in [Req -> {"none", "clear", "blocked"}]
         /\ fresh' \subseteq {j \in listed : review'[j] # "none"}
         /\ stale' \subseteq listed /\ question' \subseteq listed \union {0}
         /\ work' \in Works
         /\ work'[q][k] = "none"
         /\ \A p \in Client : \A j \in Req : <<p, j>> # <<q, k>> => work'[p][j] = work[p][j]
         /\ work[q][k] = "same" => fresh' = fresh \union {k}
PROOF
  <1> USE DEF ReviewType, Persist, Works
  <1>1. k \in listed BY DEF Reads
  <1>2. review' = [review EXCEPT ![k] = outcome] OBVIOUS
  <1>3. fresh' \subseteq {j \in listed : review'[j] # "none"} BY <1>1, <1>2
  <1>4. stale' \subseteq listed /\ question' \subseteq listed \union {0} BY <1>1
  <1>5. work' = [work EXCEPT ![q][k] = "none"] OBVIOUS
  <1>6. /\ work' \in Works /\ work'[q][k] = "none"
        /\ \A p \in Client : \A j \in Req : <<p, j>> # <<q, k>> => work'[p][j] = work[p][j]
    BY <1>5
  <1> QED BY <1>1, <1>2, <1>3, <1>4, <1>6

\* The steps of the requests, in groups: those that come, edit rows or decide ...
Comes(q) ==
  \/ ReviewBegin(q) \/ clearAll(q) \/ ApproveRead(q) \/ Reject(q)
  \/ \E k \in Req :
       \/ reviewOne(q, k) \/ createManual(q, k) \/ updateManual(q, k) \/ deleteManual(q, k)
       \/ jiraImport(q, k) \/ \E related \in SUBSET listed : answerQuestion(q, k, related)
  \/ \E ks \in SUBSET Req : ExtractReplace(q, ks)

LEMMA ReviewSteps ==
  ASSUME ReviewNext
  PROVE  \/ \E q \in Client : Comes(q) \/ ReviewStep(q) \/ SomeStep(q)
         \/ ReviewElsewhere \/ Restart
PROOF BY DEF ReviewNext, RequestComes, Comes

LEMMA ReviewInitInv == ReviewInit => ReviewInv
PROOF
  <1> SUFFICES ASSUME ReviewInit PROVE ReviewInv OBVIOUS
  <1> USE DEF ReviewInit, NoWork
  <1>1. ReviewType
    <2>1. restarts \in 0..MaxRestarts BY ReviewBounds
    <2>2. /\ rpc \in [Client -> Steps] /\ mark \in [Client -> {"leave", "withdraw", "count", "none"}]
          /\ next \in [Client -> SUBSET Req] /\ work \in Works
          /\ review \in [Req -> {"none", "clear", "blocked"}]
      BY DEF Steps, Works
    <2> QED BY <2>1, <2>2 DEF ReviewType, Analyses, Works
  <1>2. Reads BY DEF Reads, Unread
  <1>3. Undisturbed /\ Decided /\ Covered BY DEF Undisturbed, Decided, Covered, Reviewing
  <1> QED BY <1>1, <1>2, <1>3 DEF ReviewInv

--------------------------------------------------------------------------------
(* Types.                                                                     *)

LEMMA ComesTyped ==
  ASSUME ReviewType, NEW q \in Client, Comes(q)
  PROVE  ReviewType'
PROOF
  <1> USE DEF Step, Enters, text, notes, projectRow, handlers, past
  <1>1. rpc \in [Client -> Steps] /\ work \in Works /\ listed \subseteq Req BY DEF ReviewType, Works
  <1>2. CASE ReviewBegin(q) BY <1>2 DEF ReviewBegin, ReviewType, Steps, Reviewing
  <1>3. CASE clearAll(q)
    <2>1. work' \in Works BY <1>1, <1>3, Overtaken DEF clearAll
    <2> QED BY <1>3, <2>1 DEF clearAll, ReviewType, Works, Analyses
  <1>4. CASE ApproveRead(q) BY <1>4 DEF ApproveRead, ReviewType, Steps
  <1>5. CASE Reject(q) BY <1>5 DEF Reject, ReviewType, Steps, Analyses
  <1>6. ASSUME NEW ks \in SUBSET Req, NEW more, ReviewSome(q, ks), question' \subseteq question, UNCHANGED conflict
        PROVE  ReviewType'
    BY <1>6 DEF ReviewSome, ReviewType, Steps
  <1>7. ASSUME NEW k \in Req, reviewOne(q, k) PROVE ReviewType' BY <1>6, <1>7 DEF reviewOne
  <1>8. ASSUME NEW k \in Req, NEW related \in SUBSET listed, answerQuestion(q, k, related) PROVE ReviewType'
    <2>1. {k} \union related \in SUBSET Req BY <1>1
    <2> QED BY <1>6, <1>8, <2>1 DEF answerQuestion
  <1>9. ASSUME NEW k \in Req, createManual(q, k) PROVE ReviewType'
    <2>1. conflict' \subseteq Pairs(listed') BY <1>9 DEF createManual, ReviewType, Pairs
    <2> QED BY <1>9, <2>1 DEF createManual, ReviewType, Steps
  <1>10. ASSUME NEW k \in Req, updateManual(q, k) PROVE ReviewType'
    <2>1. work' \in Works BY <1>1, <1>10, Overtaken DEF updateManual
    <2>2. stale' \subseteq listed /\ rpc' \in [Client -> Steps] BY <1>10 DEF updateManual, ReviewType, Steps
    <2> QED BY <1>10, <2>1, <2>2 DEF updateManual, ReviewType, Works
  <1>11. ASSUME NEW k \in Req, deleteManual(q, k) PROVE ReviewType'
    <2>1. work' \in Works BY <1>1, <1>11, Overtaken DEF deleteManual, Remove
    <2>2. review' \in [Req -> {"none", "clear", "blocked"}]
      BY <1>11 DEF deleteManual, Remove, ReviewType
    <2>3. \A j \in Req \ {k} : review'[j] = review[j] BY <1>11 DEF deleteManual, Remove, ReviewType
    <2>4. listed' = listed \ {k} /\ fresh' = fresh \ {k} /\ stale' = stale \ {k} /\ question' = question \ {k}
      BY <1>11 DEF deleteManual, Remove
    <2>5. fresh' \subseteq {j \in listed' : review'[j] # "none"} BY <1>1, <2>3, <2>4 DEF ReviewType
    <2>6. conflict' \subseteq Pairs(listed')
      <3>1. ASSUME NEW p \in conflict' PROVE p \in Pairs(listed')
        <4>1. p \in conflict /\ p \intersect {k} = {} BY <1>11 DEF deleteManual, Remove
        <4> QED BY <2>4, <4>1 DEF ReviewType, Pairs
      <3> QED BY <3>1
    <2> QED BY <1>11, <2>1, <2>2, <2>4, <2>5, <2>6 DEF deleteManual, ReviewType, Works, Steps
  <1>12. ASSUME NEW k \in Req, jiraImport(q, k) PROVE ReviewType'
    <2>1. work' \in Works BY <1>1, <1>12, Overtaken DEF jiraImport
    <2>2. conflict' \subseteq Pairs(listed') BY <1>12 DEF jiraImport, ReviewType, Pairs
    <2>3. stale' \subseteq listed' BY <1>12 DEF jiraImport, ReviewType
    <2> QED BY <1>12, <2>1, <2>2, <2>3 DEF jiraImport, ReviewType, Works
  <1>13. ASSUME NEW ks \in SUBSET Req, ExtractReplace(q, ks) PROVE ReviewType'
    <2>1. work' \in Works BY <1>1, <1>13, Overtaken DEF ExtractReplace
    <2> QED BY <1>13, <2>1 DEF ExtractReplace, ReviewType, Works, Steps
  <1> QED BY <1>2, <1>3, <1>4, <1>5, <1>7, <1>8, <1>9, <1>10, <1>11, <1>12, <1>13 DEF Comes

LEMMA ReviewStepTyped ==
  ASSUME ReviewType, Reads, NEW q \in Client, ReviewStep(q)
  PROVE  ReviewType'
PROOF
  <1> USE DEF Step, text, notes, projectRow, handlers, past
  <1>1. CASE ReviewStart(q) BY <1>1 DEF ReviewStart, ReviewType, Steps, Reviewing, Analyses
  <1>2. CASE ReviewClear(q) BY <1>2 DEF ReviewClear, ReviewType, Steps, Reviewing
  <1>3. CASE ReviewLoad(q) BY <1>3 DEF ReviewLoad, ReviewType, Steps, Reviewing
  <1>4. CASE Analyse(q)
    <2>1. First(Unread(q)) \in Req BY <1>4, FirstIsOne DEF Analyse, Unread
    <2>2. PICK outcome \in {"clear", "blocked"}, asks \in BOOLEAN : Persist(q, First(Unread(q)), outcome, asks)
      BY <1>4 DEF Analyse
    <2>3. /\ review' \in [Req -> {"none", "clear", "blocked"}]
          /\ fresh' \subseteq {j \in listed : review'[j] # "none"}
          /\ stale' \subseteq listed /\ question' \subseteq listed \union {0} /\ work' \in Works
      BY <2>1, <2>2, Persisted
    <2> QED BY <1>4, <2>3 DEF Analyse, ReviewType, Works
  <1>5. CASE AllAnalysed(q) BY <1>5 DEF AllAnalysed, ReviewType, Steps, Reviewing
  <1>6. CASE DetectConflicts(q)
    <2>1. PICK found \in SUBSET Pairs(listed) : \E asks \in SUBSET found : FindConflicts(found, asks)
      BY <1>6 DEF DetectConflicts
    <2>2. PICK asks \in SUBSET found : FindConflicts(found, asks) BY <2>1
    <2>3. UNCHANGED <<listed, fresh, stale, analysis, counted, approved, foreign, work, next, mark,
                      crossed, rejected, unmarked, unrecorded, restarts>>
      BY <1>6 DEF DetectConflicts
    <2>4. rpc' \in [Client -> Steps] BY <1>6 DEF DetectConflicts, ReviewType, Steps, Reviewing
    <2> DEFINE new == found \ conflict
    <2>5. /\ conflict' = conflict \union new
          /\ review' = [k \in Req |-> IF k \in UNION new THEN "blocked" ELSE review[k]]
          /\ question' = question \union {First(p) : p \in asks \intersect new}
      BY <2>2 DEF FindConflicts
    <2>6. \A p \in asks : First(p) \in listed BY <2>1, <2>2, FirstOfPair DEF ReviewType
    <2>7. conflict' \subseteq Pairs(listed) BY <2>5 DEF ReviewType
    <2>8. question' \subseteq listed \union {0} BY <2>5, <2>6 DEF ReviewType
    <2> HIDE DEF new
    <2>9. review' \in [Req -> {"none", "clear", "blocked"}] BY <2>5 DEF ReviewType
    <2>10. fresh \subseteq {j \in listed : review'[j] # "none"} BY <2>5 DEF ReviewType
    <2> QED BY <2>3, <2>4, <2>7, <2>8, <2>9, <2>10 DEF ReviewType
  <1>7. CASE Unstale(q) BY <1>7 DEF Unstale, ReviewType, Steps, Reviewing
  <1>8. CASE ReviewComplete(q) BY <1>8 DEF ReviewComplete, ReviewType, Steps, Reviewing, Analyses
  <1>9. CASE ReviewThrows(q) BY <1>9 DEF ReviewThrows, ReviewType, Steps, Reviewing, NoWork
  <1>10. CASE RecordFailure(q) BY <1>10 DEF RecordFailure, ReviewType, Steps, Analyses
  <1>11. CASE ReviewReport(q) BY <1>11 DEF ReviewReport, ReviewType, Steps
  <1>12. CASE FailUnrecorded(q) BY <1>12 DEF FailUnrecorded, ReviewType, Steps
  <1> QED BY <1>1, <1>2, <1>3, <1>4, <1>5, <1>6, <1>7, <1>8, <1>9, <1>10, <1>11, <1>12 DEF ReviewStep

LEMMA SomeStepTyped ==
  ASSUME ReviewType, Reads, NEW q \in Client, SomeStep(q)
  PROVE  ReviewType'
PROOF
  <1> USE DEF Step, text, notes, projectRow, handlers, past
  <1>1. CASE ReadOne(q)
    <2> DEFINE k == First(next[q])
    <2>1. next[q] \in SUBSET Req /\ next[q] # {} BY <1>1 DEF ReadOne, ReviewType
    <2>2. k \in Req BY <2>1, FirstIsOne
    <2>3. next' \in [Client -> SUBSET Req] BY <1>1 DEF ReadOne, ReviewType
    <2>4. /\ question' \subseteq question
          /\ work' \in [Client -> [Req -> {"none", "same", "edited", "gone"}]]
          /\ rpc' \in [Client -> Steps]
      <3>1. CASE k \in listed
        <4>1. question' = question \ {k} /\ work' = [work EXCEPT ![q][k] = "same"] /\ Step(q, "analyseOne")
          BY <1>1, <3>1 DEF ReadOne
        <4> QED BY <2>2, <4>1 DEF ReviewType, Steps
      <3>2. CASE k \notin listed
        <4>1. UNCHANGED <<question, work, rpc>> BY <1>1, <3>2 DEF ReadOne
        <4> QED BY <4>1 DEF ReviewType
      <3> QED BY <3>1, <3>2
    <2> QED BY <1>1, <2>3, <2>4 DEF ReadOne, ReviewType
  <1>2. CASE AnalyseOne(q)
    <2>1. PICK k \in Unread(q), outcome \in {"clear", "blocked"}, asks \in BOOLEAN : Persist(q, k, outcome, asks)
      BY <1>2 DEF AnalyseOne
    <2>2. /\ review' \in [Req -> {"none", "clear", "blocked"}]
          /\ fresh' \subseteq {j \in listed : review'[j] # "none"}
          /\ stale' \subseteq listed /\ question' \subseteq listed \union {0} /\ work' \in Works
      BY <2>1, Persisted DEF Unread
    <2>3. rpc' \in [Client -> Steps] BY <1>2 DEF AnalyseOne, ReviewType, Steps
    <2> QED BY <1>2, <2>2, <2>3 DEF AnalyseOne, ReviewType, Works
  <1>3. CASE AbandonOne(q) BY <1>3 DEF AbandonOne, ReviewType, Steps, NoWork
  <1>4. CASE ExtractReady(q) BY <1>4 DEF ExtractReady, ReviewType, Steps, Analyses
  <1>5. CASE MarkRead(q)
    <2>1. mark' \in [Client -> {"leave", "withdraw", "count", "none"}]
      BY <1>5 DEF MarkRead, ReviewType
    <2> QED BY <1>5, <2>1 DEF MarkRead, ReviewType, Steps
  <1>6. CASE MarkWrite(q) BY <1>6 DEF MarkWrite, ReviewType, Steps, Analyses
  <1>7. CASE ApproveWrite(q) BY <1>7 DEF ApproveWrite, ReviewType, Steps
  <1>8. CASE RejectAsk(q)
    <2>1. listed # {} => First(listed) \in listed BY FirstIsOne DEF ReviewType
    <2>2. question' \subseteq listed \union {0} BY <1>8, <2>1 DEF RejectAsk, ReviewType
    <2> QED BY <1>8, <2>2 DEF RejectAsk, ReviewType, Steps
  <1> QED BY <1>1, <1>2, <1>3, <1>4, <1>5, <1>6, <1>7, <1>8 DEF SomeStep

LEMMA ReviewTypeStep ==
  ASSUME ReviewType, Reads, ReviewNext
  PROVE  ReviewType'
PROOF
  <1> USE DEF text, notes, projectRow, handlers
  <1>1. CASE ReviewElsewhere BY <1>1 DEF ReviewElsewhere, past, ReviewType
  <1>2. CASE Restart
    <2>1. restarts' \in 0..MaxRestarts BY <1>2, ReviewBounds DEF Restart, ReviewType
    <2>2. /\ rpc' \in [Client -> Steps] /\ mark' \in [Client -> {"leave", "withdraw", "count", "none"}]
          /\ next' \in [Client -> SUBSET Req] /\ work' \in Works
      BY <1>2 DEF Restart, Steps, NoWork, Works
    <2>3. UNCHANGED <<listed, review, fresh, stale, question, conflict, analysis, counted, approved,
                      rejected, unmarked, unrecorded>>
      BY <1>2 DEF Restart
    <2>4. foreign' \in BOOLEAN /\ crossed' \in BOOLEAN BY <1>2 DEF Restart, ReviewType, AtRest
    <2> QED BY <2>1, <2>2, <2>3, <2>4 DEF ReviewType, Works
  <1> QED BY <1>1, <1>2, ComesTyped, ReviewStepTyped, SomeStepTyped, ReviewSteps

--------------------------------------------------------------------------------
(* What requests hold.                                                        *)

\* A step of one request that reads no row.
LEMMA ReadsKept ==
  ASSUME ReviewType, Reads, NEW q \in Client, NEW p, Step(q, p) \/ UNCHANGED rpc,
         p \notin {"analyse", "analyseOne"}, Unread(q) = {},
         \A c \in Client : \A k \in Req : work'[c][k] = "none" <=> work[c][k] = "none",
         \A c \in Client : \A k \in Req : work'[c][k] \in {"same", "edited"} =>
            work[c][k] \in {"same", "edited"} /\ (k \in listed => k \in listed')
  PROVE  Reads'
PROOF
  <1>1. \A c \in Client : \A k \in Req : work'[c][k] \in {"same", "edited"} => k \in listed' BY DEF Reads
  <1>2. \A c \in Client : Unread(c)' = Unread(c) BY DEF Unread
  <1>3. \A c \in Client : c # q => rpc'[c] = rpc[c] BY DEF Step, ReviewType
  <1>4. Step(q, p) => rpc'[q] = p BY DEF Step, ReviewType
  <1>5. Unread(q)' = {} BY <1>2
  <1>6. \A c \in Client : rpc'[c] \notin {"analyse", "analyseOne"} => Unread(c)' = {}
    BY <1>2, <1>3, <1>5 DEF Reads
  <1>7. \A c \in Client : rpc'[c] = "analyseOne" => \A j, k \in Unread(c)' : j = k
    BY <1>2, <1>3, <1>4, <1>5 DEF Reads
  <1> QED BY <1>1, <1>6, <1>7 DEF Reads

LEMMA ComesReads ==
  ASSUME ReviewType, Reads, NEW q \in Client, Comes(q)
  PROVE  Reads'
PROOF
  <1> USE DEF Enters, text, notes, projectRow, handlers, past
  <1>1. work \in Works /\ rpc[q] = "idle" /\ Unread(q) = {}
    BY DEF ReviewType, Works, Reads, Comes, ReviewBegin, clearAll, ApproveRead, Reject, reviewOne, answerQuestion,
           ReviewSome, createManual, updateManual, deleteManual, jiraImport, ExtractReplace
  <1>2. ASSUME UNCHANGED work, UNCHANGED listed, NEW p, Step(q, p), p \notin {"analyse", "analyseOne"} PROVE Reads'
    BY <1>1, <1>2, ReadsKept
  <1>3. CASE ReviewBegin(q) BY <1>2, <1>3 DEF ReviewBegin
  <1>4. CASE clearAll(q)
    <2>1. \A c \in Client : \A k \in Req : work'[c][k] = "none" <=> work[c][k] = "none" BY <1>1, <1>4, Overtaken DEF clearAll
    <2>2. \A c \in Client : \A k \in Req : work'[c][k] \notin {"same", "edited"}
      BY <1>1, <1>4, Overtaken DEF clearAll
    <2>3. UNCHANGED rpc BY <1>4 DEF clearAll
    <2> QED BY <1>1, <2>1, <2>2, <2>3, ReadsKept
  <1>5. CASE ApproveRead(q) BY <1>2, <1>5 DEF ApproveRead
  <1>6. CASE Reject(q) BY <1>2, <1>6 DEF Reject
  <1>7. ASSUME NEW ks, ReviewSome(q, ks) PROVE Reads' BY <1>2, <1>7 DEF ReviewSome
  <1>8. ASSUME NEW k \in Req, reviewOne(q, k) PROVE Reads' BY <1>7, <1>8 DEF reviewOne
  <1>9. ASSUME NEW k \in Req, NEW related \in SUBSET listed, answerQuestion(q, k, related) PROVE Reads'
    BY <1>7, <1>9 DEF answerQuestion
  <1>10. ASSUME NEW k \in Req, createManual(q, k) PROVE Reads'
    <2>1. Step(q, "markRead") /\ UNCHANGED work /\ listed \subseteq listed' BY <1>10 DEF createManual
    <2> QED BY <1>1, <2>1, ReadsKept DEF Reads
  <1>11. ASSUME NEW k \in Req, updateManual(q, k) PROVE Reads'
    <2>1. Overtake({k}, "edited") /\ UNCHANGED listed BY <1>11 DEF updateManual
    <2>2. Step(q, "markRead") \/ UNCHANGED rpc BY <1>11 DEF updateManual
    <2>3. /\ \A c \in Client : \A j \in Req : work'[c][j] = "none" <=> work[c][j] = "none"
          /\ \A c \in Client : \A j \in Req : work'[c][j] \in {"same", "edited"} => work[c][j] \in {"same", "edited"}
      BY <1>1, <2>1, Overtaken
    <2> QED BY <1>1, <2>1, <2>2, <2>3, ReadsKept
  <1>12. ASSUME NEW k \in Req, deleteManual(q, k) PROVE Reads'
    <2>1. Overtake({k}, "gone") /\ listed' = listed \ {k} /\ Step(q, "markRead") BY <1>12 DEF deleteManual, Remove
    <2>2. /\ \A c \in Client : \A j \in Req : work'[c][j] = "none" <=> work[c][j] = "none"
          /\ \A c \in Client : \A j \in Req : work'[c][j] \in {"same", "edited"} => work[c][j] \in {"same", "edited"}
          /\ \A c \in Client : \A j \in Req : work'[c][j] \in {"same", "edited"} => j \notin {k}
      BY <1>1, <2>1, Overtaken
    <2>3. \A c \in Client : \A j \in Req : work'[c][j] \in {"same", "edited"} =>
             work[c][j] \in {"same", "edited"} /\ (j \in listed => j \in listed')
      BY <2>1, <2>2
    <2> QED BY <1>1, <2>1, <2>2, <2>3, ReadsKept
  <1>13. ASSUME NEW k \in Req, jiraImport(q, k) PROVE Reads'
    <2>1. Overtake({k}, "edited") /\ listed \subseteq listed' /\ UNCHANGED rpc BY <1>13 DEF jiraImport
    <2>2. /\ \A c \in Client : \A j \in Req : work'[c][j] = "none" <=> work[c][j] = "none"
          /\ \A c \in Client : \A j \in Req : work'[c][j] \in {"same", "edited"} => work[c][j] \in {"same", "edited"}
      BY <1>1, <2>1, Overtaken
    <2> QED BY <1>1, <2>1, <2>2, ReadsKept
  <1>14. ASSUME NEW ks \in SUBSET Req, ExtractReplace(q, ks) PROVE Reads'
    <2>1. Overtake(Req, "gone") /\ Step(q, "ready") BY <1>14 DEF ExtractReplace
    <2>2. /\ \A c \in Client : \A j \in Req : work'[c][j] = "none" <=> work[c][j] = "none"
          /\ \A c \in Client : \A j \in Req : work'[c][j] \in {"same", "edited"} => j \notin Req
      BY <1>1, <2>1, Overtaken
    <2> QED BY <1>1, <2>1, <2>2, ReadsKept
  <1> QED BY <1>3, <1>4, <1>5, <1>6, <1>8, <1>9, <1>10, <1>11, <1>12, <1>13, <1>14 DEF Comes

\* A step that keeps its request to itself: the others hold what they held.
LEMMA OthersKept ==
  ASSUME ReviewType, Reads, NEW q \in Client, NEW p, Step(q, p), UNCHANGED listed,
         \A c \in Client : c # q => \A k \in Req : work'[c][k] = work[c][k],
         \A k \in Req : work'[q][k] \in {"same", "edited"} => k \in listed,
         \/ \A k \in Req : work'[q][k] = "none"
         \/ p = "analyse"
         \/ p = "analyseOne" /\ \A j, k \in Req : work'[q][j] # "none" /\ work'[q][k] # "none" => j = k
  PROVE  Reads'
PROOF
  <1>1. \A c \in Client : c # q => rpc'[c] = rpc[c] BY DEF Step, ReviewType
  <1>2. rpc'[q] = p BY DEF Step, ReviewType
  <1>3. \A c \in Client : c # q => Unread(c)' = Unread(c) BY DEF Unread
  <1>4. Unread(q)' = {k \in Req : work'[q][k] # "none"} BY DEF Unread
  <1>5. \A c \in Client : \A k \in Req : work'[c][k] \in {"same", "edited"} => k \in listed' BY DEF Reads
  <1>6. \A c \in Client : rpc'[c] \notin {"analyse", "analyseOne"} => Unread(c)' = {}
    BY <1>1, <1>2, <1>3, <1>4 DEF Reads
  <1>7. \A c \in Client : rpc'[c] = "analyseOne" => \A j, k \in Unread(c)' : j = k
    BY <1>1, <1>2, <1>3, <1>4 DEF Reads
  <1> QED BY <1>5, <1>6, <1>7 DEF Reads

LEMMA ReadsStep ==
  ASSUME ReviewType, Reads, ReviewNext
  PROVE  Reads'
PROOF
  <1> USE DEF text, notes, projectRow, handlers, past
  <1>1. ASSUME NEW q \in Client, NEW p, Step(q, p), UNCHANGED <<work, listed>>,
               rpc[q] \notin {"analyse", "analyseOne"}, p \notin {"analyse", "analyseOne"}
        PROVE  Reads'
    BY <1>1, ReadsKept DEF Reads
  <1>2. ASSUME NEW q \in Client, NEW p, Step(q, p), work' = [work EXCEPT ![q] = NoWork], UNCHANGED listed
        PROVE  Reads'
    <2>1. /\ \A c \in Client : c # q => \A k \in Req : work'[c][k] = work[c][k]
          /\ \A k \in Req : work'[q][k] = "none"
      BY <1>2 DEF ReviewType, NoWork
    <2> QED BY <1>2, <2>1, OthersKept
  <1>3. ASSUME NEW q \in Client, ReviewStep(q) PROVE Reads'
    <2>1. CASE ReviewStart(q) BY <1>1, <2>1 DEF ReviewStart
    <2>2. CASE ReviewClear(q) BY <1>1, <2>2 DEF ReviewClear
    <2>3. CASE ReviewLoad(q)
      <3>1. /\ \A c \in Client : c # q => \A k \in Req : work'[c][k] = work[c][k]
            /\ \A k \in Req : work'[q][k] \in {"same", "edited"} => k \in listed
        BY <2>3 DEF ReviewLoad, ReviewType
      <3> QED BY <2>3, <3>1, OthersKept DEF ReviewLoad
    <2>4. CASE Analyse(q)
      <3>1. First(Unread(q)) \in Req BY <2>4, FirstIsOne DEF Analyse, Unread
      <3>2. PICK outcome \in {"clear", "blocked"}, asks \in BOOLEAN : Persist(q, First(Unread(q)), outcome, asks)
        BY <2>4 DEF Analyse
      <3>3. \A c \in Client : \A k \in Req : work'[c][k] = work[c][k] \/ (c = q /\ work'[c][k] = "none")
        BY <3>1, <3>2, Persisted
      <3>4. UNCHANGED <<listed, rpc>> /\ rpc[q] = "analyse" BY <2>4 DEF Analyse
      <3>5. \A c \in Client : Unread(c)' \subseteq Unread(c) BY <3>3 DEF Unread
      <3> QED BY <3>3, <3>4, <3>5 DEF Reads
    <2>5. CASE AllAnalysed(q)
      <3>1. Unread(q) = {} /\ Step(q, "conflicts") /\ UNCHANGED <<work, listed>> BY <2>5 DEF AllAnalysed
      <3> QED BY <3>1, ReadsKept
    <2>6. CASE DetectConflicts(q)
      <3>1. Step(q, "unstale") \/ Step(q, "idle") BY <2>6 DEF DetectConflicts
      <3>2. UNCHANGED <<work, listed>> /\ rpc[q] \notin {"analyse", "analyseOne"} BY <2>6 DEF DetectConflicts
      <3> QED BY <1>1, <3>1, <3>2
    <2>7. CASE Unstale(q) BY <1>1, <2>7 DEF Unstale
    <2>8. CASE ReviewComplete(q) BY <1>1, <2>8 DEF ReviewComplete
    <2>9. CASE ReviewThrows(q) BY <1>2, <2>9 DEF ReviewThrows
    <2>10. CASE RecordFailure(q) BY <1>1, <2>10 DEF RecordFailure
    <2>11. CASE ReviewReport(q) BY <1>1, <2>11 DEF ReviewReport
    <2>12. CASE FailUnrecorded(q) BY <1>1, <2>12 DEF FailUnrecorded
    <2> QED BY <1>3, <2>1, <2>2, <2>3, <2>4, <2>5, <2>6, <2>7, <2>8, <2>9, <2>10, <2>11, <2>12 DEF ReviewStep
  <1>4. ASSUME NEW q \in Client, SomeStep(q) PROVE Reads'
    <2>1. CASE ReadOne(q)
      <3> DEFINE k == First(next[q])
      <3>1. next[q] \in SUBSET Req /\ next[q] # {} BY <2>1 DEF ReadOne, ReviewType
      <3>2. k \in Req BY <3>1, FirstIsOne
      <3>3. Unread(q) = {} /\ UNCHANGED listed BY <2>1 DEF ReadOne, Reads
      <3>4. CASE k \in listed
        <4>1. work' = [work EXCEPT ![q][k] = "same"] /\ Step(q, "analyseOne") BY <2>1, <3>4 DEF ReadOne
        <4>2. /\ \A c \in Client : c # q => \A j \in Req : work'[c][j] = work[c][j]
              /\ \A j \in Req : work'[q][j] # "none" => j = k
          BY <3>2, <3>3, <4>1 DEF ReviewType, Unread
        <4> HIDE DEF k
        <4> QED BY <3>3, <3>4, <4>1, <4>2, OthersKept
      <3>5. CASE k \notin listed
        <4>1. UNCHANGED <<work, rpc, listed>> BY <2>1, <3>5 DEF ReadOne
        <4> QED BY <4>1 DEF Reads, Unread
      <3> QED BY <3>4, <3>5
    <2>2. CASE AnalyseOne(q)
      <3>1. PICK k \in Unread(q), outcome \in {"clear", "blocked"}, asks \in BOOLEAN : Persist(q, k, outcome, asks)
        BY <2>2 DEF AnalyseOne
      <3>2. k \in Req /\ work'[q][k] = "none"
            /\ \A p \in Client : \A j \in Req : <<p, j>> # <<q, k>> => work'[p][j] = work[p][j]
        BY <3>1, Persisted DEF Unread
      <3>3. \A j \in Req : work[q][j] # "none" => j = k BY <2>2, <3>1 DEF AnalyseOne, Reads, Unread
      <3>4. /\ \A c \in Client : c # q => \A j \in Req : work'[c][j] = work[c][j]
            /\ \A j \in Req : work'[q][j] = "none"
        BY <3>2, <3>3
      <3>5. (Step(q, "conflictsOne") \/ Step(q, "read")) /\ UNCHANGED listed BY <2>2 DEF AnalyseOne
      <3> QED BY <3>4, <3>5, OthersKept
    <2>3. CASE AbandonOne(q) BY <1>2, <2>3 DEF AbandonOne
    <2>4. CASE ExtractReady(q) BY <1>1, <2>4 DEF ExtractReady
    <2>5. CASE MarkRead(q) BY <1>1, <2>5 DEF MarkRead
    <2>6. CASE MarkWrite(q) BY <1>1, <2>6 DEF MarkWrite
    <2>7. CASE ApproveWrite(q) BY <1>1, <2>7 DEF ApproveWrite
    <2>8. CASE RejectAsk(q) BY <1>1, <2>8 DEF RejectAsk
    <2> QED BY <1>4, <2>1, <2>2, <2>3, <2>4, <2>5, <2>6, <2>7, <2>8 DEF SomeStep
  <1>5. CASE ReviewElsewhere BY <1>5 DEF ReviewElsewhere, Reads, Unread
  <1>6. CASE Restart BY <1>6 DEF Restart, Reads, Unread, NoWork
  <1> QED BY <1>3, <1>4, <1>5, <1>6, ComesReads, ReviewSteps

--------------------------------------------------------------------------------
(* One request at a time.                                                     *)

\* A request that comes and finds nobody is alone, and no row is being read.
LEMMA ComesAlone ==
  ASSUME ReviewType, Reads, NEW q \in Client, Comes(q), ~crossed'
  PROVE  /\ ~crossed
         /\ unmarked => unmarked'
         /\ \A p \in Client : rpc[p] = "idle" /\ (p # q => rpc'[p] = "idle")
         /\ rpc'[q] \in {"idle", "start", "approve", "ask", "read", "markRead", "ready"}
         /\ \A p \in Client : \A k \in Req : work'[p][k] = "none"
PROOF
  <1> USE DEF Enters, text, notes, projectRow, handlers, past
  <1>1. ~crossed /\ AtRest
    BY DEF Comes, ReviewBegin, clearAll, ApproveRead, Reject, reviewOne, answerQuestion,
           ReviewSome, createManual, updateManual, deleteManual, jiraImport, ExtractReplace
  <1>2. unmarked => unmarked'
    BY DEF Comes, ReviewBegin, clearAll, ApproveRead, Reject, reviewOne, answerQuestion,
           ReviewSome, createManual, updateManual, deleteManual, jiraImport, ExtractReplace
  <1>3. \A p \in Client : rpc[p] = "idle" BY <1>1 DEF AtRest, ReviewType
  <1>4. \A p \in Client : \A k \in Req : work[p][k] = "none" BY <1>3 DEF Reads, Unread
  <1>5. \/ UNCHANGED work
        \/ Overtake(Req, "gone") \/ \E k \in Req : Overtake({k}, "gone") \/ Overtake({k}, "edited")
        \/ \E ks \in SUBSET Req : Overtake(ks, "gone")
    BY DEF Comes, ReviewBegin, clearAll, ApproveRead, Reject, reviewOne, answerQuestion, Remove,
           ReviewSome, createManual, updateManual, deleteManual, jiraImport, ExtractReplace
  <1>6. \A p \in Client : \A k \in Req : work'[p][k] = "none"
    BY <1>4, <1>5, Overtaken DEF ReviewType, Works
  <1>7. UNCHANGED rpc \/ \E p \in {"start", "approve", "ask", "read", "markRead", "ready"} : Step(q, p)
    BY DEF Comes, ReviewBegin, clearAll, ApproveRead, Reject, reviewOne, answerQuestion,
           ReviewSome, createManual, updateManual, deleteManual, jiraImport, ExtractReplace
  <1>8. /\ \A p \in Client : p # q => rpc'[p] = "idle"
        /\ rpc'[q] \in {"idle", "start", "approve", "ask", "read", "markRead", "ready"}
    BY <1>3, <1>7 DEF Step, ReviewType
  <1> QED BY <1>1, <1>2, <1>3, <1>6, <1>8

\* A step of a request, but the start of a review, keeps the history.
LEMMA StepAlone ==
  ASSUME ReviewType, Reads, Undisturbed, NEW q \in Client, ReviewStep(q) \/ SomeStep(q)
  PROVE  /\ rpc[q] # "idle"
         /\ \A p \in Client : p # q => rpc[p] = "idle" /\ rpc'[p] = "idle"
         /\ \A p \in Client : \A k \in Req : work'[p][k] \in {"none", "same"}
         /\ ~ReviewStart(q) => UNCHANGED <<crossed, rejected, unmarked>>
PROOF
  <1> USE DEF text, notes, projectRow, handlers, past
  <1>1. rpc[q] # "idle"
    BY DEF ReviewStep, SomeStep, ReviewStart, ReviewClear, ReviewLoad, Analyse, AllAnalysed, DetectConflicts,
           Unstale, ReviewComplete, ReviewReport, ReviewThrows, RecordFailure, FailUnrecorded, ReadOne, AnalyseOne, AbandonOne, ExtractReady,
           MarkRead, MarkWrite, ApproveWrite, RejectAsk
  <1>2. \A p \in Client : p # q => rpc[p] = "idle" BY <1>1 DEF Undisturbed
  <1>3. UNCHANGED rpc \/ \E p \in Steps : Step(q, p)
    BY DEF ReviewStep, SomeStep, ReviewStart, ReviewClear, ReviewLoad, Analyse, AllAnalysed, DetectConflicts,
           Unstale, ReviewComplete, ReviewReport, ReviewThrows, RecordFailure, FailUnrecorded, ReadOne, AnalyseOne, AbandonOne, ExtractReady,
           MarkRead, MarkWrite, ApproveWrite, RejectAsk, Steps, Reviewing
  <1>4. \A p \in Client : p # q => rpc'[p] = "idle" BY <1>2, <1>3 DEF Step, ReviewType
  <1>5. ~ReviewStart(q) => UNCHANGED <<crossed, rejected, unmarked>>
    BY DEF ReviewStep, SomeStep, ReviewClear, ReviewLoad, Analyse, AllAnalysed, DetectConflicts,
           Unstale, ReviewComplete, ReviewReport, ReviewThrows, RecordFailure, FailUnrecorded, ReadOne, AnalyseOne, AbandonOne, ExtractReady,
           MarkRead, MarkWrite, ApproveWrite, RejectAsk
  <1>6. \A p \in Client : \A k \in Req : work'[p][k] \in {"none", "same"}
    <2>1. CASE UNCHANGED work BY <2>1 DEF Undisturbed
    <2>2. CASE work' = [work EXCEPT ![q] = NoWork] BY <2>2 DEF Undisturbed, ReviewType, NoWork
    <2>3. CASE ReviewLoad(q) BY <2>3 DEF ReviewLoad, Undisturbed, ReviewType
    <2>4. ASSUME NEW k \in Req, NEW outcome \in {"clear", "blocked"}, NEW asks \in BOOLEAN, Persist(q, k, outcome, asks)
          PROVE  \A p \in Client : \A j \in Req : work'[p][j] \in {"none", "same"}
      <3>1. \A p \in Client : \A j \in Req : work'[p][j] = work[p][j] \/ work'[p][j] = "none"
        BY <2>4, Persisted
      <3> QED BY <3>1 DEF Undisturbed
    <2>5. CASE Analyse(q)
      <3>1. First(Unread(q)) \in Req BY <2>5, FirstIsOne DEF Analyse, Unread
      <3> QED BY <2>4, <2>5, <3>1 DEF Analyse
    <2>6. CASE AnalyseOne(q) BY <2>4, <2>6 DEF AnalyseOne, Unread
    <2>7. CASE ReadOne(q)
      <3>1. First(next[q]) \in Req BY <2>7, FirstIsOne DEF ReadOne, ReviewType
      <3>2. work' = [work EXCEPT ![q][First(next[q])] = "same"] \/ UNCHANGED work BY <2>7 DEF ReadOne
      <3> HIDE DEF First
      <3> QED BY <2>1, <3>1, <3>2 DEF Undisturbed, ReviewType
    <2>8. \/ UNCHANGED work \/ work' = [work EXCEPT ![q] = NoWork]
          \/ ReviewLoad(q) \/ Analyse(q) \/ AnalyseOne(q) \/ ReadOne(q)
      BY DEF ReviewStep, SomeStep, ReviewStart, ReviewClear, AllAnalysed, DetectConflicts,
           Unstale, ReviewComplete, ReviewReport, ReviewThrows, RecordFailure, FailUnrecorded, AbandonOne, ExtractReady,
           MarkRead, MarkWrite, ApproveWrite, RejectAsk
    <2> QED BY <2>1, <2>2, <2>3, <2>5, <2>6, <2>7, <2>8
  <1> QED BY <1>1, <1>2, <1>4, <1>5, <1>6

\* A review that starts alone: nobody else holds anything.
LEMMA StartAlone ==
  ASSUME ReviewType, Reads, NEW q \in Client, ReviewStart(q), ~crossed'
  PROVE  /\ \A p \in Client : p # q => rpc'[p] = "idle"
         /\ rpc'[q] = "clear"
         /\ \A p \in Client : \A k \in Req : work'[p][k] = "none"
PROOF
  <1>1. \A p \in Client : p # q => rpc[p] = "idle" BY DEF ReviewStart
  <1>2. rpc[q] = "start" BY DEF ReviewStart
  <1>3. \A p \in Client : Unread(p) = {} BY <1>1, <1>2 DEF Reads
  <1>4. UNCHANGED work BY DEF ReviewStart
  <1> QED BY <1>1, <1>3, <1>4 DEF ReviewStart, Step, ReviewType, Unread

LEMMA DecidedComes ==
  ASSUME ReviewType, Reads, Undisturbed, Decided, NEW q \in Client, Comes(q), ~crossed'
  PROVE  Undisturbed' /\ Decided'
PROOF
  <1> USE DEF text, notes, projectRow, handlers, past
  <1>1. /\ \A p \in Client : rpc[p] = "idle" /\ (p # q => rpc'[p] = "idle")
        /\ rpc'[q] \in {"idle", "start", "approve", "ask", "read", "markRead", "ready"}
        /\ \A p \in Client : \A k \in Req : work'[p][k] = "none"
    BY ComesAlone
  <1>2. Undisturbed' BY <1>1 DEF Undisturbed
  <1>3. \A p \in Client : rpc'[p] \notin Reviewing \ {"start"} BY <1>1 DEF Reviewing
  <1>4. rpc'[q] = "approve" => ApproveRead(q)
    BY <1>1 DEF Comes, ReviewBegin, clearAll, Reject, reviewOne, answerQuestion, Step, ReviewType,
           ReviewSome, createManual, updateManual, deleteManual, jiraImport, ExtractReplace
  <1>5. rpc'[q] = "ready" => ExtractReplace(q, listed')
    BY <1>1 DEF Comes, ReviewBegin, clearAll, ApproveRead, Reject, reviewOne, answerQuestion, Step, ReviewType,
           ReviewSome, createManual, updateManual, deleteManual, jiraImport, ExtractReplace
  <1>6. rpc'[q] = "approve" => analysis' = "COMPLETED" /\ question' = {} /\ conflict' = {}
    BY <1>4 DEF ApproveRead, canApprove
  <1>7. rpc'[q] = "ready" => unmarked' BY <1>5 DEF ExtractReplace
  <1>8. rejected' => analysis' # "COMPLETED"
    BY DEF Decided, Comes, ReviewBegin, clearAll, ApproveRead, Reject, reviewOne, answerQuestion,
           ReviewSome, createManual, updateManual, deleteManual, jiraImport, ExtractReplace
  <1> QED BY <1>1, <1>2, <1>3, <1>6, <1>7, <1>8 DEF Decided

LEMMA DecidedStep ==
  ASSUME ReviewType, Reads, ~crossed => Undisturbed /\ Decided, ReviewNext, ~crossed'
  PROVE  Undisturbed' /\ Decided'
PROOF
  <1> USE DEF text, notes, projectRow, handlers, past
  <1>1. ASSUME NEW q \in Client, Comes(q) PROVE Undisturbed' /\ Decided'
    BY <1>1, ComesAlone, DecidedComes
  <1>2. ASSUME NEW q \in Client, ReviewStart(q) PROVE Undisturbed' /\ Decided'
    <2>1. approved' = FALSE /\ rejected' = FALSE BY <1>2 DEF ReviewStart
    <2> QED BY <1>2, <2>1, StartAlone DEF Undisturbed, Decided
  <1>3. ASSUME NEW q \in Client, ReviewStep(q) \/ SomeStep(q), ~ReviewStart(q) PROVE Undisturbed' /\ Decided'
    <2>1. ~crossed
      BY <1>3 DEF ReviewStep, SomeStep, ReviewClear, ReviewLoad, Analyse, AllAnalysed, DetectConflicts,
           Unstale, ReviewComplete, ReviewReport, ReviewThrows, RecordFailure, FailUnrecorded, ReadOne, AnalyseOne, AbandonOne, ExtractReady,
           MarkRead, MarkWrite, ApproveWrite, RejectAsk
    <2>2. Undisturbed /\ Decided BY <2>1
    <2>3. /\ \A p \in Client : p # q => rpc[p] = "idle" /\ rpc'[p] = "idle"
          /\ \A p \in Client : \A k \in Req : work'[p][k] \in {"none", "same"}
          /\ UNCHANGED <<rejected, unmarked>>
      BY <1>3, <2>2, StepAlone
    <2>4. Undisturbed' BY <2>3 DEF Undisturbed
    <2>5. rpc'[q] # "approve" /\ rpc'[q] # "ready"
      BY <1>3 DEF ReviewStep, SomeStep, ReviewClear, ReviewLoad, Analyse, AllAnalysed, DetectConflicts,
           Unstale, ReviewComplete, ReviewReport, ReviewThrows, RecordFailure, FailUnrecorded, ReadOne, AnalyseOne, AbandonOne, ExtractReady,
           MarkRead, MarkWrite, ApproveWrite, RejectAsk, Step, ReviewType
    <2>6. rpc'[q] \in Reviewing \ {"start"} => rpc[q] \in Reviewing \ {"start"} /\ approved' = approved
      BY <1>3 DEF ReviewStep, SomeStep, ReviewClear, ReviewLoad, Analyse, AllAnalysed, DetectConflicts,
           Unstale, ReviewComplete, ReviewReport, ReviewThrows, RecordFailure, FailUnrecorded, ReadOne, AnalyseOne, AbandonOne, ExtractReady,
           MarkRead, MarkWrite, ApproveWrite, RejectAsk, Step, ReviewType, Reviewing
    <2>7. analysis' = "COMPLETED" => analysis = "COMPLETED" \/ rpc[q] = "complete"
      BY <1>3 DEF ReviewStep, SomeStep, ReviewClear, ReviewLoad, Analyse, AllAnalysed, DetectConflicts,
           Unstale, ReviewComplete, ReviewReport, ReviewThrows, RecordFailure, FailUnrecorded, ReadOne, AnalyseOne, AbandonOne, ExtractReady,
           MarkRead, MarkWrite, ApproveWrite, RejectAsk
    <2>8. rejected' => analysis' # "COMPLETED" BY <2>2, <2>3, <2>7 DEF Decided, Reviewing
    <2>9. rpc'[q] \in Reviewing \ {"start"} => ~approved' /\ ~rejected' BY <2>2, <2>3, <2>6 DEF Decided
    <2>10. \A p \in Client : rpc'[p] \in Reviewing \ {"start"} => p = q BY <2>3 DEF Reviewing
    <2> QED BY <2>3, <2>4, <2>5, <2>8, <2>9, <2>10 DEF Decided
  <1>4. CASE ReviewElsewhere BY <1>4 DEF ReviewElsewhere, Undisturbed, Decided
  <1>5. CASE Restart
    <2>1. ~crossed BY <1>5 DEF Restart
    <2>2. /\ \A p \in Client : rpc'[p] = "idle"
          /\ \A p \in Client : \A k \in Req : work'[p][k] = "none"
      BY <1>5 DEF Restart, NoWork
    <2>3. UNCHANGED <<rejected, analysis>> BY <1>5 DEF Restart
    <2> QED BY <2>1, <2>2, <2>3 DEF Undisturbed, Decided, Reviewing
  <1> QED BY <1>1, <1>2, <1>3, <1>4, <1>5, ReviewSteps

--------------------------------------------------------------------------------
(* What an analysis has seen.                                                 *)

Seen == fresh = listed

LEMMA CoveredComes ==
  ASSUME ReviewInv, NEW q \in Client, Comes(q), ~crossed', ~unmarked'
  PROVE  Covered'
PROOF
  <1> USE DEF text, notes, projectRow, handlers, past
  <1>1. /\ ~crossed /\ ~unmarked
        /\ \A p \in Client : rpc[p] = "idle" /\ (p # q => rpc'[p] = "idle")
        /\ rpc'[q] \in {"idle", "start", "approve", "ask", "read", "markRead", "ready"}
    BY ComesAlone DEF ReviewInv
  <1>2. Covered /\ ReviewType BY <1>1 DEF ReviewInv
  <1>3. analysis = "COMPLETED" => Seen BY <1>1, <1>2 DEF Covered, Seen
  <1>4. SUFFICES /\ approved' => analysis' = "COMPLETED"
                 /\ analysis' = "COMPLETED" => Seen' \/ rpc'[q] = "markRead"
    BY <1>1 DEF Covered, Seen
  <1>5. ASSUME UNCHANGED <<approved, analysis>>, Seen => Seen' \/ rpc'[q] = "markRead"
        PROVE  /\ approved' => analysis' = "COMPLETED"
               /\ analysis' = "COMPLETED" => Seen' \/ rpc'[q] = "markRead"
    BY <1>2, <1>3, <1>5 DEF Covered
  <1>6. CASE ReviewBegin(q) BY <1>5, <1>6 DEF ReviewBegin, Seen
  <1>7. CASE clearAll(q) BY <1>7 DEF clearAll
  <1>8. CASE ApproveRead(q) BY <1>5, <1>8 DEF ApproveRead, Seen
  <1>9. CASE Reject(q) BY <1>9 DEF Reject
  <1>10. ASSUME NEW ks, ReviewSome(q, ks) PROVE UNCHANGED <<approved, analysis>> /\ (Seen => Seen')
    BY <1>10 DEF ReviewSome, Seen
  <1>11. ASSUME NEW k \in Req, reviewOne(q, k) PROVE UNCHANGED <<approved, analysis>> /\ (Seen => Seen')
    BY <1>10, <1>11 DEF reviewOne
  <1>12. ASSUME NEW k \in Req, NEW related \in SUBSET listed, answerQuestion(q, k, related)
         PROVE  UNCHANGED <<approved, analysis>> /\ (Seen => Seen')
    BY <1>10, <1>12 DEF answerQuestion
  <1>13. ASSUME NEW k \in Req, createManual(q, k) PROVE UNCHANGED <<approved, analysis>> /\ rpc'[q] = "markRead"
    BY <1>2, <1>13 DEF createManual, Step, ReviewType
  <1>14. ASSUME NEW k \in Req, updateManual(q, k)
         PROVE  UNCHANGED <<approved, analysis>> /\ (Seen => rpc'[q] = "markRead")
    <2>1. Seen => review[k] # "none" BY <1>2, <1>14 DEF updateManual, Seen, ReviewType
    <2> QED BY <1>2, <1>14, <2>1 DEF updateManual, Step, ReviewType
  <1>15. ASSUME NEW k \in Req, deleteManual(q, k) PROVE UNCHANGED <<approved, analysis>> /\ rpc'[q] = "markRead"
    BY <1>2, <1>15 DEF deleteManual, Step, ReviewType
  <1>16. ASSUME NEW k \in Req PROVE ~jiraImport(q, k) BY <1>16 DEF jiraImport
  <1>17. ASSUME NEW ks \in SUBSET Req PROVE ~ExtractReplace(q, ks) BY <1>17 DEF ExtractReplace
  <1> QED BY <1>5, <1>6, <1>7, <1>8, <1>9, <1>11, <1>12, <1>13, <1>14, <1>15, <1>16, <1>17 DEF Comes

\* The rows that a step of a review has seen.
LEMMA SeenMore ==
  ASSUME ReviewInv, ~crossed, ~unmarked, NEW q \in Client, NEW k \in Req,
         NEW outcome \in {"clear", "blocked"}, NEW asks \in BOOLEAN, Persist(q, k, outcome, asks), UNCHANGED listed
  PROVE  /\ Seen => Seen'
         /\ rpc[q] = "analyse" => \A j \in listed' : j \in fresh' \/ work'[q][j] = "same"
PROOF
  <1>1. ReviewType /\ Reads /\ Undisturbed /\ Covered BY DEF ReviewInv
  <1>2. work[q][k] = "same" BY <1>1 DEF Persist, Undisturbed
  <1>3. /\ k \in listed /\ fresh' = fresh \union {k}
        /\ \A p \in Client : \A j \in Req : <<p, j>> # <<q, k>> => work'[p][j] = work[p][j]
    BY <1>1, <1>2, Persisted
  <1>4. Seen => Seen' BY <1>3 DEF Seen
  <1>5. ASSUME rpc[q] = "analyse", NEW j \in listed' PROVE j \in fresh' \/ work'[q][j] = "same"
    <2>1. j \in listed /\ j \in Req BY <1>1, <1>5 DEF ReviewType
    <2>2. j \in fresh \/ work[q][j] = "same" BY <1>1, <1>5, <2>1 DEF Covered
    <2>3. CASE j = k BY <1>3, <2>3
    <2>4. CASE j # k BY <1>3, <2>1, <2>2, <2>4
    <2> QED BY <2>3, <2>4
  <1> QED BY <1>4, <1>5

LEMMA CoveredStep ==
  ASSUME ReviewInv, ReviewNext, ~crossed', ~unmarked'
  PROVE  Covered'
PROOF
  <1> USE DEF text, notes, projectRow, handlers, past
  <1>1. ReviewType /\ Reads /\ (~crossed => Undisturbed /\ Decided) BY DEF ReviewInv
  <1>2. ASSUME NEW q \in Client, ReviewStart(q) PROVE Covered'
    <2>1. approved' = FALSE /\ analysis' = "RUNNING" BY <1>2 DEF ReviewStart
    <2>2. \A p \in Client : rpc'[p] \in {"idle", "clear"} BY <1>1, <1>2, StartAlone
    <2> QED BY <2>1, <2>2 DEF Covered
  <1>3. ASSUME NEW q \in Client, ReviewStep(q) \/ SomeStep(q), ~ReviewStart(q) PROVE Covered'
    <2>1. ~crossed /\ ~unmarked
      BY <1>3 DEF ReviewStep, SomeStep, ReviewClear, ReviewLoad, Analyse, AllAnalysed, DetectConflicts,
           Unstale, ReviewComplete, ReviewReport, ReviewThrows, RecordFailure, FailUnrecorded, ReadOne, AnalyseOne, AbandonOne, ExtractReady,
           MarkRead, MarkWrite, ApproveWrite, RejectAsk
    <2>2. Undisturbed /\ Decided /\ Covered BY <2>1 DEF ReviewInv
    <2>3. \A p \in Client : p # q => rpc[p] = "idle" /\ rpc'[p] = "idle" BY <1>1, <1>3, <2>2, StepAlone
    <2>4. /\ approved => analysis = "COMPLETED"
          /\ analysis = "COMPLETED" => Seen \/ rpc[q] \in {"markRead", "markWrite"}
          /\ rpc[q] = "markWrite" /\ analysis = "COMPLETED" => mark[q] = "withdraw"
          /\ rpc[q] = "analyse" => \A k \in listed : k \in fresh \/ work[q][k] = "same"
          /\ rpc[q] \in {"conflicts", "unstale", "complete"} => Seen
      BY <2>2, <2>3 DEF Covered, Seen
    <2> DEFINE After == /\ approved' => analysis' = "COMPLETED"
                        /\ analysis' = "COMPLETED" => Seen' \/ rpc'[q] \in {"markRead", "markWrite"}
                        /\ rpc'[q] = "markWrite" /\ analysis' = "COMPLETED" => mark'[q] = "withdraw"
                        /\ rpc'[q] = "analyse" => \A k \in listed' : k \in fresh' \/ work'[q][k] = "same"
                        /\ rpc'[q] \in {"conflicts", "unstale", "complete"} => Seen'
    <2>5. SUFFICES After BY <2>3 DEF Covered, Seen
    <2>6. ASSUME UNCHANGED <<approved, analysis>>, Seen => Seen', rpc[q] \notin {"markRead", "markWrite"},
                 NEW p, Step(q, p), p \notin {"markWrite", "analyse"},
                 p \in {"conflicts", "unstale", "complete"} => Seen'
          PROVE  After
      BY <1>1, <2>4, <2>6 DEF Step, ReviewType
    <2>7. CASE ReviewClear(q) BY <2>6, <2>7 DEF ReviewClear, Seen
    <2>8. CASE ReviewLoad(q)
      <3>1. rpc'[q] = "analyse" /\ \A k \in listed : work'[q][k] = "same"
        BY <1>1, <2>8 DEF ReviewLoad, Step, ReviewType
      <3>2. UNCHANGED <<approved, analysis, listed, fresh>> /\ rpc[q] = "load" BY <2>8 DEF ReviewLoad
      <3> QED BY <2>4, <3>1, <3>2 DEF Seen
    <2>9. CASE Analyse(q)
      <3>1. First(Unread(q)) \in Req BY <2>9, FirstIsOne DEF Analyse, Unread
      <3>2. PICK outcome \in {"clear", "blocked"}, asks \in BOOLEAN : Persist(q, First(Unread(q)), outcome, asks)
        BY <2>9 DEF Analyse
      <3>3. UNCHANGED <<approved, analysis, listed, rpc>> /\ rpc[q] = "analyse" BY <2>9 DEF Analyse
      <3>4. (Seen => Seen') /\ \A j \in listed' : j \in fresh' \/ work'[q][j] = "same"
        BY <2>1, <3>1, <3>2, <3>3, SeenMore
      <3> QED BY <2>4, <3>3, <3>4
    <2>10. CASE AllAnalysed(q)
      <3>1. Unread(q) = {} /\ rpc[q] = "analyse" BY <2>10 DEF AllAnalysed
      <3>2. \A k \in listed : k \in fresh BY <1>1, <2>4, <3>1 DEF Unread, ReviewType
      <3>3. Seen BY <1>1, <3>2 DEF Seen, ReviewType
      <3>4. Seen' BY <2>10, <3>3 DEF AllAnalysed, Seen
      <3> QED BY <2>6, <2>10, <3>4 DEF AllAnalysed
    <2>11. CASE DetectConflicts(q)
      <3>1. (Step(q, "unstale") /\ rpc[q] = "conflicts") \/ Step(q, "idle") BY <2>11 DEF DetectConflicts
      <3>2. UNCHANGED <<approved, analysis, listed, fresh>> /\ rpc[q] \notin {"markRead", "markWrite"}
        BY <2>11 DEF DetectConflicts
      <3>3. rpc[q] = "conflicts" => Seen' BY <2>4, <3>2 DEF Seen
      <3>4. Seen => Seen' BY <3>2 DEF Seen
      <3> QED BY <2>6, <3>1, <3>2, <3>3, <3>4
    <2>12. CASE Unstale(q)
      <3>1. Seen' BY <2>4, <2>12 DEF Unstale, Seen
      <3> QED BY <2>6, <2>12, <3>1 DEF Unstale
    <2>13. CASE ReviewComplete(q)
      <3>1. Seen' BY <2>4, <2>13 DEF ReviewComplete, Seen
      <3>2. rpc'[q] = "report" /\ analysis' = "COMPLETED" BY <1>1, <2>13 DEF ReviewComplete, Step, ReviewType
      <3> QED BY <3>1, <3>2
    <2>14. CASE ReviewThrows(q)
      <3>1. Seen => Seen' BY <2>14 DEF ReviewThrows, Seen
      <3> QED BY <2>6, <2>14, <3>1 DEF ReviewThrows
    <2>15. CASE RecordFailure(q)
      <3>1. ~approved' BY <2>2, <2>15 DEF RecordFailure, Decided, Reviewing
      <3>2. rpc'[q] = "idle" /\ analysis' = "FAILED" BY <1>1, <2>15 DEF RecordFailure, Step, ReviewType
      <3> QED BY <3>1, <3>2
    <2>16. CASE ReadOne(q)
      <3>1. UNCHANGED <<approved, analysis, listed, fresh>> /\ rpc[q] = "read" BY <2>16 DEF ReadOne
      <3>2. rpc'[q] \in {"read", "analyseOne"} BY <1>1, <2>16 DEF ReadOne, Step, ReviewType
      <3> QED BY <2>4, <3>1, <3>2 DEF Seen
    <2>17. CASE AnalyseOne(q)
      <3>1. PICK k \in Unread(q), outcome \in {"clear", "blocked"}, asks \in BOOLEAN : Persist(q, k, outcome, asks)
        BY <2>17 DEF AnalyseOne
      <3>2. Seen => Seen' BY <2>1, <2>17, <3>1, SeenMore DEF AnalyseOne, Unread
      <3>3. Step(q, "conflictsOne") \/ Step(q, "read") BY <2>17 DEF AnalyseOne
      <3>4. UNCHANGED <<approved, analysis>> /\ rpc[q] = "analyseOne" BY <2>17 DEF AnalyseOne
      <3> QED BY <2>6, <3>2, <3>3, <3>4
    <2>18. CASE AbandonOne(q)
      <3>1. Seen => Seen' BY <2>18 DEF AbandonOne, Seen
      <3> QED BY <2>6, <2>18, <3>1 DEF AbandonOne
    <2>19. ~ExtractReady(q) BY <2>1, <2>2 DEF ExtractReady, Decided
    <2>20. CASE MarkRead(q)
      <3>1. rpc'[q] = "markWrite" BY <1>1, <2>20 DEF MarkRead, Step, ReviewType
      <3>2. analysis = "COMPLETED" => mark'[q] = "withdraw" BY <1>1, <2>20 DEF MarkRead, ReviewType
      <3>3. UNCHANGED <<approved, analysis>> BY <2>20 DEF MarkRead
      <3> QED BY <2>4, <3>1, <3>2, <3>3
    <2>21. CASE MarkWrite(q)
      <3>1. rpc'[q] = "idle" /\ rpc[q] = "markWrite" BY <1>1, <2>21 DEF MarkWrite, Step, ReviewType
      <3>2. analysis' # "COMPLETED" /\ ~approved'
        <4>1. approved' = (approved /\ mark[q] # "withdraw") BY <2>21 DEF MarkWrite
        <4>2. analysis' = IF mark[q] = "withdraw" THEN "STALE" ELSE analysis BY <2>21 DEF MarkWrite
        <4> QED BY <2>4, <3>1, <4>1, <4>2
      <3> QED BY <3>1, <3>2
    <2>22. CASE ApproveWrite(q)
      <3>1. rpc'[q] = "idle" /\ rpc[q] = "approve" BY <1>1, <2>22 DEF ApproveWrite, Step, ReviewType
      <3>2. analysis = "COMPLETED" BY <2>2, <3>1 DEF Decided
      <3>3. UNCHANGED <<analysis, listed, fresh>> BY <2>22 DEF ApproveWrite
      <3> QED BY <2>4, <3>1, <3>2, <3>3 DEF Seen
    <2>23. CASE RejectAsk(q)
      <3>1. Seen => Seen' BY <2>23 DEF RejectAsk, Seen
      <3> QED BY <2>6, <2>23, <3>1 DEF RejectAsk
    <2>24. CASE ReviewReport(q) BY <2>6, <2>24 DEF ReviewReport, Seen
    <2>25. CASE FailUnrecorded(q) BY <2>6, <2>25 DEF FailUnrecorded, Seen
    <2> QED BY <1>3, <2>7, <2>8, <2>9, <2>10, <2>11, <2>12, <2>13, <2>14, <2>15, <2>16, <2>17, <2>18,
               <2>19, <2>20, <2>21, <2>22, <2>23, <2>24, <2>25 DEF ReviewStep, SomeStep
  <1>4. CASE ReviewElsewhere
    <2>1. Covered BY <1>4 DEF ReviewElsewhere, ReviewInv
    <2> QED BY <1>4, <2>1 DEF ReviewElsewhere, Covered
  <1>5. CASE Restart
    <2>1. ~crossed /\ ~unmarked /\ AtRest BY <1>5 DEF Restart
    <2>2. Covered BY <2>1 DEF ReviewInv
    <2>3. \A p \in Client : rpc[p] = "idle" /\ rpc'[p] = "idle" BY <1>1, <1>5, <2>1 DEF Restart, AtRest, ReviewType
    <2>4. UNCHANGED <<approved, analysis, fresh, listed>> BY <1>5 DEF Restart
    <2> QED BY <2>2, <2>3, <2>4 DEF Covered
  <1> QED BY <1>2, <1>3, <1>4, <1>5, CoveredComes, ReviewSteps

LEMMA ReviewInvStep ==
  ASSUME ReviewInv, [ReviewNext]_reviewVars
  PROVE  ReviewInv'
PROOF
  <1>1. CASE ReviewNext
    <2>1. ReviewType /\ Reads /\ (~crossed => Undisturbed /\ Decided) BY DEF ReviewInv
    <2>2. ReviewType' /\ Reads' BY <1>1, <2>1, ReviewTypeStep, ReadsStep
    <2>3. ~crossed' => Undisturbed' /\ Decided' BY <1>1, <2>1, DecidedStep
    <2>4. ~crossed' /\ ~unmarked' => Covered' BY <1>1, CoveredStep
    <2> QED BY <2>2, <2>3, <2>4 DEF ReviewInv
  <1>2. CASE UNCHANGED reviewVars
    <2> USE <1>2 DEF reviewVars, text, notes, projectRow, handlers, past
    <2>1. ReviewType' BY DEF ReviewInv, ReviewType
    <2>2. Reads' BY DEF ReviewInv, Reads, Unread
    <2>3. ~crossed' => Undisturbed' /\ Decided' BY DEF ReviewInv, Undisturbed, Decided
    <2>4. ~crossed' /\ ~unmarked' => Covered' BY DEF ReviewInv, Covered
    <2> QED BY <2>1, <2>2, <2>3, <2>4 DEF ReviewInv
  <1> QED BY <1>1, <1>2

\* An approval that is given without overlap is given on the row that the request has read.
LEMMA ApprovedOnRecord ==
  ASSUME ReviewInv, ReviewNext, Approves, ~crossed
  PROVE  /\ analysis = "COMPLETED" /\ question = {} /\ conflict = {} /\ ~rejected
         /\ ~unmarked => fresh = listed
PROOF
  <1> USE DEF text, notes, projectRow, handlers, past
  <1>1. PICK q \in Client : ApproveWrite(q)
    <2>1. ASSUME NEW q \in Client, Comes(q) PROVE FALSE
      BY <2>1 DEF Approves, Comes, ReviewBegin, clearAll, ApproveRead, Reject, reviewOne, answerQuestion,
           ReviewSome, createManual, updateManual, deleteManual, jiraImport, ExtractReplace
    <2>2. ASSUME NEW q \in Client, ReviewStep(q) PROVE FALSE
      BY <2>2 DEF Approves, ReviewStep, ReviewStart, ReviewClear, ReviewLoad, Analyse, AllAnalysed, DetectConflicts,
           Unstale, ReviewComplete, ReviewReport, ReviewThrows, RecordFailure, FailUnrecorded
    <2>3. ASSUME NEW q \in Client, SomeStep(q) PROVE ApproveWrite(q)
      BY <2>3 DEF Approves, SomeStep, ReadOne, AnalyseOne, AbandonOne, ExtractReady, MarkRead, MarkWrite, RejectAsk
    <2>4. ~ReviewElsewhere /\ ~Restart BY DEF Approves, ReviewElsewhere, Restart
    <2> QED BY <2>1, <2>2, <2>3, <2>4, ReviewSteps
  <1>2. rpc[q] = "approve" BY <1>1 DEF ApproveWrite
  <1>3. Undisturbed /\ Decided BY DEF ReviewInv
  <1>4. analysis = "COMPLETED" /\ question = {} /\ conflict = {} /\ ~rejected BY <1>2, <1>3 DEF Decided
  <1>5. \A p \in Client : rpc[p] \notin {"markRead", "markWrite"} BY <1>2, <1>3 DEF Undisturbed
  <1>6. ~unmarked => fresh = listed BY <1>4, <1>5 DEF ReviewInv, Covered
  <1> QED BY <1>4, <1>6

\* The tables of the review are well typed in every reachable state: a question and a conflict
\* hang on rows that are there, and no analysis is recorded for a row that is gone.
THEOREM ReviewTyped == ReviewSpec => []ReviewType
PROOF
  <1>1. ReviewInv => ReviewType BY DEF ReviewInv
  <1> QED BY <1>1, ReviewInitInv, ReviewInvStep, PTL DEF ReviewSpec

\* An approval never outlives the text it was given for, for any number of requirements and of
\* requests, while none overlap and nothing comes in unmarked.
THEOREM ApprovalCovers == ReviewSpec => []ApprovalCoversText
PROOF
  <1>1. ASSUME ReviewInv PROVE ApprovalCoversText
    <2> SUFFICES ASSUME approved, AtRest, ~crossed, ~unmarked PROVE fresh = listed
      BY DEF ApprovalCoversText
    <2>1. Covered /\ ReviewType BY <1>1 DEF ReviewInv
    <2>2. \A q \in Client : rpc[q] = "idle" BY <2>1 DEF AtRest, ReviewType
    <2> QED BY <2>1, <2>2 DEF Covered
  <1> QED BY <1>1, ReviewInitInv, ReviewInvStep, PTL DEF ReviewSpec

\* What is approved was analysed, every row of it as it stands, and nothing is open about it.
THEOREM ApprovedWasAnalysed == ReviewSpec => ApprovedAsAnalysed
PROOF
  <1>1. ReviewInv /\ [ReviewNext]_reviewVars
          => [Approves /\ ~crossed /\ ~unmarked => fresh = listed /\ question = {} /\ conflict = {}]_reviewVars
    BY ApprovedOnRecord
  <1> QED BY <1>1, ReviewInitInv, ReviewInvStep, PTL DEF ReviewSpec, ApprovedAsAnalysed

\* A rejection holds until a new analysis begins.
THEOREM RejectionHolds == ReviewSpec => RejectionNeedsAnalysis
PROOF
  <1>1. ReviewInv /\ [ReviewNext]_reviewVars => [Approves /\ ~crossed => ~rejected]_reviewVars
    BY ApprovedOnRecord
  <1> QED BY <1>1, ReviewInitInv, ReviewInvStep, PTL DEF ReviewSpec, RejectionNeedsAnalysis
=============================================================================
