------------------------- MODULE ThreadQueueProofs -------------------------
(***************************************************************************)
(* Theorems about ThreadQueue, for any threads, handlers, delays, clock    *)
(* and bounds: its type invariant, that no wake-up is lost (NoLostWakeUp), *)
(* and that nothing dangles (NothingDangles).                              *)
(*                                                                         *)
(* The inductive invariant says of a thread's stack that it is a nesting   *)
(* of calls the code makes (Shape), of the queues that their messages      *)
(* reach live handlers of that thread (Homes) and are numbered (Numbered), *)
(* of every flag that is still to be written that it is the flag of one    *)
(* waiting Send and promised once (Pledges), and of every Wait a thread is *)
(* inside of, not only the innermost, that what it waits for is still      *)
(* signalled, owed to it by a Send above it that has reset the signal, or  *)
(* about to be signalled (Wakes).                                          *)
(*                                                                         *)
(* A step moves the innermost frame, pushes one, or pops one.  What each   *)
(* of these does to a stack is shown once; a step's proof then only says   *)
(* what is new in the queues, the flags and the signals.                   *)
(***************************************************************************)
EXTENDS ThreadQueue, ListLemmas, SequenceTheorems, TLAPS

-----------------------------------------------------------------------------
(* The inductive invariant                                                 *)

\* A frame is at a place of its call.
AtPlace(f) ==
    /\ f.op = "Get" => f.pc \in {"sends", "scan", "again", "stop", "wait", "done"}
    /\ f.op = "ReceiveSends" => f.pc \in {"loop", "done"}
    /\ f.op = "Body" => f.pc = "run"
    /\ f.op = "Send" => f.pc \in {"push", "wake", "test", "wait"}
    /\ f.op = "Quit" => f.pc = "wake"
    /\ f.op \in {"Post", "PostDelayed"} => f.pc = "push"

\* f is inside of a call of g.
Calls(f, g) ==
    \/ f.op = "Get" /\ f.pc = "scan" /\ g.op = "ReceiveSends"
    \/ f.op = "Get" /\ f.pc \in {"sends", "wait"} /\ g.op = "Body"
    \/ f.op = "ReceiveSends" /\ f.pc = "done" /\ g.op = "Body"
    \/ f.op = "Send" /\ f.pc = "wait" /\ g.op = "ReceiveSends"
    \/ f.op = "Body" /\ g.op \in {"Body", "Post", "PostDelayed", "Send", "Quit"}

WellFormed(s) ==
    /\ s[1].op = "Get"
    /\ \A i \in 1 .. Len(s) : AtPlace(s[i])
    /\ \A i \in 1 .. Len(s) : i > 1 => Calls(s[i - 1], s[i])

Shape == \A t \in Threads : WellFormed(stack[t])

\* The delayed messages of a queue are numbered.
Numbered ==
    \A t \in Threads :
        /\ IsFiniteSet(dmsgq[t])
        /\ \A d \in dmsgq[t] : d.num < dnum[t]
        /\ \A d, e \in dmsgq[t] : d.num = e.num => d = e

\* h may be called by thread t.
Reaches(h, t) == h \in Handlers => Home[h] = t /\ h \notin dead

PushHome(f) ==
    f.pc = "push" => /\ Reaches(f.h, f.to)
                     /\ f.op # "Post" => f.h \in Handlers
                     /\ f.op = "PostDelayed" => f.until # Forever

Homes ==
    \A t \in Threads :
        /\ \A i \in 1 .. Len(msgq[t]) : Reaches(msgq[t][i], t)
        /\ \A d \in dmsgq[t] : Reaches(d.h, t)
        /\ \A i \in 1 .. Len(sendlist[t]) : Reaches(sendlist[t][i].h, t)
        /\ \A i \in 1 .. Len(stack[t]) : PushHome(stack[t][i])

Done(f) == f.op = "ReceiveSends" /\ f.pc = "done"
LiveSend(f) == f.op = "Send" /\ f.pc \in {"wake", "test", "wait"}

\* The flag at address a is that of a Send that has queued its message.
Points(st, a) == a[2] \in 1 .. Len(st[a[1]]) /\ LiveSend(st[a[1]][a[2]])

QueuedPledges ==
    \A t \in Threads : \A i \in 1 .. Len(sendlist[t]) :
        /\ sendlist[t][i].thread = sendlist[t][i].ready[1]
        /\ Points(stack, sendlist[t][i].ready) /\ sendlist[t][i].ready \notin ready
        /\ \A u \in Threads : \A j \in 1 .. Len(sendlist[u]) :
              sendlist[u][j].ready = sendlist[t][i].ready => u = t /\ j = i

RunningPledges ==
    \A t \in Threads : \A i \in 1 .. Len(stack[t]) : Done(stack[t][i]) =>
        /\ stack[t][i].to = stack[t][i].ready[1]
        /\ Points(stack, stack[t][i].ready) /\ stack[t][i].ready \notin ready
        /\ \A u \in Threads : \A j \in 1 .. Len(stack[u]) :
              Done(stack[u][j]) /\ stack[u][j].ready = stack[t][i].ready => u = t /\ j = i
        /\ \A u \in Threads : \A j \in 1 .. Len(sendlist[u]) :
              sendlist[u][j].ready # stack[t][i].ready

Pledges ==
    /\ QueuedPledges
    /\ RunningPledges
    /\ \A a \in ready : Points(stack, a)

\* A Send above frame i has consumed a wake-up it will give back.
Owed(t, i) ==
    \E j \in 1 .. Len(stack[t]) : j > i /\ stack[t][j].op = "Send" /\ stack[t][j].waited

Quiet(t, i) == ~signaled[t] /\ ~Owed(t, i)

\* The Get at the bottom of the stack has served the sent messages.
Past(t) ==
    \/ stack[t][1].pc \in {"again", "stop", "wait"}
    \/ stack[t][1].pc = "scan" /\ Len(stack[t]) = 1

GetWakes(t) ==
    Quiet(t, 1) =>
        /\ Past(t) /\ sendlist[t] # <<>> => AboutToWake("Send", t)
        /\ stack[t][1].pc \in {"stop", "wait"} => msgq[t] = <<>>
        /\ stack[t][1].pc \in {"again", "stop"} /\ dmsgq[t] # {} => stack[t][1].delay # Forever
        /\ stack[t][1].pc = "wait" /\ dmsgq[t] # {} => stack[t][1].until # Forever
        /\ stack[t][1].pc = "wait" /\ fStop[t] => AboutToWake("Quit", t)

SendWakes(t) ==
    \A i \in 1 .. Len(stack[t]) :
        stack[t][i].op = "Send" /\ stack[t][i].pc = "wait" /\ Quiet(t, i) =>
            /\ <<t, i>> \notin ready
            /\ i = Len(stack[t]) /\ sendlist[t] # <<>> => AboutToWake("Send", t)

Wakes == \A t \in Threads : GetWakes(t) /\ SendWakes(t)

IInv == TypeOK /\ Shape /\ Numbered /\ Homes /\ Pledges /\ Wakes

-----------------------------------------------------------------------------
(* What the steps do to a stack                                            *)

\* r is s with its innermost frame replaced by f.
Moves(s, r, f) ==
    /\ Len(r) = Len(s) /\ r[Len(s)] = f
    /\ \A i \in 1 .. Len(s) : i < Len(s) => r[i] = s[i]

\* r is s with the call g on top.
Pushes(s, r, g) ==
    /\ Len(r) = Len(s) + 1 /\ r[Len(s) + 1] = g
    /\ \A i \in 1 .. Len(s) : r[i] = s[i]

\* r is s with its innermost frame replaced by f and the call g on top.
Enters(s, r, f, g) ==
    /\ Len(r) = Len(s) + 1 /\ r[Len(s) + 1] = g /\ r[Len(s)] = f
    /\ \A i \in 1 .. Len(s) : i < Len(s) => r[i] = s[i]

\* r is s without its innermost frame.
Pops(s, r) ==
    /\ Len(r) = Len(s) - 1
    /\ \A i \in 1 .. Len(s) : i < Len(s) => r[i] = s[i]

\* Taking the innermost frame off a stack.
LEMMA PopPops ==
    ASSUME NEW S, NEW s \in Seq(S), s # <<>>
    PROVE  Pop(s) \in Seq(S) /\ Pops(s, Pop(s))
  <1> DEFINE n == Len(s)
             p == SubSeq(s, 1, n - 1)
  <1>1. n \in Nat /\ n > 0 /\ \A i \in 1 .. n : s[i] \in S OBVIOUS
  <1> HIDE DEF n
  <1>2. \A i \in 1 .. n - 1 : s[i] \in S BY <1>1
  <1>3. 1 \in Int /\ n - 1 \in Int BY <1>1
  <1>4. /\ p \in Seq(S)
        /\ Len(p) = IF 1 <= n - 1 THEN (n - 1) - 1 + 1 ELSE 0
        /\ \A i \in 1 .. (n - 1) - 1 + 1 : p[i] = s[1 + i - 1]
    BY <1>2, <1>3, SubSeqProperties
  <1> HIDE DEF p
  <1>5. Len(p) = n - 1 BY <1>1, <1>4
  <1>6. \A i \in 1 .. n : i < n => p[i] = s[i]
    <2> TAKE i \in 1 .. n
    <2> HAVE i < n
    <2>1. i \in 1 .. (n - 1) - 1 + 1 /\ 1 + i - 1 = i BY <1>1
    <2> QED BY <1>4, <2>1
  <1>7. p = Pop(s) BY DEF p, n, Pop
  <1> QED BY <1>4, <1>5, <1>6, <1>7 DEF Pops, n

\* A call puts a frame on a stack.
LEMMA AppendPushes ==
    ASSUME NEW S, NEW s \in Seq(S), NEW g \in S
    PROVE  Append(s, g) \in Seq(S) /\ Pushes(s, Append(s, g), g)
  BY DEF Pushes

\* A call moves on: its frame is replaced.
LEMMA AppendMoves ==
    ASSUME NEW S, NEW s \in Seq(S), s # <<>>, NEW f \in S
    PROVE  Append(Pop(s), f) \in Seq(S) /\ Moves(s, Append(Pop(s), f), f)
  <1>1. Pop(s) \in Seq(S) /\ Pops(s, Pop(s)) BY PopPops
  <1>2. Len(s) \in Nat \ {0} OBVIOUS
  <1>3. /\ Append(Pop(s), f) \in Seq(S)
        /\ Pushes(Pop(s), Append(Pop(s), f), f)
    BY <1>1, AppendPushes
  <1> DEFINE p == Pop(s)
             r == Append(p, f)
  <1> HIDE DEF p, r
  <1>4. p \in Seq(S) /\ r \in Seq(S) /\ Pops(s, p) /\ Pushes(p, r, f)
    BY <1>1, <1>3 DEF p, r
  <1>5. Moves(s, r, f) BY <1>2, <1>4 DEF Pops, Pushes, Moves
  <1> QED BY <1>3, <1>5 DEF p, r

\* A call moves on and makes a call.
LEMMA AppendEnters ==
    ASSUME NEW S, NEW s \in Seq(S), s # <<>>, NEW f \in S, NEW g \in S
    PROVE  /\ Append(Append(Pop(s), f), g) \in Seq(S)
           /\ Enters(s, Append(Append(Pop(s), f), g), f, g)
  <1> DEFINE p == Append(Pop(s), f)
             r == Append(p, g)
  <1>1. p \in Seq(S) /\ Moves(s, p, f) BY AppendMoves
  <1> HIDE DEF p
  <1>2. r \in Seq(S) /\ Pushes(p, r, g) BY <1>1, AppendPushes
  <1> HIDE DEF r
  <1>3. Len(s) \in Nat \ {0} OBVIOUS
  <1>4. Enters(s, r, f, g) BY <1>1, <1>2, <1>3 DEF Moves, Pushes, Enters
  <1> QED BY <1>2, <1>4 DEF p, r

Stacks == stack \in [Threads -> Seq(Frames)] /\ \A t \in Threads : stack[t] # <<>>

\* Only the stack of t changes.
Alone(t) == \A u \in Threads : u # t => stack'[u] = stack[u]

\* The thread's innermost call moves on.
LEMMA MovedMoves ==
    ASSUME NEW t \in Threads, NEW f \in Frames, Stacks, stack' = Moved(t, f)
    PROVE  Stacks' /\ Moves(stack[t], stack'[t], f) /\ Alone(t)
  <1> DEFINE r == Append(Pop(stack[t]), f)
  <1>1. r \in Seq(Frames) /\ Moves(stack[t], r, f) BY AppendMoves DEF Stacks
  <1>2. stack' = [stack EXCEPT ![t] = r] BY DEF Moved
  <1>3. stack[t] \in Seq(Frames) /\ Len(stack[t]) # 0 BY DEF Stacks
  <1> HIDE DEF r
  <1>4. stack'[t] = r BY <1>2 DEF Stacks
  <1>5. r # <<>> BY <1>1, <1>3 DEF Moves
  <1> QED BY <1>1, <1>2, <1>4, <1>5 DEF Stacks, Alone

\* The thread's innermost call moves on and makes a call.
LEMMA CalledEnters ==
    ASSUME NEW t \in Threads, NEW f \in Frames, NEW g \in Frames, Stacks,
           stack' = Called(t, f, g)
    PROVE  Stacks' /\ Enters(stack[t], stack'[t], f, g) /\ Alone(t)
  <1> DEFINE r == Append(Append(Pop(stack[t]), f), g)
  <1>1. r \in Seq(Frames) /\ Enters(stack[t], r, f, g) BY AppendEnters DEF Stacks
  <1>2. stack' = [stack EXCEPT ![t] = r] BY DEF Called
  <1>3. stack[t] \in Seq(Frames) /\ Len(stack[t]) # 0 BY DEF Stacks
  <1> HIDE DEF r
  <1>4. stack'[t] = r BY <1>2 DEF Stacks
  <1>5. r # <<>> BY <1>1, <1>3 DEF Enters
  <1> QED BY <1>1, <1>2, <1>4, <1>5 DEF Stacks, Alone

\* The thread makes a call.
LEMMA AppendedPushes ==
    ASSUME NEW t \in Threads, NEW g \in Frames, Stacks,
           stack' = [stack EXCEPT ![t] = Append(@, g)]
    PROVE  Stacks' /\ Pushes(stack[t], stack'[t], g) /\ Alone(t)
  <1> DEFINE r == Append(stack[t], g)
  <1>1. r \in Seq(Frames) /\ Pushes(stack[t], r, g) BY AppendPushes DEF Stacks
  <1>2. stack' = [stack EXCEPT ![t] = r] OBVIOUS
  <1>3. stack[t] \in Seq(Frames) /\ Len(stack[t]) # 0 BY DEF Stacks
  <1> HIDE DEF r
  <1>4. stack'[t] = r BY <1>2 DEF Stacks
  <1>5. r # <<>> BY <1>1, <1>3 DEF Pushes
  <1> QED BY <1>1, <1>2, <1>4, <1>5 DEF Stacks, Alone

\* The thread returns from its innermost call.
LEMMA ReturnedPops ==
    ASSUME NEW t \in Threads, Stacks, stack' = Returned(t), Len(stack[t]) > 1
    PROVE  Stacks' /\ Pops(stack[t], stack'[t]) /\ Alone(t)
  <1> DEFINE r == Pop(stack[t])
  <1>1. r \in Seq(Frames) /\ Pops(stack[t], r) BY PopPops DEF Stacks
  <1>2. stack' = [stack EXCEPT ![t] = r] BY DEF Returned
  <1>3. stack[t] \in Seq(Frames) /\ Len(stack[t]) \in Nat BY DEF Stacks
  <1> HIDE DEF r
  <1>4. stack'[t] = r BY <1>2 DEF Stacks
  <1>5. r # <<>> BY <1>1, <1>3 DEF Pops
  <1> QED BY <1>1, <1>2, <1>4, <1>5 DEF Stacks, Alone

-----------------------------------------------------------------------------
(* The shape of a stack                                                    *)

\* A call that moves on within its own code leaves a stack of nested calls.
LEMMA ShapeMoves ==
    ASSUME NEW s \in Seq(Frames), s # <<>>, NEW r, NEW f, WellFormed(s), Moves(s, r, f),
           f.op = s[Len(s)].op, AtPlace(f)
    PROVE  WellFormed(r)
  <1> DEFINE n == Len(s)
  <1>1. n \in Nat \ {0} OBVIOUS
  <1> HIDE DEF n
  <1>2. /\ Len(s) = n /\ Len(r) = n /\ r[n] = f
        /\ \A i \in 1 .. n : i < n => r[i] = s[i]
    BY DEF Moves, n
  <1>3. \A i \in 1 .. n : r[i].op = s[i].op /\ AtPlace(r[i])
    BY <1>1, <1>2 DEF WellFormed
  <1>4. \A i \in 1 .. n : i > 1 => Calls(r[i - 1], r[i])
    <2> TAKE i \in 1 .. n
    <2> HAVE i > 1
    <2>1. i - 1 \in 1 .. n /\ i - 1 < n BY <1>1
    <2>2. Calls(s[i - 1], s[i]) BY <1>2 DEF WellFormed
    <2>3. r[i - 1] = s[i - 1] /\ r[i].op = s[i].op BY <1>2, <1>3, <2>1
    <2> QED BY <2>2, <2>3 DEF Calls
  <1> QED BY <1>1, <1>2, <1>3, <1>4 DEF WellFormed

\* So does a call of something its caller calls.
LEMMA ShapePushes ==
    ASSUME NEW s \in Seq(Frames), s # <<>>, NEW r, NEW g, WellFormed(s), Pushes(s, r, g),
           Calls(s[Len(s)], g), AtPlace(g)
    PROVE  WellFormed(r)
  <1> DEFINE n == Len(s)
  <1>1. n \in Nat \ {0} OBVIOUS
  <1> HIDE DEF n
  <1>2. /\ Len(s) = n /\ Len(r) = n + 1 /\ r[n + 1] = g
        /\ \A i \in 1 .. n : r[i] = s[i]
    BY DEF Pushes, n
  <1>3. \A i \in 1 .. n + 1 : AtPlace(r[i]) BY <1>1, <1>2 DEF WellFormed
  <1>4. \A i \in 1 .. n + 1 : i > 1 => Calls(r[i - 1], r[i])
    <2> TAKE i \in 1 .. n + 1
    <2> HAVE i > 1
    <2>1. i - 1 \in 1 .. n BY <1>1
    <2>2. CASE i = n + 1
      <3>1. i - 1 = n BY <1>1, <2>2
      <3> QED BY <1>2, <1>1, <2>2, <3>1
    <2>3. CASE i # n + 1
      <3>1. i \in 1 .. n BY <1>1, <2>3
      <3>2. r[i] = s[i] /\ r[i - 1] = s[i - 1] BY <1>2, <2>1, <3>1
      <3> QED BY <1>2, <3>1, <3>2 DEF WellFormed
    <2> QED BY <2>2, <2>3
  <1> QED BY <1>1, <1>2, <1>3, <1>4 DEF WellFormed

\* So does a call that moves on and makes such a call.
LEMMA ShapeEnters ==
    ASSUME NEW s \in Seq(Frames), s # <<>>, NEW r \in Seq(Frames), NEW f, NEW g,
           WellFormed(s), Enters(s, r, f, g),
           f.op = s[Len(s)].op, AtPlace(f), Calls(f, g), AtPlace(g)
    PROVE  WellFormed(r)
  <1> DEFINE n == Len(s)
             p == [i \in 1 .. n |-> r[i]]
  <1>1. n \in Nat \ {0} /\ Len(r) = n + 1 BY DEF Enters
  <1>2. p \in Seq(Frames) /\ Len(p) = n /\ \A i \in 1 .. n : p[i] = r[i] BY <1>1
  <1> HIDE DEF p, n
  <1>3. Moves(s, p, f) BY <1>1, <1>2 DEF Enters, Moves, n
  <1>4. WellFormed(p) BY <1>3, ShapeMoves
  <1>5. Pushes(p, r, g) /\ p[Len(p)] = f /\ p # <<>> BY <1>1, <1>2 DEF Enters, Pushes, n
  <1> QED BY <1>2, <1>4, <1>5, ShapePushes

\* So does a return.
LEMMA ShapePops ==
    ASSUME NEW s \in Seq(Frames), Len(s) > 1, NEW r, WellFormed(s), Pops(s, r)
    PROVE  WellFormed(r)
  <1> DEFINE n == Len(s)
  <1>1. n \in Nat /\ n > 1 OBVIOUS
  <1> HIDE DEF n
  <1>2. Len(s) = n /\ Len(r) = n - 1 /\ \A i \in 1 .. n : i < n => r[i] = s[i]
    BY DEF Pops, n
  <1>3. \A i \in 1 .. n - 1 : AtPlace(r[i]) BY <1>1, <1>2 DEF WellFormed
  <1>4. \A i \in 1 .. n - 1 : i > 1 => Calls(r[i - 1], r[i])
    <2> TAKE i \in 1 .. n - 1
    <2> HAVE i > 1
    <2>1. i - 1 \in 1 .. n /\ i \in 1 .. n /\ i < n /\ i - 1 < n BY <1>1
    <2>2. r[i] = s[i] /\ r[i - 1] = s[i - 1] BY <1>2, <2>1
    <2> QED BY <1>2, <2>1, <2>2 DEF WellFormed
  <1> QED BY <1>1, <1>2, <1>3, <1>4 DEF WellFormed

\* Only the bottom frame is a Get, and what is on top of a frame.
LEMMA GetAtBottom ==
    ASSUME NEW s \in Seq(Frames), s # <<>>, WellFormed(s)
    PROVE  /\ Last(s).op = "Get" => Len(s) = 1
           /\ Last(s).op # "Get" => Len(s) > 1
           /\ AtPlace(Last(s)) /\ Last(s) \in Frames
  <1>1. Len(s) \in 1 .. Len(s) /\ Len(s) \in Nat OBVIOUS
  <1>2. Len(s) > 1 => Calls(s[Len(s) - 1], s[Len(s)]) BY <1>1 DEF WellFormed
  <1>3. Len(s) > 1 => s[Len(s)].op # "Get" BY <1>2 DEF Calls
  <1>4. s[Len(s)].op # "Get" => Len(s) > 1
    <2>1. Len(s) = 1 => s[Len(s)].op = "Get" BY DEF WellFormed
    <2> QED BY <1>1, <2>1
  <1>5. s[Len(s)] \in Frames BY <1>1
  <1>6. AtPlace(s[Len(s)])
    <2>1. \A i \in 1 .. Len(s) : AtPlace(s[i]) BY DEF WellFormed
    <2> QED BY <1>1, <2>1
  <1>7. s[Len(s)].op = "Get" => Len(s) = 1
    <2> DEFINE n == Len(s)
    <2>0. n \in Nat /\ n >= 1 BY <1>1
    <2> HIDE DEF n
    <2>1. n > 1 \/ n = 1 BY <2>0
    <2> QED BY <2>1, <1>3 DEF n
  <1> QED BY <1>4, <1>5, <1>6, <1>7 DEF Last

-----------------------------------------------------------------------------
(* Steps that leave the flags alone                                        *)

\* Every frame of r is new or that of s.
Shift(s, r, New) ==
    \A i \in 1 .. Len(r) : r[i] \in New \/ (i \in 1 .. Len(s) /\ r[i] = s[i])

\* r promises no flag that s does not promise ...
SameDones(s, r) ==
    \A i \in 1 .. Len(r) : Done(r[i]) =>
        /\ i \in 1 .. Len(s) /\ Done(s[i])
        /\ r[i].ready = s[i].ready /\ r[i].to = s[i].to

\* ... and waits wherever s does.
SameSends(s, r) ==
    \A i \in 1 .. Len(s) : LiveSend(s[i]) => i \in 1 .. Len(r) /\ LiveSend(r[i])

Tame(s, r) == SameDones(s, r) /\ SameSends(s, r)

\* A call that moves on promises no flag and gives up no Send, unless its frame does.
LEMMA MovesTame ==
    ASSUME NEW s \in Seq(Frames), NEW r \in Seq(Frames), s # <<>>, NEW f, Moves(s, r, f)
    PROVE  /\ Shift(s, r, {f})
           /\ ~Done(f) /\ (LiveSend(s[Len(s)]) => LiveSend(f)) => Tame(s, r)
  <1> DEFINE n == Len(s)
  <1>1. n \in Nat \ {0} OBVIOUS
  <1> HIDE DEF n
  <1>2. /\ Len(s) = n /\ Len(r) = n /\ r[n] = f
        /\ \A i \in 1 .. n : i < n => r[i] = s[i]
    BY DEF Moves, n
  <1>3. \A i \in 1 .. n : i = n \/ i < n BY <1>1
  <1>4. Shift(s, r, {f}) BY <1>2, <1>3 DEF Shift
  <1>5. ASSUME ~Done(f), LiveSend(s[n]) => LiveSend(f) PROVE Tame(s, r)
    BY <1>2, <1>3, <1>5 DEF Tame, SameDones, SameSends
  <1> QED BY <1>4, <1>5 DEF n

\* Nor does a call, unless the new frame promises a flag.
LEMMA PushesTame ==
    ASSUME NEW s \in Seq(Frames), NEW r \in Seq(Frames), s # <<>>, NEW g, Pushes(s, r, g)
    PROVE  Shift(s, r, {g}) /\ (~Done(g) => Tame(s, r))
  <1> DEFINE n == Len(s)
  <1>1. n \in Nat \ {0} OBVIOUS
  <1> HIDE DEF n
  <1>2. /\ Len(s) = n /\ Len(r) = n + 1 /\ r[n + 1] = g
        /\ \A i \in 1 .. n : r[i] = s[i]
    BY DEF Pushes, n
  <1>3. \A i \in 1 .. n + 1 : i = n + 1 \/ i \in 1 .. n BY <1>1
  <1>4. \A i \in 1 .. n : i \in 1 .. n + 1 BY <1>1
  <1>5. Shift(s, r, {g}) BY <1>2, <1>3 DEF Shift
  <1>6. ASSUME ~Done(g) PROVE Tame(s, r) BY <1>2, <1>3, <1>4, <1>6 DEF Tame, SameDones, SameSends
  <1> QED BY <1>5, <1>6

\* Nor does a call that moves on and makes a call.
LEMMA EntersTame ==
    ASSUME NEW s \in Seq(Frames), NEW r \in Seq(Frames), s # <<>>, NEW f, NEW g,
           Enters(s, r, f, g)
    PROVE  /\ Shift(s, r, {f, g})
           /\ ~Done(f) /\ ~Done(g) /\ (LiveSend(s[Len(s)]) => LiveSend(f)) => Tame(s, r)
  <1> DEFINE n == Len(s)
  <1>1. n \in Nat \ {0} OBVIOUS
  <1> HIDE DEF n
  <1>2. /\ Len(s) = n /\ Len(r) = n + 1 /\ r[n + 1] = g /\ r[n] = f
        /\ \A i \in 1 .. n : i < n => r[i] = s[i]
    BY DEF Enters, n
  <1>3. \A i \in 1 .. n + 1 : i = n + 1 \/ i = n \/ (i \in 1 .. n /\ i < n) BY <1>1
  <1>4. \A i \in 1 .. n : i \in 1 .. n + 1 /\ (i = n \/ i < n) BY <1>1
  <1>5. Shift(s, r, {f, g}) BY <1>2, <1>3 DEF Shift
  <1>6. ASSUME ~Done(f), ~Done(g), LiveSend(s[n]) => LiveSend(f) PROVE Tame(s, r)
    BY <1>2, <1>3, <1>4, <1>6 DEF Tame, SameDones, SameSends
  <1> QED BY <1>5, <1>6 DEF n

\* Nor does a return, unless it is a Send that returns.
LEMMA PopsTame ==
    ASSUME NEW s \in Seq(Frames), NEW r \in Seq(Frames), s # <<>>, Pops(s, r)
    PROVE  Shift(s, r, {}) /\ SameDones(s, r) /\ (~LiveSend(s[Len(s)]) => Tame(s, r))
  <1> DEFINE n == Len(s)
  <1>1. n \in Nat \ {0} OBVIOUS
  <1> HIDE DEF n
  <1>2. Len(s) = n /\ Len(r) = n - 1 /\ \A i \in 1 .. n : i < n => r[i] = s[i]
    BY DEF Pops, n
  <1>3. \A i \in 1 .. n - 1 : i \in 1 .. n /\ i < n BY <1>1
  <1>4. \A i \in 1 .. n : i = n \/ (i \in 1 .. n - 1 /\ i < n) BY <1>1
  <1>5. Shift(s, r, {}) BY <1>2, <1>3 DEF Shift
  <1>6. SameDones(s, r) BY <1>2, <1>3 DEF SameDones
  <1>7. ASSUME ~LiveSend(s[n]) PROVE Tame(s, r) BY <1>2, <1>4, <1>6, <1>7 DEF Tame, SameSends
  <1> QED BY <1>5, <1>6, <1>7 DEF n

\* Nor does a thread that does not move.
LEMMA AlwaysTame ==
    ASSUME NEW s \in Seq(Frames)
    PROVE  Tame(s, s)
  BY DEF Tame, SameDones, SameSends

\* After such steps a flag's address still points to a Send that waits for it.
LEMMA PointsKept ==
    ASSUME NEW a \in Address, Points(stack, a), \A u \in Threads : Tame(stack[u], stack'[u])
    PROVE  Points(stack', a)
  <1>1. a[1] \in Threads BY DEF Address
  <1> QED BY <1>1 DEF Points, Tame, SameSends

\* Pledges, where no flag is promised anew and those given up were set.
LEMMA PledgesKept ==
    ASSUME TypeOK, Pledges, sendlist' = sendlist, ready' \subseteq ready,
           \A u \in Threads : SameDones(stack[u], stack'[u]),
           \A a \in Address : a \notin ready \ ready' /\ Points(stack, a) => Points(stack', a)
    PROVE  Pledges'
  <1>1. \A a \in Address : a \notin ready \ ready' /\ Points(stack, a) => Points(stack', a)
    OBVIOUS
  <1>2. \A t \in Threads : \A i \in 1 .. Len(sendlist[t]) : sendlist[t][i].ready \in Address
    <2> TAKE t \in Threads
    <2> TAKE i \in 1 .. Len(sendlist[t])
    <2>1. sendlist[t][i] \in SendMessage BY DEF TypeOK
    <2> QED BY <2>1 DEF SendMessage
  <1>3. \A t \in Threads : \A i \in 1 .. Len(stack[t]) : stack[t][i].ready \in Address
    <2> TAKE t \in Threads
    <2> TAKE i \in 1 .. Len(stack[t])
    <2>1. stack[t][i] \in Frames BY DEF TypeOK
    <2> QED BY <2>1 DEF Frames
  <1>4. QueuedPledges' BY <1>1, <1>2 DEF Pledges, QueuedPledges
  <1>5. RunningPledges'
    <2> SUFFICES ASSUME NEW t \in Threads, NEW i \in 1 .. Len(stack'[t]), Done(stack'[t][i])
                 PROVE  /\ stack'[t][i].to = stack'[t][i].ready[1]
                        /\ Points(stack', stack'[t][i].ready) /\ stack'[t][i].ready \notin ready'
                        /\ \A u \in Threads : \A j \in 1 .. Len(stack'[u]) :
                              Done(stack'[u][j]) /\ stack'[u][j].ready = stack'[t][i].ready
                                => u = t /\ j = i
                        /\ \A u \in Threads : \A j \in 1 .. Len(sendlist'[u]) :
                              sendlist'[u][j].ready # stack'[t][i].ready
      BY DEF RunningPledges, Done
    <2>1. /\ i \in 1 .. Len(stack[t]) /\ Done(stack[t][i])
          /\ stack'[t][i].ready = stack[t][i].ready /\ stack'[t][i].to = stack[t][i].to
      BY DEF Tame, SameDones, SameSends
    <2>2. /\ stack[t][i].to = stack[t][i].ready[1]
          /\ Points(stack, stack[t][i].ready) /\ stack[t][i].ready \notin ready
          /\ \A u \in Threads : \A j \in 1 .. Len(stack[u]) :
                Done(stack[u][j]) /\ stack[u][j].ready = stack[t][i].ready => u = t /\ j = i
          /\ \A u \in Threads : \A j \in 1 .. Len(sendlist[u]) :
                sendlist[u][j].ready # stack[t][i].ready
      BY <2>1 DEF Pledges, RunningPledges
    <2>3. Points(stack', stack'[t][i].ready)
      BY <2>1, <2>2, <1>1, <1>3
    <2>4. ASSUME NEW u \in Threads, NEW j \in 1 .. Len(stack'[u]), Done(stack'[u][j]),
                 stack'[u][j].ready = stack'[t][i].ready
          PROVE  u = t /\ j = i
      <3>1. /\ j \in 1 .. Len(stack[u]) /\ Done(stack[u][j])
            /\ stack'[u][j].ready = stack[u][j].ready
        BY <2>4 DEF Tame, SameDones, SameSends
      <3> QED BY <3>1, <2>4, <2>1, <2>2
    <2> QED BY <2>1, <2>2, <2>3, <2>4
  <1>6. \A a \in ready' : Points(stack', a) BY <1>1 DEF Pledges, TypeOK
  <1> QED BY <1>4, <1>5, <1>6 DEF Pledges

-----------------------------------------------------------------------------
(* Steps that leave the queues alone, and threads that do not move         *)

QueueHomes ==
    \A t \in Threads :
        /\ \A i \in 1 .. Len(msgq[t]) : Reaches(msgq[t][i], t)
        /\ \A d \in dmsgq[t] : Reaches(d.h, t)
        /\ \A i \in 1 .. Len(sendlist[t]) : Reaches(sendlist[t][i].h, t)

\* Homes, from what is queued and from the frames that are new.
LEMMA HomesKept ==
    ASSUME Homes, QueueHomes', dead' = dead, NEW t \in Threads, NEW New, Alone(t),
           Shift(stack[t], stack'[t], New), \A f \in New : PushHome(f)
    PROVE  Homes'
  <1>1. \A f : PushHome(f) => PushHome(f)' BY DEF PushHome, Reaches
  <1>2. ASSUME NEW u \in Threads, NEW i \in 1 .. Len(stack'[u])
        PROVE  PushHome(stack[u][i])'
    <2>1. CASE u = t
      <3>1. stack'[t][i] \in New \/ (i \in 1 .. Len(stack[t]) /\ stack'[t][i] = stack[t][i])
        BY <2>1 DEF Shift
      <3> QED BY <2>1, <3>1 DEF Homes, PushHome, Reaches
    <2>2. CASE u # t BY <2>2 DEF Alone, Homes, PushHome, Reaches
    <2> QED BY <2>1, <2>2
  <1> QED BY <1>2 DEF Homes, QueueHomes

\* Queues that do not change hold messages to their own thread's live handlers.
LEMMA QueueHomesKept ==
    ASSUME Homes, UNCHANGED queues, dead' = dead
    PROVE  QueueHomes'
  BY DEF Homes, QueueHomes, queues, Reaches

\* Another thread's step leaves a thread that is about to call WakeUp there.
LEMMA AboutKept ==
    ASSUME NEW t \in Threads, Alone(t), NEW op, NEW u \in Threads, AboutToWake(op, u),
           ~(At(t, op, "wake") /\ Top(t).to = u)
    PROVE  AboutToWake(op, u)'
  <1>1. PICK v \in Threads : At(v, op, "wake") /\ Top(v).to = u BY DEF AboutToWake
  <1>2. v # t BY <1>1
  <1>3. stack'[v] = stack[v] BY <1>2 DEF Alone
  <1> QED BY <1>1, <1>3 DEF AboutToWake, At, Top

\* The step gives u no new reason to wake, or somebody is about to wake it.
Calm(u) ==
    /\ ~signaled[u]
    /\ msgq[u] = <<>> => msgq'[u] = <<>>
    /\ dmsgq[u] = {} => dmsgq'[u] = {}
    /\ sendlist[u] = <<>> \/ AboutToWake("Send", u) =>
          sendlist'[u] = <<>> \/ AboutToWake("Send", u)'
    /\ ~fStop[u] \/ AboutToWake("Quit", u) => ~fStop'[u] \/ AboutToWake("Quit", u)'
    /\ \A i \in Nat : <<u, i>> \in ready' => <<u, i>> \in ready

\* What u waits for in the calls it is inside of.
SameWaits(u) ==
    /\ stack'[u][1] = stack[u][1]
    /\ Past(u)' /\ sendlist'[u] # <<>> => Past(u)
    /\ \A i \in Nat : Owed(u, i) => Owed(u, i)'
    /\ \A i \in 1 .. Len(stack'[u]) :
          stack'[u][i].op = "Send" /\ stack'[u][i].pc = "wait" =>
              \/ /\ i \in 1 .. Len(stack[u])
                 /\ stack[u][i].op = "Send" /\ stack[u][i].pc = "wait"
                 /\ i = Len(stack'[u]) /\ sendlist'[u] # <<>> => i = Len(stack[u])
              \/ <<u, i>> \notin ready' /\ i # Len(stack'[u])

\* Wakes, for a thread that is given no new reason to wake and waits as before.
LEMMA WakesKept ==
    ASSUME NEW u \in Threads, GetWakes(u), SendWakes(u), Stacks, Stacks',
           ~signaled'[u] => Calm(u) /\ SameWaits(u)
    PROVE  GetWakes(u)' /\ SendWakes(u)'
  <1>1. CASE signaled'[u] BY <1>1 DEF GetWakes, SendWakes, Quiet
  <1>2. CASE ~signaled'[u]
    <2>1. Calm(u) /\ SameWaits(u) BY <1>2
    <2>2. \A i \in Nat : Quiet(u, i)' => Quiet(u, i) BY <2>1 DEF Quiet, Calm, SameWaits
    <2>3. GetWakes(u)'
      <3> SUFFICES ASSUME Quiet(u, 1)' PROVE GetWakes(u)' BY DEF GetWakes
      <3>1. Quiet(u, 1) BY <2>2
      <3>2. /\ Past(u) /\ sendlist[u] # <<>> => AboutToWake("Send", u)
            /\ stack[u][1].pc \in {"stop", "wait"} => msgq[u] = <<>>
            /\ stack[u][1].pc \in {"again", "stop"} /\ dmsgq[u] # {}
                  => stack[u][1].delay # Forever
            /\ stack[u][1].pc = "wait" /\ dmsgq[u] # {} => stack[u][1].until # Forever
            /\ stack[u][1].pc = "wait" /\ fStop[u] => AboutToWake("Quit", u)
        BY <3>1 DEF GetWakes
      <3> QED BY <2>1, <3>2 DEF GetWakes, Calm, SameWaits
    <2>4. SendWakes(u)'
      <3> SUFFICES ASSUME NEW i \in 1 .. Len(stack'[u]), stack'[u][i].op = "Send",
                          stack'[u][i].pc = "wait", Quiet(u, i)'
                   PROVE  /\ <<u, i>> \notin ready'
                          /\ i = Len(stack'[u]) /\ sendlist'[u] # <<>>
                                => AboutToWake("Send", u)'
        BY DEF SendWakes
      <3>1. i \in Nat BY DEF Stacks
      <3>2. Quiet(u, i) BY <2>2, <3>1
      <3>3. CASE <<u, i>> \notin ready' /\ i # Len(stack'[u]) BY <3>3
      <3>4. CASE ~(<<u, i>> \notin ready' /\ i # Len(stack'[u]))
        <4>1. /\ i \in 1 .. Len(stack[u])
              /\ stack[u][i].op = "Send" /\ stack[u][i].pc = "wait"
              /\ i = Len(stack'[u]) /\ sendlist'[u] # <<>> => i = Len(stack[u])
          BY <2>1, <3>4 DEF SameWaits
        <4>2. /\ <<u, i>> \notin ready
              /\ i = Len(stack[u]) /\ sendlist[u] # <<>> => AboutToWake("Send", u)
          BY <3>2, <4>1 DEF SendWakes
        <4> QED BY <2>1, <3>1, <4>1, <4>2 DEF Calm
      <3> QED BY <3>3, <3>4
    <2> QED BY <2>3, <2>4
  <1> QED BY <1>1, <1>2

\* A thread that does not move waits as before.
LEMMA StillSameWaits ==
    ASSUME NEW u \in Threads, stack'[u] = stack[u], Stacks
    PROVE  SameWaits(u)
  BY DEF SameWaits, Past, Owed, Stacks

\* So does one whose innermost call, not a Get, moves on to a place where it does not
\* wait, keeping what it owes.
LEMMA MovesWaits ==
    ASSUME NEW t \in Threads, Stacks, Shape, NEW f, Moves(stack[t], stack'[t], f),
           Top(t).op # "Get", f.pc # "wait",
           Top(t).op = "Send" /\ Top(t).waited => f.op = "Send" /\ f.waited
    PROVE  SameWaits(t)
  <1> DEFINE n == Len(stack[t])
  <1>1. stack[t] \in Seq(Frames) /\ stack[t] # <<>> /\ WellFormed(stack[t])
    BY DEF Stacks, Shape
  <1>2. n \in Nat /\ n > 1 BY <1>1, GetAtBottom DEF Top
  <1> HIDE DEF n
  <1>3. /\ Len(stack[t]) = n /\ Len(stack'[t]) = n /\ stack'[t][n] = f
        /\ \A i \in 1 .. n : i < n => stack'[t][i] = stack[t][i]
        /\ stack[t][n] = Top(t)
    BY DEF Moves, n, Top, Last
  <1>4. stack'[t][1] = stack[t][1] BY <1>2, <1>3
  <1>5. Past(t)' => Past(t) BY <1>3, <1>4 DEF Past
  <1>6. ASSUME NEW i \in Nat, Owed(t, i) PROVE Owed(t, i)'
    <2>1. PICK j \in 1 .. n : j > i /\ stack[t][j].op = "Send" /\ stack[t][j].waited
      BY <1>3, <1>6 DEF Owed
    <2>2. j = n \/ j < n BY <1>2
    <2>3. stack'[t][j].op = "Send" /\ stack'[t][j].waited BY <1>3, <2>1, <2>2
    <2> QED BY <1>3, <2>1, <2>3 DEF Owed
  <1>7. ASSUME NEW i \in 1 .. n, stack'[t][i].op = "Send", stack'[t][i].pc = "wait"
        PROVE  stack[t][i].op = "Send" /\ stack[t][i].pc = "wait"
    <2>1. i = n \/ i < n BY <1>2
    <2> QED BY <1>3, <1>7, <2>1
  <1> QED BY <1>3, <1>4, <1>5, <1>6, <1>7 DEF SameWaits

\* So does one that makes a call.
LEMMA PushesWaits ==
    ASSUME NEW t \in Threads, Stacks, NEW g, Pushes(stack[t], stack'[t], g),
           g.pc # "wait"
    PROVE  SameWaits(t)
  <1> DEFINE n == Len(stack[t])
  <1>1. n \in Nat /\ n > 0 BY DEF Stacks
  <1> HIDE DEF n
  <1>2. /\ Len(stack[t]) = n /\ Len(stack'[t]) = n + 1 /\ stack'[t][n + 1] = g
        /\ \A i \in 1 .. n : stack'[t][i] = stack[t][i]
    BY DEF Pushes, n
  <1>3. stack'[t][1] = stack[t][1] BY <1>1, <1>2
  <1>4. Past(t)' => Past(t)
    <2>1. Len(stack'[t]) # 1 BY <1>1, <1>2
    <2> QED BY <1>3, <2>1 DEF Past
  <1>5. ASSUME NEW i \in Nat, Owed(t, i) PROVE Owed(t, i)'
    <2>1. PICK j \in 1 .. n : j > i /\ stack[t][j].op = "Send" /\ stack[t][j].waited
      BY <1>2, <1>5 DEF Owed
    <2>2. j \in 1 .. n + 1 BY <1>1
    <2> QED BY <1>2, <2>1, <2>2 DEF Owed
  <1>6. ASSUME NEW i \in 1 .. n + 1, stack'[t][i].op = "Send", stack'[t][i].pc = "wait"
        PROVE  i # n + 1 /\ i \in 1 .. n /\ stack'[t][i] = stack[t][i]
    <2>1. i = n + 1 \/ i \in 1 .. n BY <1>1
    <2> QED BY <1>2, <1>6, <2>1
  <1> QED BY <1>2, <1>3, <1>4, <1>5, <1>6 DEF SameWaits

\* So does one whose innermost call moves on and makes a call.
LEMMA EntersWaits ==
    ASSUME NEW t \in Threads, Stacks, Shape, NEW f, NEW g,
           Enters(stack[t], stack'[t], f, g),
           Top(t).op = "ReceiveSends", f.pc # "wait", g.pc # "wait"
    PROVE  SameWaits(t)
  <1> DEFINE n == Len(stack[t])
  <1>1. stack[t] \in Seq(Frames) /\ stack[t] # <<>> /\ WellFormed(stack[t])
    BY DEF Stacks, Shape
  <1>2. n \in Nat /\ n > 1 BY <1>1, GetAtBottom DEF Top
  <1> HIDE DEF n
  <1>3. /\ Len(stack[t]) = n /\ Len(stack'[t]) = n + 1
        /\ stack'[t][n + 1] = g /\ stack'[t][n] = f
        /\ \A i \in 1 .. n : i < n => stack'[t][i] = stack[t][i]
        /\ stack[t][n] = Top(t)
    BY DEF Enters, n, Top, Last
  <1>4. stack'[t][1] = stack[t][1] BY <1>2, <1>3
  <1>5. Past(t)' => Past(t)
    <2>1. Len(stack'[t]) # 1 BY <1>2, <1>3
    <2> QED BY <1>4, <2>1 DEF Past
  <1>6. ASSUME NEW i \in Nat, Owed(t, i) PROVE Owed(t, i)'
    <2>1. PICK j \in 1 .. n : j > i /\ stack[t][j].op = "Send" /\ stack[t][j].waited
      BY <1>3, <1>6 DEF Owed
    <2>2. j # n BY <1>3, <2>1
    <2>3. j < n /\ j \in 1 .. n + 1 BY <1>2, <2>2
    <2> QED BY <1>3, <2>1, <2>3 DEF Owed
  <1>7. ASSUME NEW i \in 1 .. n + 1, stack'[t][i].op = "Send", stack'[t][i].pc = "wait"
        PROVE  i # n + 1 /\ i \in 1 .. n /\ stack'[t][i] = stack[t][i]
    <2>1. i = n + 1 \/ i = n \/ (i \in 1 .. n /\ i < n) BY <1>2
    <2> QED BY <1>3, <1>7, <2>1
  <1> QED BY <1>3, <1>4, <1>5, <1>6, <1>7 DEF SameWaits

\* So does one that returns from a call that owes nothing; ReceiveSends returns when
\* sendlist_ is empty.
LEMMA PopsWaits ==
    ASSUME NEW t \in Threads, Stacks, Shape, Pops(stack[t], stack'[t]),
           Top(t).op # "Get", ~(Top(t).op = "Send" /\ Top(t).waited),
           Top(t).op = "ReceiveSends" => sendlist'[t] = <<>>
    PROVE  SameWaits(t)
  <1> DEFINE n == Len(stack[t])
  <1>1. stack[t] \in Seq(Frames) /\ stack[t] # <<>> /\ WellFormed(stack[t])
    BY DEF Stacks, Shape
  <1>2. n \in Nat /\ n > 1 BY <1>1, GetAtBottom DEF Top
  <1> HIDE DEF n
  <1>3. /\ Len(stack[t]) = n /\ Len(stack'[t]) = n - 1
        /\ \A i \in 1 .. n : i < n => stack'[t][i] = stack[t][i]
        /\ stack[t][n] = Top(t)
    BY DEF Pops, n, Top, Last
  <1>4. stack'[t][1] = stack[t][1] BY <1>2, <1>3
  <1>5. Calls(stack[t][n - 1], Top(t))
    <2>1. n \in 1 .. n BY <1>2
    <2> QED BY <1>1, <1>2, <1>3, <2>1 DEF WellFormed
  <1>6. Past(t)' /\ sendlist'[t] # <<>> => Past(t)
    <2>1. ASSUME stack'[t][1].pc = "scan", Len(stack'[t]) = 1 PROVE sendlist'[t] = <<>>
      <3>1. n - 1 = 1 BY <1>2, <1>3, <2>1
      <3>2. stack[t][1].pc = "scan" /\ stack[t][1].op = "Get" BY <1>1, <1>4, <2>1 DEF WellFormed
      <3>3. Top(t).op = "ReceiveSends" BY <1>5, <3>1, <3>2 DEF Calls
      <3> QED BY <3>3
    <2> QED BY <1>4, <2>1 DEF Past
  <1>7. ASSUME NEW i \in Nat, Owed(t, i) PROVE Owed(t, i)'
    <2>1. PICK j \in 1 .. n : j > i /\ stack[t][j].op = "Send" /\ stack[t][j].waited
      BY <1>3, <1>7 DEF Owed
    <2>2. j # n BY <1>3, <2>1
    <2>3. j < n /\ j \in 1 .. n - 1 BY <1>2, <2>2
    <2> QED BY <1>3, <2>1, <2>3 DEF Owed
  <1>8. ASSUME NEW i \in 1 .. n - 1, stack'[t][i].op = "Send", stack'[t][i].pc = "wait"
        PROVE  /\ i \in 1 .. n /\ stack[t][i].op = "Send" /\ stack[t][i].pc = "wait"
               /\ i = n - 1 => sendlist'[t] = <<>>
    <2>1. i \in 1 .. n /\ i < n BY <1>2
    <2>2. stack[t][i].op = "Send" /\ stack[t][i].pc = "wait" BY <1>3, <1>8, <2>1
    <2>3. i = n - 1 => Top(t).op = "ReceiveSends" BY <1>5, <2>2 DEF Calls
    <2> QED BY <2>1, <2>2, <2>3
  <1> QED BY <1>3, <1>4, <1>6, <1>7, <1>8 DEF SameWaits

-----------------------------------------------------------------------------
(* The parts of a step's proof that all steps share                        *)

\* The innermost frame: its type, its place, and that only the bottom one is a Get.
LEMMA TopFacts ==
    ASSUME TypeOK, Shape, NEW t \in Threads
    PROVE  /\ Stacks /\ stack[t] \in Seq(Frames) /\ stack[t] # <<>> /\ WellFormed(stack[t])
           /\ Top(t) \in Frames /\ AtPlace(Top(t)) /\ Top(t) = stack[t][Len(stack[t])]
           /\ Top(t).op = "Get" => Len(stack[t]) = 1 /\ stack[t][1] = Top(t)
           /\ Top(t).op # "Get" => Len(stack[t]) > 1
           /\ Len(stack[t]) \in Nat /\ Len(stack[t]) > 0
  <1>1. Stacks BY DEF TypeOK, Stacks
  <1>2. stack[t] \in Seq(Frames) /\ stack[t] # <<>> /\ WellFormed(stack[t])
    BY <1>1 DEF Stacks, Shape
  <1>3. Len(stack[t]) \in Nat /\ Len(stack[t]) > 0 BY <1>2
  <1>4. /\ Last(stack[t]).op = "Get" => Len(stack[t]) = 1
        /\ Last(stack[t]).op # "Get" => Len(stack[t]) > 1
        /\ AtPlace(Last(stack[t])) /\ Last(stack[t]) \in Frames
    BY <1>2, GetAtBottom
  <1> QED BY <1>1, <1>2, <1>3, <1>4 DEF Top, Last

\* A step that only changes the stack of t.
LEMMA CalmStack ==
    ASSUME TypeOK, NEW t \in Threads, Alone(t), UNCHANGED <<queues, fStop, signaled, ready>>,
           Top(t).pc # "wake"
    PROVE  \A u \in Threads : ~signaled'[u] => Calm(u)
  <1> SUFFICES ASSUME NEW u \in Threads, ~signaled'[u] PROVE Calm(u) OBVIOUS
  <1>1. \A op \in {"Send", "Quit"} : AboutToWake(op, u) => AboutToWake(op, u)'
    BY AboutKept DEF At
  <1> QED BY <1>1 DEF Calm, queues

\* A step that wakes x, for whose thread it may queue a message.
LEMMA CalmWake ==
    ASSUME TypeOK, NEW t \in Threads, Alone(t), NEW x \in Threads,
           signaled' = [signaled EXCEPT ![x] = TRUE],
           Top(t).pc = "wake" => Top(t).to = x,
           sendlist' = sendlist, fStop' = fStop, ready' \subseteq ready,
           \A u \in Threads : u # x => msgq'[u] = msgq[u] /\ dmsgq'[u] = dmsgq[u]
    PROVE  \A u \in Threads : ~signaled'[u] => Calm(u)
  <1> SUFFICES ASSUME NEW u \in Threads, ~signaled'[u] PROVE Calm(u) OBVIOUS
  <1>1. signaled'[x] BY DEF TypeOK
  <1>2. u # x BY <1>1
  <1>3. ~signaled[u] BY <1>2 DEF TypeOK
  <1>4. \A op \in {"Send", "Quit"} : AboutToWake(op, u) => AboutToWake(op, u)'
    <2>1. \A op \in {"Send", "Quit"} : ~(At(t, op, "wake") /\ Top(t).to = u)
      BY <1>2 DEF At
    <2> QED BY <2>1, AboutKept
  <1> QED BY <1>2, <1>3, <1>4 DEF Calm

\* IInv, from its parts after a step of t.
LEMMA StepKeeps ==
    ASSUME IInv, NEW t \in Threads, Alone(t), TypeOK', Numbered', QueueHomes', Pledges',
           dead' = dead, NEW New, Shift(stack[t], stack'[t], New),
           \A f \in New : PushHome(f),
           WellFormed(stack'[t]),
           \A u \in Threads : u # t /\ ~signaled'[u] => Calm(u),
           \/ ~signaled'[t] => Calm(t) /\ SameWaits(t)
           \/ GetWakes(t)' /\ SendWakes(t)'
    PROVE  IInv'
  <1>1. Stacks /\ Stacks' BY DEF IInv, TypeOK, Stacks
  <1>2. Shape' BY DEF Shape, Alone, IInv
  <1>3. Homes' BY HomesKept DEF IInv
  <1>4. ASSUME NEW u \in Threads PROVE GetWakes(u)' /\ SendWakes(u)'
    <2>1. GetWakes(u) /\ SendWakes(u) BY DEF IInv, Wakes
    <2>2. CASE u = t BY <1>1, <2>1, <2>2, WakesKept
    <2>3. CASE u # t
      <3>1. stack'[u] = stack[u] BY <2>3 DEF Alone
      <3>2. SameWaits(u) BY <1>1, <3>1, StillSameWaits
      <3> QED BY <1>1, <2>1, <2>3, <3>2, WakesKept
    <2> QED BY <2>2, <2>3
  <1>5. Wakes' BY <1>4 DEF Wakes
  <1> QED BY <1>2, <1>3, <1>5 DEF IInv

\* Pledges, where only t moves and no flag is set or promised.
LEMMA TameKept ==
    ASSUME IInv, NEW t \in Threads, Alone(t), sendlist' = sendlist, ready' = ready,
           Tame(stack[t], stack'[t])
    PROVE  Pledges'
  <1>1. \A u \in Threads : stack[u] \in Seq(Frames) BY DEF IInv, TypeOK
  <1>2. \A u \in Threads : Tame(stack[u], stack'[u]) BY <1>1, AlwaysTame DEF Alone
  <1>3. \A a \in Address : Points(stack, a) => Points(stack', a) BY <1>2, PointsKept
  <1> QED BY <1>2, <1>3, PledgesKept DEF IInv, Tame

\* A step that only changes the stack of t, where no call waits in vain.
LEMMA StackStepKeeps ==
    ASSUME IInv, NEW t \in Threads, Alone(t), Stacks',
           UNCHANGED <<queues, fStop, signaled, ready, dead>>,
           now' \in Nat, left' \in [{"call", "io", "quit", "clear"} -> Nat],
           Top(t).pc # "wake",
           NEW New, Shift(stack[t], stack'[t], New), \A f \in New : PushHome(f),
           Tame(stack[t], stack'[t]), WellFormed(stack'[t]),
           SameWaits(t) \/ (GetWakes(t)' /\ SendWakes(t)')
    PROVE  IInv'
  <1>1. TypeOK' BY DEF IInv, TypeOK, Stacks, queues
  <1>2. Numbered' BY DEF IInv, Numbered, queues
  <1>3. QueueHomes' BY QueueHomesKept DEF IInv
  <1>4. Pledges' BY TameKept DEF queues
  <1>5. \A u \in Threads : ~signaled'[u] => Calm(u) BY CalmStack DEF IInv
  <1> QED BY <1>1, <1>2, <1>3, <1>4, <1>5, StepKeeps

-----------------------------------------------------------------------------
(* The steps of Get                                                        *)

\* Time() is a uint32.
LEMMA TimeType ==
    ASSUME now \in Nat
    PROVE  Time \in 0 .. TimeMod - 1
  BY TimeAssumption DEF Time

\* The handler of a dispose message is none of the client's.
LEMMA NoneType == None \in Target /\ None \notin Handlers
  BY NoneAssumption DEF Target

\* The frames of new calls.
LEMMA NewFrames ==
    ASSUME NEW t \in Threads, NEW h \in Target
    PROVE  \A p \in {<<"ReceiveSends", "loop">>, <<"Body", "run">>, <<"Post", "push">>,
                    <<"PostDelayed", "push">>, <<"Quit", "wake">>, <<"Send", "push">>} :
              LET f == Frame(p[1], p[2], t, h)
              IN f \in Frames /\ f.op = p[1] /\ f.pc = p[2] /\ f.to = t /\ f.h = h /\ ~f.waited
  <1> SUFFICES ASSUME NEW op \in Ops, NEW pc \in Pcs
               PROVE  LET f == Frame(op, pc, t, h)
                      IN f \in Frames /\ f.op = op /\ f.pc = pc /\ f.to = t /\ f.h = h /\ ~f.waited
    BY DEF Ops, Pcs
  <1> DEFINE f == Frame(op, pc, t, h)
  <1>1. f \in Frames /\ f.op = op /\ f.pc = pc /\ f.to = t /\ f.h = h /\ f.waited = FALSE
    <2>1. <<t, 0>> \in Address BY DEF Address
    <2>2. 0 \in 0 .. TimeMod - 1 BY TimeAssumption
    <2> QED BY <2>1, <2>2 DEF Frame, Frames, Forever
  <1> HIDE DEF f
  <1>2. f \in Frames /\ f.op = op /\ f.pc = pc /\ f.to = t /\ f.h = h /\ ~f.waited
    BY <1>1
  <1> QED BY <1>2 DEF f

\* The innermost call is a Get: nothing is owed to anyone.
LEMMA AloneGetOwes ==
    ASSUME NEW t \in Threads, Len(stack[t]) = 1
    PROVE  ~Owed(t, 1)
  BY DEF Owed

\* The clock.
LEMMA TickKeeps ==
    ASSUME IInv, Tick
    PROVE  IInv'
  <1>1. TypeOK' BY DEF IInv, TypeOK, Tick, queues
  <1>2. UNCHANGED <<stack, queues, fStop, signaled, ready, dead>> BY DEF Tick
  <1>3. Shape' BY <1>2 DEF IInv, Shape
  <1>4. Numbered' BY <1>2 DEF IInv, Numbered, queues
  <1>5. Homes' BY <1>2 DEF IInv, Homes, PushHome, Reaches, queues
  <1>6. Pledges' BY <1>2 DEF IInv, Pledges, QueuedPledges, RunningPledges, queues
  <1>7. Wakes'
    BY <1>2 DEF IInv, Wakes, GetWakes, SendWakes, Quiet, Owed, Past, AboutToWake, At, Top,
                queues
  <1> QED BY <1>1, <1>3, <1>4, <1>5, <1>6, <1>7 DEF IInv

\* Get reads msCurrent and calls ReceiveSends.
LEMMA GetStartKeeps ==
    ASSUME IInv, NEW t \in Threads, GetStart(t)
    PROVE  IInv'
  <1> DEFINE f == [Top(t) EXCEPT !.pc = "scan", !.cur = Time]
             g == Frame("ReceiveSends", "loop", t, None)
  <1>0. TypeOK /\ Shape BY DEF IInv
  <1>1. /\ Top(t).op = "Get" /\ Top(t).pc = "sends" /\ stack' = Called(t, f, g)
        /\ UNCHANGED <<queues, fStop, signaled, ready, dead, now, left>>
    BY DEF GetStart, At
  <1>2. g \in Frames /\ g.op = "ReceiveSends" /\ g.pc = "loop"
    BY NoneType, NewFrames
  <1>3. Top(t) \in Frames BY <1>0, TopFacts
  <1>4. f \in Frames /\ f.op = "Get" /\ f.pc = "scan"
    <2>1. Time \in 0 .. TimeMod - 1 BY <1>0, TimeType DEF TypeOK
    <2> HIDE DEF g
    <2> QED BY <1>1, <1>3, <2>1 DEF Frames, Pcs
  <1> HIDE DEF f, g
  <1>5. /\ Stacks /\ stack[t] \in Seq(Frames) /\ stack[t] # <<>> /\ WellFormed(stack[t])
        /\ Top(t) = stack[t][Len(stack[t])] /\ Len(stack[t]) = 1
    BY <1>0, <1>1, TopFacts
  <1>6. Stacks' /\ Enters(stack[t], stack'[t], f, g) /\ Alone(t)
    BY <1>1, <1>2, <1>4, <1>5, CalledEnters
  <1>7. stack'[t] \in Seq(Frames) BY <1>6 DEF Stacks
  <1>8. Shift(stack[t], stack'[t], {f, g}) /\ Tame(stack[t], stack'[t])
    BY <1>1, <1>2, <1>4, <1>5, <1>6, <1>7, EntersTame DEF Done, LiveSend
  <1>9. WellFormed(stack'[t])
    <2>1. AtPlace(f) /\ AtPlace(g) /\ Calls(f, g) BY <1>2, <1>4 DEF AtPlace, Calls
    <2> QED BY <1>1, <1>4, <1>5, <1>6, <1>7, <2>1, ShapeEnters
  <1>10. \A k \in {f, g} : PushHome(k) BY <1>2, <1>4 DEF PushHome
  <1>11. Len(stack'[t]) = 2 /\ stack'[t][1] = f /\ stack'[t][2] = g BY <1>5, <1>6 DEF Enters
  <1>12. GetWakes(t)' BY <1>4, <1>11 DEF GetWakes, Past
  <1>13. SendWakes(t)'
    <2>1. \A i \in 1 .. 2 : i = 1 \/ i = 2 OBVIOUS
    <2> QED BY <1>2, <1>4, <1>11, <2>1 DEF SendWakes
  <1>14. now' \in Nat /\ left' \in [{"call", "io", "quit", "clear"} -> Nat]
    BY <1>0, <1>1 DEF TypeOK
  <1> QED BY <1>1, <1>6, <1>8, <1>9, <1>10, <1>12, <1>13, <1>14, StackStepKeeps

\* Get tests fStop_ and starts to wait: what it has not seen yet comes with a wake-up.
LEMMA GetStopKeeps ==
    ASSUME IInv, NEW t \in Threads, GetStop(t)
    PROVE  IInv'
  <1> DEFINE f == IF fStop[t] THEN [Top(t) EXCEPT !.pc = "done"]
                  ELSE [Top(t) EXCEPT !.pc = "wait", !.delay = Forever,
                          !.until = IF Top(t).delay = Forever THEN Forever
                                    ELSE now + Top(t).delay]
  <1>0. TypeOK /\ Shape /\ Wakes BY DEF IInv
  <1>1. /\ Top(t).op = "Get" /\ Top(t).pc = "stop" /\ stack' = Moved(t, f)
        /\ UNCHANGED <<queues, fStop, signaled, ready, dead, now, left>>
    BY DEF GetStop, At
  <1>2. Top(t) \in Frames BY <1>0, TopFacts
  <1>3. f \in Frames /\ f.op = "Get" /\ f.pc \in {"done", "wait"}
    <2>1. now \in Nat /\ Top(t).delay \in Nat \cup {-1} BY <1>0, <1>2 DEF TypeOK, Frames, Forever
    <2>2. (IF Top(t).delay = -1 THEN -1 ELSE now + Top(t).delay) \in Nat \cup {-1}
      BY <2>1
    <2>3. CASE fStop[t]
      <3>1. f = [Top(t) EXCEPT !.pc = "done"] BY <2>3
      <3> QED BY <1>1, <1>2, <3>1 DEF Frames, Pcs
    <2>4. CASE ~fStop[t]
      <3> DEFINE e == IF Top(t).delay = Forever THEN Forever ELSE now + Top(t).delay
      <3>1. f = [Top(t) EXCEPT !.pc = "wait", !.delay = Forever, !.until = e] BY <2>4
      <3>2. e \in Nat \cup {Forever} BY <2>2 DEF Forever
      <3> HIDE DEF e, f
      <3> QED BY <1>1, <1>2, <3>1, <3>2 DEF Frames, Pcs
    <2> QED BY <2>3, <2>4
  <1>4. f.pc = "wait" => ~fStop[t] /\ (Top(t).delay # Forever => f.until # Forever)
    <2>1. now \in Nat /\ Top(t).delay \in Nat \cup {-1} BY <1>0, <1>2 DEF TypeOK, Frames, Forever
    <2>2. CASE fStop[t]
      <3>1. f = [Top(t) EXCEPT !.pc = "done"] BY <2>2
      <3> QED BY <1>2, <3>1 DEF Frames
    <2>3. CASE ~fStop[t]
      <3> DEFINE e == IF Top(t).delay = Forever THEN Forever ELSE now + Top(t).delay
      <3>1. f = [Top(t) EXCEPT !.pc = "wait", !.delay = Forever, !.until = e] BY <2>3
      <3>2. Top(t).delay # Forever => e # Forever BY <2>1 DEF Forever
      <3> HIDE DEF e, f
      <3> QED BY <1>2, <2>3, <3>1, <3>2 DEF Frames
    <2> QED BY <2>2, <2>3
  <1> HIDE DEF f
  <1>5. /\ Stacks /\ stack[t] \in Seq(Frames) /\ stack[t] # <<>> /\ WellFormed(stack[t])
        /\ Top(t) = stack[t][Len(stack[t])] /\ Len(stack[t]) = 1 /\ stack[t][1] = Top(t)
    BY <1>0, <1>1, TopFacts
  <1>6. Stacks' /\ Moves(stack[t], stack'[t], f) /\ Alone(t)
    BY <1>1, <1>3, <1>5, MovedMoves
  <1>7. stack'[t] \in Seq(Frames) BY <1>6 DEF Stacks
  <1>8. Shift(stack[t], stack'[t], {f}) /\ Tame(stack[t], stack'[t])
    BY <1>1, <1>3, <1>5, <1>6, <1>7, MovesTame DEF Done, LiveSend
  <1>9. WellFormed(stack'[t])
    <2>1. AtPlace(f) BY <1>3 DEF AtPlace
    <2> QED BY <1>1, <1>3, <1>5, <1>6, <2>1, ShapeMoves
  <1>10. \A k \in {f} : PushHome(k) BY <1>3 DEF PushHome
  <1>11. Len(stack'[t]) = 1 /\ stack'[t][1] = f BY <1>5, <1>6 DEF Moves
  <1>12. GetWakes(t)'
    <2> SUFFICES ASSUME Quiet(t, 1)' PROVE GetWakes(t)' BY DEF GetWakes
    <2>1. Quiet(t, 1) BY <1>1, <1>5, AloneGetOwes DEF Quiet
    <2>2. /\ sendlist[t] # <<>> => AboutToWake("Send", t)
          /\ msgq[t] = <<>>
          /\ dmsgq[t] # {} => stack[t][1].delay # Forever
      BY <1>0, <1>1, <1>5, <2>1 DEF Wakes, GetWakes, Past
    <2>3. AboutToWake("Send", t) => AboutToWake("Send", t)'
      BY <1>1, <1>6, AboutKept DEF At
    <2> QED BY <1>1, <1>3, <1>4, <1>5, <1>11, <2>2, <2>3 DEF GetWakes, queues
  <1>13. SendWakes(t)'
    <2>1. \A i \in 1 .. 1 : i = 1 OBVIOUS
    <2> QED BY <1>3, <1>11, <2>1 DEF SendWakes
  <1>14. now' \in Nat /\ left' \in [{"call", "io", "quit", "clear"} -> Nat]
    BY <1>0, <1>1 DEF TypeOK
  <1> QED BY <1>1, <1>6, <1>8, <1>9, <1>10, <1>12, <1>13, <1>14, StackStepKeeps

\* What holds of a step that makes the call g.
LEMMA CallStep ==
    ASSUME IInv, NEW t \in Threads, NEW g \in Frames, Calls(Top(t), g), AtPlace(g),
           g.op # "Get", g.op = "ReceiveSends" => g.pc = "loop",
           g.op = "Send" => g.pc = "push",
           stack' = [stack EXCEPT ![t] = Append(@, g)]
    PROVE  /\ Alone(t) /\ Stacks' /\ Shift(stack[t], stack'[t], {g})
           /\ Tame(stack[t], stack'[t]) /\ WellFormed(stack'[t]) /\ SameWaits(t)
  <1>1. /\ Stacks /\ stack[t] \in Seq(Frames) /\ stack[t] # <<>> /\ WellFormed(stack[t])
        /\ Top(t) = stack[t][Len(stack[t])]
    BY TopFacts DEF IInv
  <1>2. Stacks' /\ Pushes(stack[t], stack'[t], g) /\ Alone(t) BY <1>1, AppendedPushes
  <1>3. stack'[t] \in Seq(Frames) BY <1>2 DEF Stacks
  <1>4. ~Done(g) BY DEF Done
  <1>5. Shift(stack[t], stack'[t], {g}) /\ Tame(stack[t], stack'[t])
    BY <1>1, <1>2, <1>3, <1>4, PushesTame
  <1>6. WellFormed(stack'[t]) BY <1>1, <1>2, ShapePushes
  <1>7. g.op \in Ops /\ g.pc # "wait" BY DEF Frames, AtPlace, Ops
  <1>8. SameWaits(t) BY <1>1, <1>2, <1>7, PushesWaits
  <1> QED BY <1>2, <1>5, <1>6, <1>8

\* What holds of a step that returns from a call that waited for nothing.
LEMMA ReturnStep ==
    ASSUME IInv, NEW t \in Threads, Top(t).op \notin {"Get", "Send", "ReceiveSends"},
           stack' = Returned(t)
    PROVE  /\ Alone(t) /\ Stacks' /\ Shift(stack[t], stack'[t], {})
           /\ Tame(stack[t], stack'[t]) /\ WellFormed(stack'[t]) /\ SameWaits(t)
  <1>1. /\ Stacks /\ stack[t] \in Seq(Frames) /\ stack[t] # <<>> /\ WellFormed(stack[t])
        /\ Top(t) = stack[t][Len(stack[t])] /\ Len(stack[t]) > 1 /\ Shape
    BY TopFacts DEF IInv
  <1>2. Stacks' /\ Pops(stack[t], stack'[t]) /\ Alone(t) BY <1>1, ReturnedPops
  <1>3. stack'[t] \in Seq(Frames) BY <1>2 DEF Stacks
  <1>4. Shift(stack[t], stack'[t], {}) /\ Tame(stack[t], stack'[t])
    BY <1>1, <1>2, <1>3, PopsTame DEF LiveSend
  <1>5. WellFormed(stack'[t]) BY <1>1, <1>2, ShapePops
  <1>6. SameWaits(t) BY <1>1, <1>2, PopsWaits
  <1> QED BY <1>2, <1>4, <1>5, <1>6

\* The bounds stay naturals.
LEMMA SpendType ==
    ASSUME TypeOK, NEW what \in {"call", "io", "quit", "clear"}, Spend(what)
    PROVE  left' \in [{"call", "io", "quit", "clear"} -> Nat]
  BY DEF TypeOK, Spend

\* A socket's callback while Get waits.
LEMMA IoEventKeeps ==
    ASSUME IInv, NEW t \in Threads, IoEvent(t)
    PROVE  IInv'
  <1> DEFINE g == Frame("Body", "run", t, None)
  <1>1. /\ Top(t).op = "Get" /\ Top(t).pc = "wait"
        /\ Spend("io")
        /\ stack' = [stack EXCEPT ![t] = Append(@, g)]
        /\ UNCHANGED <<queues, fStop, signaled, ready, dead, now>>
    BY DEF IoEvent, At
  <1>2. g \in Frames /\ g.op = "Body" /\ g.pc = "run" BY NoneType, NewFrames
  <1> HIDE DEF g
  <1>3. AtPlace(g) /\ Calls(Top(t), g) /\ PushHome(g)
    BY <1>1, <1>2 DEF AtPlace, Calls, PushHome
  <1>4. /\ Alone(t) /\ Stacks' /\ Shift(stack[t], stack'[t], {g})
        /\ Tame(stack[t], stack'[t]) /\ WellFormed(stack'[t]) /\ SameWaits(t)
    BY <1>1, <1>2, <1>3, CallStep
  <1>5. now' \in Nat BY <1>1 DEF IInv, TypeOK
  <1>6. left' \in [{"call", "io", "quit", "clear"} -> Nat] BY <1>1, SpendType DEF IInv
  <1>7. \A k \in {g} : PushHome(k) BY <1>3
  <1>8. UNCHANGED <<queues, fStop, signaled, ready, dead>> /\ Top(t).pc # "wake" BY <1>1
  <1> QED BY <1>4, <1>5, <1>6, <1>7, <1>8, StackStepKeeps

\* A handler or callback returns.
LEMMA ReturnKeeps ==
    ASSUME IInv, NEW t \in Threads, Return(t)
    PROVE  IInv'
  <1>1. /\ Top(t).op = "Body" /\ Top(t).pc = "run" /\ stack' = Returned(t)
        /\ UNCHANGED <<queues, fStop, signaled, ready, dead, now, left>>
    BY DEF Return, At
  <1>2. /\ Alone(t) /\ Stacks' /\ Shift(stack[t], stack'[t], {})
        /\ Tame(stack[t], stack'[t]) /\ WellFormed(stack'[t]) /\ SameWaits(t)
    BY <1>1, ReturnStep
  <1>3. now' \in Nat /\ left' \in [{"call", "io", "quit", "clear"} -> Nat]
    BY <1>1 DEF IInv, TypeOK
  <1> QED BY <1>1, <1>2, <1>3, StackStepKeeps

\* Get's Wait returns and resets the signal: Get starts over, and looks at everything.
LEMMA GetWaitKeeps ==
    ASSUME IInv, NEW t \in Threads, GetWait(t)
    PROVE  IInv'
  <1> DEFINE f == [Top(t) EXCEPT !.pc = "sends", !.until = Forever]
  <1>0. TypeOK /\ Shape BY DEF IInv
  <1>1. /\ Top(t).op = "Get" /\ Top(t).pc = "wait" /\ stack' = Moved(t, f)
        /\ signaled' = [signaled EXCEPT ![t] = FALSE]
        /\ UNCHANGED <<queues, fStop, ready, dead, now, left>>
    BY DEF GetWait, At, WaitReturns
  <1>2. /\ Stacks /\ stack[t] \in Seq(Frames) /\ stack[t] # <<>> /\ WellFormed(stack[t])
        /\ Top(t) = stack[t][Len(stack[t])] /\ Len(stack[t]) = 1 /\ Top(t) \in Frames
    BY <1>0, <1>1, TopFacts
  <1>3. f \in Frames /\ f.op = "Get" /\ f.pc = "sends" BY <1>1, <1>2 DEF Frames, Pcs, Forever
  <1> HIDE DEF f
  <1>4. Stacks' /\ Moves(stack[t], stack'[t], f) /\ Alone(t)
    BY <1>1, <1>2, <1>3, MovedMoves
  <1>5. stack'[t] \in Seq(Frames) BY <1>4 DEF Stacks
  <1>6. Shift(stack[t], stack'[t], {f}) /\ Tame(stack[t], stack'[t])
    BY <1>1, <1>2, <1>3, <1>4, <1>5, MovesTame DEF Done, LiveSend
  <1>7. WellFormed(stack'[t])
    <2>1. AtPlace(f) BY <1>3 DEF AtPlace
    <2> QED BY <1>1, <1>2, <1>3, <1>4, <2>1, ShapeMoves
  <1>8. \A k \in {f} : PushHome(k) BY <1>3 DEF PushHome
  <1>9. Len(stack'[t]) = 1 /\ stack'[t][1] = f BY <1>2, <1>4 DEF Moves
  <1>10. GetWakes(t)' BY <1>3, <1>9 DEF GetWakes, Past
  <1>11. SendWakes(t)'
    <2>1. \A i \in 1 .. 1 : i = 1 OBVIOUS
    <2> QED BY <1>3, <1>9, <2>1 DEF SendWakes
  <1>12. TypeOK' BY <1>0, <1>1, <1>4 DEF TypeOK, Stacks, queues
  <1>13. Numbered' BY <1>1 DEF IInv, Numbered, queues
  <1>14. QueueHomes' BY <1>1, QueueHomesKept DEF IInv
  <1>15. Pledges' BY <1>1, <1>4, <1>6, TameKept DEF queues
  <1>16. ASSUME NEW u \in Threads, u # t, ~signaled'[u] PROVE Calm(u)
    <2>1. ~signaled[u] BY <1>0, <1>1, <1>16 DEF TypeOK
    <2>2. \A op \in {"Send", "Quit"} : AboutToWake(op, u) => AboutToWake(op, u)'
      BY <1>1, <1>4, AboutKept DEF At
    <2> QED BY <1>1, <2>1, <2>2 DEF Calm, queues
  <1> QED BY <1>1, <1>4, <1>6, <1>7, <1>8, <1>10, <1>11, <1>12, <1>13, <1>14, <1>15, <1>16,
             StepKeeps

-----------------------------------------------------------------------------
(* What handlers do                                                        *)

\* A handler's call of something that changes nothing but the stack.
LEMMA BodyCallKeeps ==
    ASSUME IInv, NEW t \in Threads, Top(t).op = "Body", Top(t).pc = "run", Spend("call"),
           NEW g \in Frames, g.op \in {"Body", "Post", "PostDelayed", "Send"}, AtPlace(g),
           g.op = "Send" => g.pc = "push", PushHome(g),
           stack' = [stack EXCEPT ![t] = Append(@, g)],
           UNCHANGED <<queues, fStop, signaled, ready, dead, now>>
    PROVE  IInv'
  <1>1. Calls(Top(t), g) BY DEF Calls
  <1>2. /\ Alone(t) /\ Stacks' /\ Shift(stack[t], stack'[t], {g})
        /\ Tame(stack[t], stack'[t]) /\ WellFormed(stack'[t]) /\ SameWaits(t)
    BY <1>1, CallStep
  <1>3. now' \in Nat BY DEF IInv, TypeOK
  <1>4. left' \in [{"call", "io", "quit", "clear"} -> Nat] BY SpendType DEF IInv
  <1> DEFINE New == {g}
  <1>5. Shift(stack[t], stack'[t], New) /\ \A k \in New : PushHome(k) BY <1>2
  <1>6. UNCHANGED <<queues, fStop, signaled, ready, dead>> /\ Top(t).pc # "wake" OBVIOUS
  <1> HIDE DEF New
  <1> QED BY <1>2, <1>3, <1>4, <1>5, <1>6, StackStepKeeps

\* Post and Dispose, up to the test of fStop_.
LEMMA CallPostKeeps ==
    ASSUME IInv, NEW t \in Threads, NEW h \in Target, NEW to \in Threads, CallPost(t, h, to)
    PROVE  IInv'
  <1> DEFINE g == Frame("Post", "push", to, h)
  <1>1. /\ Top(t).op = "Body" /\ Top(t).pc = "run" /\ Spend("call")
        /\ h # None => h \notin dead /\ to = Home[h]
        /\ stack' = [stack EXCEPT ![t] = Append(@, g)]
        /\ UNCHANGED <<queues, fStop, signaled, ready, dead, now>>
    BY DEF CallPost, At, Live
  <1>2. g \in Frames /\ g.op = "Post" /\ g.pc = "push" /\ g.to = to /\ g.h = h
    BY NewFrames
  <1> HIDE DEF g
  <1>3. AtPlace(g) BY <1>2 DEF AtPlace
  <1>4. PushHome(g) BY <1>1, <1>2, NoneType DEF PushHome, Reaches
  <1> QED BY <1>1, <1>2, <1>3, <1>4, BodyCallKeeps

\* PostDelayed, up to the test of fStop_.
LEMMA CallPostDelayedKeeps ==
    ASSUME IInv, NEW t \in Threads, NEW h \in Handlers, NEW d \in Delays,
           CallPostDelayed(t, h, d)
    PROVE  IInv'
  <1> DEFINE e == Frame("PostDelayed", "push", Home[h], h)
             g == [e EXCEPT !.trigger = TimeAfter(d), !.until = now + d]
  <1>1. /\ Top(t).op = "Body" /\ Top(t).pc = "run" /\ Spend("call") /\ h \notin dead
        /\ stack' = [stack EXCEPT ![t] = Append(@, g)]
        /\ UNCHANGED <<queues, fStop, signaled, ready, dead, now>>
    BY DEF CallPostDelayed, At, Live
  <1>2. h \in Target /\ Home[h] \in Threads BY HomeAssumption DEF Target
  <1>3. e \in Frames /\ e.op = "PostDelayed" /\ e.pc = "push" /\ e.to = Home[h] /\ e.h = h
    BY <1>2, NewFrames
  <1>4. d \in Nat /\ now \in Nat /\ Time \in Nat
    <2>1. now \in Nat BY DEF IInv, TypeOK
    <2>2. Time \in 0 .. TimeMod - 1 BY <2>1, TimeType
    <2> QED BY <2>1, <2>2, TimeAssumption
  <1>5. TimeAfter(d) \in 0 .. TimeMod - 1 /\ now + d \in Nat
    BY <1>4, TimeAssumption DEF TimeAfter
  <1> HIDE DEF e
  <1>6. /\ g \in Frames /\ g.op = "PostDelayed" /\ g.pc = "push" /\ g.to = Home[h] /\ g.h = h
        /\ g.until \in Nat
    BY <1>3, <1>5 DEF Frames
  <1> HIDE DEF g
  <1>7. AtPlace(g) BY <1>6 DEF AtPlace
  <1>8. PushHome(g) BY <1>1, <1>6 DEF PushHome, Reaches, Forever
  <1> QED BY <1>1, <1>6, <1>7, <1>8, BodyCallKeeps

\* Send, up to the test of fStop_; a Send to the current thread calls the handler.
LEMMA CallSendKeeps ==
    ASSUME IInv, NEW t \in Threads, NEW h \in Handlers, CallSend(t, h)
    PROVE  IInv'
  <1> DEFINE b == Frame("Body", "run", t, h)
             s == Frame("Send", "push", Home[h], h)
             g == IF Home[h] = t THEN b ELSE s
  <1>1. /\ Top(t).op = "Body" /\ Top(t).pc = "run" /\ Spend("call") /\ h \notin dead
        /\ stack' = [stack EXCEPT ![t] = Append(@, g)]
        /\ UNCHANGED <<queues, fStop, signaled, ready, dead, now>>
    BY DEF CallSend, At, Live
  <1>2. h \in Target /\ Home[h] \in Threads BY HomeAssumption DEF Target
  <1>3. /\ b \in Frames /\ b.op = "Body" /\ b.pc = "run"
        /\ s \in Frames /\ s.op = "Send" /\ s.pc = "push" /\ s.to = Home[h] /\ s.h = h
    BY <1>2, NewFrames
  <1> HIDE DEF b, s
  <1>4. /\ g \in Frames /\ g.op \in {"Body", "Send"} /\ (g.op = "Send" => g.pc = "push")
        /\ g.op = "Body" => g.pc = "run"
        /\ g.op = "Send" => g.to = Home[h] /\ g.h = h
    BY <1>3
  <1> HIDE DEF g
  <1>5. AtPlace(g) BY <1>4 DEF AtPlace
  <1>6. PushHome(g) BY <1>1, <1>4 DEF PushHome, Reaches
  <1> QED BY <1>1, <1>4, <1>5, <1>6, BodyCallKeeps

\* Quit sets fStop_ and is about to wake the thread.
LEMMA CallQuitKeeps ==
    ASSUME IInv, NEW t \in Threads, NEW to \in Threads, CallQuit(t, to)
    PROVE  IInv'
  <1> DEFINE g == Frame("Quit", "wake", to, None)
  <1>1. /\ Top(t).op = "Body" /\ Top(t).pc = "run" /\ Spend("quit")
        /\ fStop' = [fStop EXCEPT ![to] = TRUE]
        /\ stack' = [stack EXCEPT ![t] = Append(@, g)]
        /\ UNCHANGED <<queues, signaled, ready, dead, now>>
    BY DEF CallQuit, At
  <1>2. g \in Frames /\ g.op = "Quit" /\ g.pc = "wake" /\ g.to = to BY NoneType, NewFrames
  <1> HIDE DEF g
  <1>3. AtPlace(g) /\ Calls(Top(t), g) /\ PushHome(g)
    BY <1>1, <1>2 DEF AtPlace, Calls, PushHome
  <1>4. /\ Alone(t) /\ Stacks' /\ Shift(stack[t], stack'[t], {g})
        /\ Tame(stack[t], stack'[t]) /\ WellFormed(stack'[t]) /\ SameWaits(t)
    BY <1>1, <1>2, <1>3, CallStep
  <1>5. left' \in [{"call", "io", "quit", "clear"} -> Nat] BY <1>1, SpendType DEF IInv
  <1>6. TypeOK' BY <1>1, <1>4, <1>5 DEF IInv, TypeOK, Stacks, queues
  <1>7. Numbered' BY <1>1 DEF IInv, Numbered, queues
  <1>8. QueueHomes' BY <1>1, QueueHomesKept DEF IInv
  <1>9. Pledges' BY <1>1, <1>4, TameKept DEF queues
  <1>10. AboutToWake("Quit", to)'
    <2>1. /\ Stacks /\ stack[t] \in Seq(Frames) BY TopFacts DEF IInv
    <2>2. Pushes(stack[t], stack'[t], g) BY <1>1, <1>2, <2>1, AppendedPushes
    <2>3. Top(t)' = g BY <2>2 DEF Pushes, Top, Last
    <2> QED BY <1>2, <2>3 DEF AboutToWake, At
  <1>11. ASSUME NEW u \in Threads, ~signaled'[u] PROVE Calm(u)
    <2>1. \A op \in {"Send", "Quit"} : AboutToWake(op, u) => AboutToWake(op, u)'
      BY <1>1, <1>4, AboutKept DEF At
    <2>2. u # to => fStop'[u] = fStop[u] BY <1>1 DEF IInv, TypeOK
    <2> QED BY <1>1, <1>10, <1>11, <2>1, <2>2 DEF Calm, queues
  <1> DEFINE New == {g}
  <1>12. Shift(stack[t], stack'[t], New) /\ \A k \in New : PushHome(k) BY <1>3, <1>4
  <1>13. \A u \in Threads : ~signaled'[u] => Calm(u) BY <1>11
  <1> HIDE DEF New
  <1> QED BY <1>1, <1>4, <1>6, <1>7, <1>8, <1>9, <1>12, <1>13, StepKeeps

\* Post queues the message and wakes the thread.
LEMMA PostKeeps ==
    ASSUME IInv, NEW t \in Threads, Post(t)
    PROVE  IInv'
  <1> DEFINE x == Top(t).to
             h == Top(t).h
  <1>0. TypeOK /\ Shape /\ Homes BY DEF IInv
  <1>1. /\ Top(t).op = "Post" /\ Top(t).pc = "push" /\ stack' = Returned(t)
        /\ msgq' = [msgq EXCEPT ![x] = Append(@, h)]
        /\ signaled' = [signaled EXCEPT ![x] = TRUE]
        /\ UNCHANGED <<dmsgq, dnum, sendlist, fStop, ready, dead, now, left>>
    BY DEF Post, At, WakeUp
  <1>2. Top(t) \in Frames /\ Top(t) = stack[t][Len(stack[t])] /\ Len(stack[t]) \in 1 .. Len(stack[t])
    BY <1>0, TopFacts
  <1>3. x \in Threads /\ h \in Target BY <1>2 DEF Frames
  <1>4. Reaches(h, x)
    <2>1. PushHome(stack[t][Len(stack[t])]) BY <1>0, <1>2 DEF Homes
    <2> QED BY <1>1, <1>2, <2>1 DEF PushHome
  <1> HIDE DEF x, h
  <1>5. /\ Alone(t) /\ Stacks' /\ Shift(stack[t], stack'[t], {})
        /\ Tame(stack[t], stack'[t]) /\ WellFormed(stack'[t]) /\ SameWaits(t)
    BY <1>1, ReturnStep
  <1>6. msgq[x] \in Seq(Target) BY <1>0, <1>3 DEF TypeOK
  <1>7. /\ Append(msgq[x], h) \in Seq(Target) /\ Len(Append(msgq[x], h)) = Len(msgq[x]) + 1
        /\ \A i \in 1 .. Len(msgq[x]) + 1 :
              Append(msgq[x], h)[i] = IF i <= Len(msgq[x]) THEN msgq[x][i] ELSE h
    BY <1>3, <1>6
  <1>8. msgq'[x] = Append(msgq[x], h) /\ \A u \in Threads : u # x => msgq'[u] = msgq[u]
    BY <1>0, <1>1, <1>3 DEF TypeOK
  <1>9. TypeOK'
    <2>1. msgq' \in [Threads -> Seq(Target)] BY <1>0, <1>1, <1>3, <1>7 DEF TypeOK
    <2> QED BY <1>0, <1>1, <1>5, <2>1 DEF TypeOK, Stacks
  <1>10. Numbered' BY <1>1 DEF IInv, Numbered
  <1>11. QueueHomes'
    <2>1. ASSUME NEW u \in Threads, NEW i \in 1 .. Len(msgq'[u])
          PROVE  Reaches(msgq'[u][i], u)
      <3>1. CASE u # x BY <1>0, <1>8, <3>1 DEF Homes
      <3>2. CASE u = x
        <4>1. Len(msgq[x]) \in Nat BY <1>6
        <4>2. CASE i <= Len(msgq[x])
          <5>1. i \in 1 .. Len(msgq[x]) BY <4>1, <4>2, <3>2, <1>7, <1>8
          <5> QED BY <1>0, <1>3, <1>7, <1>8, <3>2, <4>2, <5>1 DEF Homes
        <4>3. CASE ~(i <= Len(msgq[x])) BY <1>4, <1>7, <1>8, <3>2, <4>3
        <4> QED BY <4>2, <4>3
      <3> QED BY <3>1, <3>2
    <2>2. \A k, u : Reaches(k, u) => Reaches(k, u)' BY <1>1 DEF Reaches
    <2> QED BY <1>0, <1>1, <2>1, <2>2 DEF QueueHomes, Homes, Reaches
  <1>12. Pledges' BY <1>1, <1>5, TameKept
  <1>13. \A u \in Threads : ~signaled'[u] => Calm(u)
    BY <1>0, <1>1, <1>3, <1>5, <1>8, CalmWake
  <1> QED BY <1>1, <1>5, <1>9, <1>10, <1>11, <1>12, <1>13, StepKeeps

\* DoDelayPost queues the message under a number of its own and wakes the thread.
LEMMA DoDelayPostKeeps ==
    ASSUME IInv, NEW t \in Threads, DoDelayPost(t)
    PROVE  IInv'
  <1> DEFINE x == Top(t).to
             m == [trigger |-> Top(t).trigger, num |-> dnum[x], h |-> Top(t).h,
                   due |-> Top(t).until]
  <1>0. TypeOK /\ Shape /\ Homes /\ Numbered BY DEF IInv
  <1>1. /\ Top(t).op = "PostDelayed" /\ Top(t).pc = "push" /\ stack' = Returned(t)
        /\ dmsgq' = [dmsgq EXCEPT ![x] = @ \cup {m}]
        /\ dnum' = [dnum EXCEPT ![x] = @ + 1]
        /\ signaled' = [signaled EXCEPT ![x] = TRUE]
        /\ UNCHANGED <<msgq, sendlist, fStop, ready, dead, now, left>>
    BY DEF DoDelayPost, At, WakeUp
  <1>2. Top(t) \in Frames /\ Top(t) = stack[t][Len(stack[t])] /\ Len(stack[t]) \in 1 .. Len(stack[t])
    BY <1>0, TopFacts
  <1>3. x \in Threads /\ Top(t).trigger \in 0 .. TimeMod - 1 BY <1>2 DEF Frames
  <1>4. PushHome(Top(t)) BY <1>0, <1>2 DEF Homes
  <1>5. Top(t).h \in Handlers /\ Reaches(Top(t).h, x) /\ Top(t).until \in Nat
    BY <1>1, <1>2, <1>4 DEF PushHome, Frames
  <1>6. dnum[x] \in Nat BY <1>0, <1>3 DEF TypeOK
  <1>7. m \in DelayedMessage /\ m.num = dnum[x] /\ Reaches(m.h, x)
    BY <1>3, <1>5, <1>6 DEF DelayedMessage
  <1> HIDE DEF x, m
  <1>8. /\ Alone(t) /\ Stacks' /\ Shift(stack[t], stack'[t], {})
        /\ Tame(stack[t], stack'[t]) /\ WellFormed(stack'[t]) /\ SameWaits(t)
    BY <1>1, ReturnStep
  <1>9. /\ dmsgq'[x] = dmsgq[x] \cup {m} /\ dnum'[x] = dnum[x] + 1
        /\ \A u \in Threads : u # x => dmsgq'[u] = dmsgq[u] /\ dnum'[u] = dnum[u]
    BY <1>0, <1>1, <1>3 DEF TypeOK
  <1>10. TypeOK'
    <2>1. dmsgq' \in [Threads -> SUBSET DelayedMessage] BY <1>0, <1>1, <1>3, <1>7 DEF TypeOK
    <2>2. dnum' \in [Threads -> Nat] BY <1>0, <1>1, <1>3 DEF TypeOK
    <2> QED BY <1>0, <1>1, <1>8, <2>1, <2>2 DEF TypeOK, Stacks
  <1>11. Numbered'
    <2>1. /\ IsFiniteSet(dmsgq[x]) /\ \A d \in dmsgq[x] : d.num < dnum[x] /\ d.num \in Nat
          /\ \A d, e \in dmsgq[x] : d.num = e.num => d = e
      BY <1>0, <1>3 DEF Numbered, TypeOK, DelayedMessage
    <2>2. IsFiniteSet(dmsgq[x] \cup {m}) BY <2>1, FS_AddElement
    <2>3. \A d \in dmsgq[x] \cup {m} : d.num < dnum[x] + 1 BY <1>6, <1>7, <2>1
    <2>4. \A d, e \in dmsgq[x] \cup {m} : d.num = e.num => d = e BY <1>6, <1>7, <2>1
    <2> QED BY <1>0, <1>9, <2>2, <2>3, <2>4 DEF Numbered
  <1>12. QueueHomes'
    <2>1. ASSUME NEW u \in Threads, NEW d \in dmsgq'[u] PROVE Reaches(d.h, u)
      BY <1>0, <1>7, <1>9 DEF Homes
    <2> QED BY <1>0, <1>1, <2>1 DEF QueueHomes, Homes, Reaches
  <1>13. Pledges' BY <1>1, <1>8, TameKept
  <1>14. \A u \in Threads : ~signaled'[u] => Calm(u)
    BY <1>0, <1>1, <1>3, <1>8, <1>9, CalmWake
  <1> QED BY <1>1, <1>8, <1>10, <1>11, <1>12, <1>13, <1>14, StepKeeps

\* Quit wakes the thread.
LEMMA QuitKeeps ==
    ASSUME IInv, NEW t \in Threads, Quit(t)
    PROVE  IInv'
  <1> DEFINE x == Top(t).to
  <1>0. TypeOK /\ Shape BY DEF IInv
  <1>1. /\ Top(t).op = "Quit" /\ Top(t).pc = "wake" /\ stack' = Returned(t)
        /\ signaled' = [signaled EXCEPT ![x] = TRUE]
        /\ UNCHANGED <<queues, fStop, ready, dead, now, left>>
    BY DEF Quit, At, WakeUp
  <1>2. Top(t) \in Frames BY <1>0, TopFacts
  <1>3. x \in Threads BY <1>2 DEF Frames
  <1>4. /\ Alone(t) /\ Stacks' /\ Shift(stack[t], stack'[t], {})
        /\ Tame(stack[t], stack'[t]) /\ WellFormed(stack'[t]) /\ SameWaits(t)
    BY <1>1, ReturnStep
  <1>5. TypeOK' BY <1>0, <1>1, <1>4 DEF TypeOK, Stacks, queues
  <1>6. Numbered' BY <1>1 DEF IInv, Numbered, queues
  <1>7. QueueHomes' BY <1>1, QueueHomesKept DEF IInv
  <1>8. Pledges' BY <1>1, <1>4, TameKept DEF queues
  <1>9. \A u \in Threads : ~signaled'[u] => Calm(u)
    BY <1>0, <1>1, <1>3, <1>4, CalmWake DEF queues
  <1> QED BY <1>1, <1>4, <1>5, <1>6, <1>7, <1>8, <1>9, StepKeeps

-----------------------------------------------------------------------------
(* The steps of Send                                                       *)

\* Send wakes the target after it has queued its message.
LEMMA SendWakeKeeps ==
    ASSUME IInv, NEW t \in Threads, SendWake(t)
    PROVE  IInv'
  <1> DEFINE x == Top(t).to
             f == [Top(t) EXCEPT !.pc = "test"]
  <1>0. TypeOK /\ Shape BY DEF IInv
  <1>1. /\ Top(t).op = "Send" /\ Top(t).pc = "wake" /\ stack' = Moved(t, f)
        /\ signaled' = [signaled EXCEPT ![x] = TRUE]
        /\ UNCHANGED <<queues, fStop, ready, dead, now, left>>
    BY DEF SendWake, At, WakeUp, Step
  <1>2. /\ Stacks /\ stack[t] \in Seq(Frames) /\ stack[t] # <<>> /\ WellFormed(stack[t])
        /\ Top(t) = stack[t][Len(stack[t])] /\ Top(t) \in Frames
    BY <1>0, <1>1, TopFacts
  <1>3. x \in Threads BY <1>2 DEF Frames
  <1>4. f \in Frames /\ f.op = "Send" /\ f.pc = "test" /\ f.waited = Top(t).waited
    BY <1>1, <1>2 DEF Frames, Pcs
  <1> HIDE DEF f
  <1>5. Stacks' /\ Moves(stack[t], stack'[t], f) /\ Alone(t)
    BY <1>1, <1>2, <1>4, MovedMoves
  <1>6. stack'[t] \in Seq(Frames) BY <1>5 DEF Stacks
  <1>7. Shift(stack[t], stack'[t], {f}) /\ Tame(stack[t], stack'[t])
    BY <1>1, <1>2, <1>4, <1>5, <1>6, MovesTame DEF Done, LiveSend
  <1>8. WellFormed(stack'[t])
    <2>1. AtPlace(f) BY <1>4 DEF AtPlace
    <2> QED BY <1>1, <1>2, <1>4, <1>5, <2>1, ShapeMoves
  <1>9. SameWaits(t)
    <2>1. Top(t).op # "Get" /\ f.pc # "wait" BY <1>1, <1>4
    <2>2. Top(t).waited => f.op = "Send" /\ f.waited BY <1>4
    <2> QED BY <1>0, <1>2, <1>5, <2>1, <2>2, MovesWaits
  <1>10. TypeOK' BY <1>0, <1>1, <1>5 DEF TypeOK, Stacks, queues
  <1>11. Numbered' BY <1>1 DEF IInv, Numbered, queues
  <1>12. QueueHomes' BY <1>1, QueueHomesKept DEF IInv
  <1>13. Pledges' BY <1>1, <1>5, <1>7, TameKept DEF queues
  <1>14. \A u \in Threads : ~signaled'[u] => Calm(u)
    BY <1>0, <1>1, <1>3, <1>5, CalmWake DEF queues
  <1> DEFINE New == {f}
  <1>15. Shift(stack[t], stack'[t], New) /\ \A k \in New : PushHome(k)
    BY <1>4, <1>7 DEF PushHome
  <1> HIDE DEF New
  <1> QED BY <1>1, <1>5, <1>8, <1>9, <1>10, <1>11, <1>12, <1>13, <1>14, <1>15, StepKeeps

\* Send's Wait returns: the signal it has reset is owed from now on.
LEMMA SendWaitKeeps ==
    ASSUME IInv, NEW t \in Threads, SendWait(t)
    PROVE  IInv'
  <1> DEFINE f == [Top(t) EXCEPT !.pc = "test", !.waited = TRUE]
             n == Len(stack[t])
  <1>0. TypeOK /\ Shape BY DEF IInv
  <1>1. /\ Top(t).op = "Send" /\ Top(t).pc = "wait" /\ stack' = Moved(t, f)
        /\ signaled' = [signaled EXCEPT ![t] = FALSE]
        /\ UNCHANGED <<queues, fStop, ready, dead, now, left>>
    BY DEF SendWait, At, WaitReturns
  <1>2. /\ Stacks /\ stack[t] \in Seq(Frames) /\ stack[t] # <<>> /\ WellFormed(stack[t])
        /\ Top(t) = stack[t][n] /\ Top(t) \in Frames /\ n \in Nat /\ n > 1
    BY <1>0, <1>1, TopFacts
  <1>3. f \in Frames /\ f.op = "Send" /\ f.pc = "test" /\ f.waited
    BY <1>1, <1>2 DEF Frames, Pcs
  <1> HIDE DEF f
  <1>4. Stacks' /\ Moves(stack[t], stack'[t], f) /\ Alone(t)
    BY <1>1, <1>2, <1>3, MovedMoves
  <1>5. stack'[t] \in Seq(Frames) BY <1>4 DEF Stacks
  <1>6. Shift(stack[t], stack'[t], {f}) /\ Tame(stack[t], stack'[t])
    BY <1>1, <1>2, <1>3, <1>4, <1>5, MovesTame DEF Done, LiveSend
  <1>7. WellFormed(stack'[t])
    <2>1. AtPlace(f) BY <1>3 DEF AtPlace
    <2> QED BY <1>1, <1>2, <1>3, <1>4, <2>1, ShapeMoves
  <1>8. Len(stack'[t]) = n /\ stack'[t][n] = f BY <1>4 DEF Moves
  <1> HIDE DEF n
  <1>9. \A i \in Nat : i < n => Owed(t, i)'
    <2>1. n \in 1 .. n /\ \A i \in Nat : i < n => n > i BY <1>2
    <2> QED BY <1>3, <1>8, <2>1 DEF Owed
  <1>10. GetWakes(t)'
    <2>1. Owed(t, 1)' BY <1>2, <1>9
    <2> QED BY <2>1 DEF GetWakes, Quiet
  <1>11. SendWakes(t)'
    <2>1. ASSUME NEW i \in 1 .. n, stack'[t][i].pc = "wait" PROVE Owed(t, i)'
      <3>1. i # n BY <1>3, <1>8, <2>1
      <3>2. i \in Nat /\ i < n BY <1>2, <3>1
      <3> QED BY <1>9, <3>2
    <2> QED BY <1>8, <2>1 DEF SendWakes, Quiet
  <1>12. TypeOK' BY <1>0, <1>1, <1>4 DEF TypeOK, Stacks, queues
  <1>13. Numbered' BY <1>1 DEF IInv, Numbered, queues
  <1>14. QueueHomes' BY <1>1, QueueHomesKept DEF IInv
  <1>15. Pledges' BY <1>1, <1>4, <1>6, TameKept DEF queues
  <1>16. ASSUME NEW u \in Threads, u # t, ~signaled'[u] PROVE Calm(u)
    <2>1. ~signaled[u] BY <1>0, <1>1, <1>16 DEF TypeOK
    <2>2. \A op \in {"Send", "Quit"} : AboutToWake(op, u) => AboutToWake(op, u)'
      BY <1>1, <1>4, AboutKept DEF At
    <2> QED BY <1>1, <2>1, <2>2 DEF Calm, queues
  <1>17. \A u \in Threads : u # t /\ ~signaled'[u] => Calm(u) BY <1>16
  <1> DEFINE New == {f}
  <1>18. Shift(stack[t], stack'[t], New) /\ \A k \in New : PushHome(k)
    BY <1>3, <1>6 DEF PushHome
  <1> HIDE DEF New
  <1> QED BY <1>1, <1>4, <1>7, <1>10, <1>11, <1>12, <1>13, <1>14, <1>15, <1>17, <1>18,
             StepKeeps

\* Send finds its flag not set: it serves the messages sent to its own thread, then waits.
LEMMA SendTestWaits ==
    ASSUME IInv, NEW t \in Threads, SendTest(t), ~Released(t)
    PROVE  IInv'
  <1> DEFINE f == [Top(t) EXCEPT !.pc = "wait"]
             g == Frame("ReceiveSends", "loop", t, None)
             n == Len(stack[t])
  <1>0. TypeOK /\ Shape BY DEF IInv
  <1>1. /\ Top(t).op = "Send" /\ Top(t).pc = "test" /\ stack' = Called(t, f, g)
        /\ <<t, n>> \notin ready
        /\ UNCHANGED <<queues, fStop, signaled, ready, dead, now, left>>
    BY DEF SendTest, At, Step, Released
  <1>2. g \in Frames /\ g.op = "ReceiveSends" /\ g.pc = "loop" BY NoneType, NewFrames
  <1>3. /\ Stacks /\ stack[t] \in Seq(Frames) /\ stack[t] # <<>> /\ WellFormed(stack[t])
        /\ Top(t) = stack[t][n] /\ Top(t) \in Frames /\ n \in Nat /\ n > 1
    BY <1>0, <1>1, TopFacts
  <1>4. f \in Frames /\ f.op = "Send" /\ f.pc = "wait" /\ f.waited = Top(t).waited
    BY <1>1, <1>3 DEF Frames, Pcs
  <1> HIDE DEF f, g
  <1>5. Stacks' /\ Enters(stack[t], stack'[t], f, g) /\ Alone(t)
    BY <1>1, <1>2, <1>3, <1>4, CalledEnters
  <1>6. stack'[t] \in Seq(Frames) BY <1>5 DEF Stacks
  <1>7. Shift(stack[t], stack'[t], {f, g}) /\ Tame(stack[t], stack'[t])
    BY <1>1, <1>2, <1>3, <1>4, <1>5, <1>6, EntersTame DEF Done, LiveSend
  <1>8. WellFormed(stack'[t])
    <2>1. AtPlace(f) /\ AtPlace(g) /\ Calls(f, g) BY <1>2, <1>4 DEF AtPlace, Calls
    <2> QED BY <1>1, <1>3, <1>4, <1>5, <1>6, <2>1, ShapeEnters
  <1>9. SameWaits(t)
    <2>1. /\ Len(stack[t]) = n /\ Len(stack'[t]) = n + 1
          /\ stack'[t][n + 1] = g /\ stack'[t][n] = f
          /\ \A i \in 1 .. n : i < n => stack'[t][i] = stack[t][i]
          /\ stack[t][n] = Top(t)
      BY <1>3, <1>5 DEF Enters
    <2> HIDE DEF n
    <2>2. stack'[t][1] = stack[t][1] BY <1>3, <2>1
    <2>3. Past(t)' => Past(t)
      <3>1. Len(stack'[t]) # 1 BY <1>3, <2>1
      <3> QED BY <2>2, <3>1 DEF Past
    <2>4. ASSUME NEW i \in Nat, Owed(t, i) PROVE Owed(t, i)'
      <3>1. PICK j \in 1 .. n : j > i /\ stack[t][j].op = "Send" /\ stack[t][j].waited
        BY <2>1, <2>4 DEF Owed
      <3>2. j = n \/ j < n BY <1>3
      <3>3. stack'[t][j].op = "Send" /\ stack'[t][j].waited BY <1>4, <2>1, <3>1, <3>2
      <3>4. j \in 1 .. n + 1 BY <1>3
      <3> QED BY <2>1, <3>1, <3>3, <3>4 DEF Owed
    <2>5. ASSUME NEW i \in 1 .. n + 1, stack'[t][i].op = "Send", stack'[t][i].pc = "wait"
          PROVE  i # n + 1 /\ (i = n \/ (i \in 1 .. n /\ stack'[t][i] = stack[t][i]))
      <3>1. i = n + 1 \/ i = n \/ (i \in 1 .. n /\ i < n) BY <1>3
      <3> QED BY <1>2, <2>1, <2>5, <3>1
    <2>6. n # n + 1 BY <1>3
    <2> QED BY <1>1, <2>1, <2>2, <2>3, <2>4, <2>5, <2>6 DEF SameWaits
  <1>10. now' \in Nat /\ left' \in [{"call", "io", "quit", "clear"} -> Nat]
    BY <1>0, <1>1 DEF TypeOK
  <1>11. UNCHANGED <<queues, fStop, signaled, ready, dead>> /\ Top(t).pc # "wake" BY <1>1
  <1> DEFINE New == {f, g}
  <1>12. Shift(stack[t], stack'[t], New) /\ \A k \in New : PushHome(k)
    BY <1>2, <1>4, <1>7 DEF PushHome
  <1> HIDE DEF New
  <1> QED BY <1>5, <1>7, <1>8, <1>9, <1>10, <1>11, <1>12, StackStepKeeps

\* Send finds its flag set and returns, raising the signal again where it has reset it.
LEMMA SendTestReturns ==
    ASSUME IInv, NEW t \in Threads, SendTest(t), Released(t)
    PROVE  IInv'
  <1> DEFINE n == Len(stack[t])
  <1>0. TypeOK /\ Shape /\ Pledges BY DEF IInv
  <1>1. /\ Top(t).op = "Send" /\ Top(t).pc = "test" /\ stack' = Returned(t)
        /\ <<t, n>> \in ready /\ ready' = ready \ {<<t, n>>}
        /\ signaled' = IF Top(t).waited THEN [signaled EXCEPT ![t] = TRUE] ELSE signaled
        /\ UNCHANGED <<queues, fStop, dead, now, left>>
    BY DEF SendTest, At, Released, SendLeaves, WakeUp
  <1>2. /\ Stacks /\ stack[t] \in Seq(Frames) /\ stack[t] # <<>> /\ WellFormed(stack[t])
        /\ Top(t) = stack[t][n] /\ Top(t) \in Frames /\ n \in Nat /\ n > 1
    BY <1>0, <1>1, TopFacts
  <1>3. Stacks' /\ Pops(stack[t], stack'[t]) /\ Alone(t) BY <1>1, <1>2, ReturnedPops
  <1>4. stack'[t] \in Seq(Frames) BY <1>3 DEF Stacks
  <1>5. Shift(stack[t], stack'[t], {}) /\ SameDones(stack[t], stack'[t])
    BY <1>2, <1>3, <1>4, PopsTame
  <1>6. WellFormed(stack'[t]) BY <1>2, <1>3, ShapePops
  <1>7. Top(t).waited \in BOOLEAN BY <1>2 DEF Frames
  <1>8. TypeOK'
    <2>1. signaled' \in [Threads -> BOOLEAN] BY <1>0, <1>1 DEF TypeOK
    <2>2. ready' \subseteq Address BY <1>0, <1>1 DEF TypeOK
    <2> QED BY <1>0, <1>1, <1>3, <2>1, <2>2 DEF TypeOK, Stacks, queues
  <1>9. Numbered' BY <1>1 DEF IInv, Numbered, queues
  <1>10. QueueHomes' BY <1>1, QueueHomesKept DEF IInv
  <1>11. Pledges'
    <2>1. \A u \in Threads : SameDones(stack[u], stack'[u])
      <3>1. \A u \in Threads : stack[u] \in Seq(Frames) BY <1>0 DEF TypeOK
      <3>2. \A u \in Threads : u # t => SameDones(stack[u], stack'[u])
        BY <1>3, <3>1, AlwaysTame DEF Alone, Tame
      <3> QED BY <1>5, <3>2
    <2>2. ASSUME NEW a \in Address, a # <<t, n>>, Points(stack, a)
          PROVE  Points(stack', a)
      <3>1. a[1] \in Threads /\ a[2] \in Nat /\ a = <<a[1], a[2]>> BY DEF Address
      <3>2. CASE a[1] # t BY <1>3, <2>2, <3>1, <3>2 DEF Alone, Points
      <3>3. CASE a[1] = t
        <4>1. a[2] # n /\ a[2] \in 1 .. n BY <2>2, <3>1, <3>3 DEF Points
        <4>2. /\ Len(stack'[t]) = n - 1
              /\ \A i \in 1 .. n : i < n => stack'[t][i] = stack[t][i]
          BY <1>3 DEF Pops
        <4> HIDE DEF n
        <4>3. a[2] < n /\ a[2] \in 1 .. n - 1 BY <1>2, <4>1
        <4> QED BY <2>2, <3>3, <4>1, <4>2, <4>3 DEF Points
      <3> QED BY <3>2, <3>3
    <2>3. \A a \in Address : a \notin ready \ ready' /\ Points(stack, a) => Points(stack', a)
      BY <1>1, <2>2
    <2>4. sendlist' = sendlist /\ ready' \subseteq ready BY <1>1 DEF queues
    <2> QED BY <1>0, <2>1, <2>3, <2>4, PledgesKept
  <1>12. \A u \in Threads : ~signaled'[u] => Calm(u)
    <2>1. CASE Top(t).waited
      <3>1. signaled' = [signaled EXCEPT ![t] = TRUE] BY <1>1, <2>1
      <3>2. sendlist' = sendlist /\ fStop' = fStop /\ ready' \subseteq ready BY <1>1 DEF queues
      <3>3. \A u \in Threads : u # t => msgq'[u] = msgq[u] /\ dmsgq'[u] = dmsgq[u]
        BY <1>1 DEF queues
      <3>4. Top(t).pc # "wake" BY <1>1
      <3> QED BY <1>0, <1>3, <3>1, <3>2, <3>3, <3>4, CalmWake
    <2>2. CASE ~Top(t).waited
      <3>1. signaled' = signaled BY <1>1, <2>2
      <3> SUFFICES ASSUME NEW u \in Threads, ~signaled'[u] PROVE Calm(u) OBVIOUS
      <3>2. \A op \in {"Send", "Quit"} : AboutToWake(op, u) => AboutToWake(op, u)'
        BY <1>1, <1>3, AboutKept DEF At
      <3> QED BY <1>1, <3>1, <3>2 DEF Calm, queues
    <2> QED BY <2>1, <2>2
  <1>13. ~signaled'[t] => SameWaits(t)
    <2>1. Top(t).waited => signaled'[t] BY <1>0, <1>1 DEF TypeOK
    <2> QED BY <1>0, <1>1, <1>2, <1>3, <2>1, PopsWaits
  <1>14. dead' = dead BY <1>1
  <1> QED BY <1>3, <1>5, <1>6, <1>8, <1>9, <1>10, <1>11, <1>12, <1>13, <1>14, StepKeeps

\* Send queues a message with the address of its flag, that no other message has.
LEMMA SendPushKeeps ==
    ASSUME IInv, NEW t \in Threads, SendPush(t)
    PROVE  IInv'
  <1> DEFINE f == [Top(t) EXCEPT !.pc = "wake"]
             x == Top(t).to
             n == Len(stack[t])
             smsg == [thread |-> t, ready |-> <<t, n>>, h |-> Top(t).h]
             q == Append(sendlist[x], smsg)
             l == Len(sendlist[x])
  <1>0. TypeOK /\ Shape /\ Homes /\ Pledges BY DEF IInv
  <1>1. /\ Top(t).op = "Send" /\ Top(t).pc = "push" /\ stack' = Moved(t, f)
        /\ sendlist' = [sendlist EXCEPT ![x] = q]
        /\ UNCHANGED <<msgq, dmsgq, dnum, fStop, signaled, ready, dead, now, left>>
    BY DEF SendPush, At, Step
  <1>2. /\ Stacks /\ stack[t] \in Seq(Frames) /\ stack[t] # <<>> /\ WellFormed(stack[t])
        /\ Top(t) = stack[t][n] /\ Top(t) \in Frames /\ n \in Nat /\ n > 1
    BY <1>0, <1>1, TopFacts
  <1>3. PushHome(Top(t))
    <2>1. n \in 1 .. n BY <1>2
    <2> QED BY <1>0, <1>2, <2>1 DEF Homes
  <1>4. x \in Threads /\ Top(t).h \in Handlers /\ Reaches(Top(t).h, x)
    BY <1>1, <1>2, <1>3 DEF Frames, PushHome
  <1>5. /\ smsg \in SendMessage /\ smsg.thread = t /\ smsg.ready = <<t, n>>
        /\ smsg.h = Top(t).h
    BY <1>2, <1>4 DEF SendMessage, Address
  <1>6. /\ f \in Frames /\ f.op = "Send" /\ f.pc = "wake" /\ f.to = x
        /\ f.waited = Top(t).waited
    BY <1>1, <1>2 DEF Frames, Pcs
  <1> HIDE DEF f, smsg
  <1>7. sendlist[x] \in Seq(SendMessage) /\ l \in Nat BY <1>0, <1>4 DEF TypeOK
  <1>8. /\ q \in Seq(SendMessage) /\ Len(q) = l + 1 /\ q[l + 1] = smsg
        /\ \A i \in 1 .. l : q[i] = sendlist[x][i]
    BY <1>5, <1>7
  <1> HIDE DEF q, l
  <1>9. sendlist'[x] = q /\ \A u \in Threads : u # x => sendlist'[u] = sendlist[u]
    BY <1>0, <1>1, <1>4 DEF TypeOK
  <1>10. Stacks' /\ Moves(stack[t], stack'[t], f) /\ Alone(t)
    BY <1>1, <1>2, <1>6, MovedMoves
  <1>11. stack'[t] \in Seq(Frames) BY <1>10 DEF Stacks
  <1>12. Shift(stack[t], stack'[t], {f}) /\ Tame(stack[t], stack'[t])
    BY <1>1, <1>2, <1>6, <1>10, <1>11, MovesTame DEF Done, LiveSend
  <1>13. WellFormed(stack'[t])
    <2>1. AtPlace(f) BY <1>6 DEF AtPlace
    <2> QED BY <1>1, <1>2, <1>6, <1>10, <2>1, ShapeMoves
  <1>14. SameWaits(t)
    <2>1. Top(t).op # "Get" /\ f.pc # "wait" BY <1>1, <1>6
    <2>2. Top(t).waited => f.op = "Send" /\ f.waited BY <1>6
    <2> QED BY <1>0, <1>2, <1>10, <2>1, <2>2, MovesWaits
  <1>15. TypeOK'
    <2>1. sendlist' \in [Threads -> Seq(SendMessage)] BY <1>0, <1>1, <1>4, <1>8 DEF TypeOK
    <2> QED BY <1>0, <1>1, <1>10, <2>1 DEF TypeOK, Stacks
  <1>16. Numbered' BY <1>1 DEF IInv, Numbered
  \* A queued message is an old one or the new one.
  <1>17. ASSUME NEW u \in Threads, NEW i \in 1 .. Len(sendlist'[u])
         PROVE  \/ /\ i \in 1 .. Len(sendlist[u]) /\ sendlist'[u][i] = sendlist[u][i]
                \/ u = x /\ i = l + 1 /\ sendlist'[u][i] = smsg
    <2>1. CASE u # x BY <1>9, <2>1
    <2>2. CASE u = x
      <3>1. i = l + 1 \/ i \in 1 .. l BY <1>7, <1>8, <1>9, <2>2
      <3> QED BY <1>8, <1>9, <2>2, <3>1 DEF l
    <2> QED BY <2>1, <2>2
  <1>18. QueueHomes'
    <2>1. ASSUME NEW u \in Threads, NEW i \in 1 .. Len(sendlist'[u])
          PROVE  Reaches(sendlist'[u][i].h, u)
      BY <1>0, <1>4, <1>5, <1>17 DEF Homes
    <2> QED BY <1>0, <1>1, <2>1 DEF QueueHomes, Homes, Reaches
  <1>19. Pledges'
    <2> DEFINE a == <<t, n>>
    <2>1. ~Points(stack, a) BY <1>1, <1>2 DEF Points, LiveSend
    <2>2. Points(stack', a)
      <3>1. Len(stack'[t]) = n /\ stack'[t][n] = f BY <1>10 DEF Moves
      <3> QED BY <1>2, <1>6, <3>1 DEF Points, LiveSend
    <2> HIDE DEF a
    <2>3. \A b \in Address : Points(stack, b) => Points(stack', b)
      <3>1. \A u \in Threads : Tame(stack[u], stack'[u])
        <4>1. \A u \in Threads : stack[u] \in Seq(Frames) BY <1>0 DEF TypeOK
        <4> QED BY <1>10, <1>12, <4>1, AlwaysTame DEF Alone
      <3> QED BY <3>1, PointsKept
    <2>4. /\ \A u \in Threads : \A i \in 1 .. Len(sendlist[u]) :
                sendlist[u][i].ready \in Address /\ sendlist[u][i].ready # a
          /\ \A u \in Threads : \A i \in 1 .. Len(stack[u]) : Done(stack[u][i]) =>
                stack[u][i].ready \in Address /\ stack[u][i].ready # a
          /\ a \notin ready
      <3>1. ASSUME NEW u \in Threads, NEW i \in 1 .. Len(sendlist[u])
            PROVE  sendlist[u][i].ready \in Address /\ sendlist[u][i].ready # a
        <4>1. sendlist[u][i] \in SendMessage BY <1>0 DEF TypeOK
        <4>2. Points(stack, sendlist[u][i].ready) BY <1>0 DEF Pledges, QueuedPledges
        <4> QED BY <2>1, <4>1, <4>2 DEF SendMessage
      <3>2. ASSUME NEW u \in Threads, NEW i \in 1 .. Len(stack[u]), Done(stack[u][i])
            PROVE  stack[u][i].ready \in Address /\ stack[u][i].ready # a
        <4>1. stack[u][i] \in Frames BY <1>0 DEF TypeOK
        <4>2. Points(stack, stack[u][i].ready) BY <1>0, <3>2 DEF Pledges, RunningPledges
        <4> QED BY <2>1, <4>1, <4>2 DEF Frames
      <3>3. a \notin ready BY <1>0, <2>1 DEF Pledges
      <3> QED BY <3>1, <3>2, <3>3
    <2>5. smsg.ready = a /\ smsg.thread = a[1] BY <1>5 DEF a
    <2>6. QueuedPledges'
      <3> SUFFICES ASSUME NEW u \in Threads, NEW i \in 1 .. Len(sendlist'[u])
                   PROVE  /\ sendlist'[u][i].thread = sendlist'[u][i].ready[1]
                          /\ Points(stack', sendlist'[u][i].ready)
                          /\ sendlist'[u][i].ready \notin ready'
                          /\ \A v \in Threads : \A j \in 1 .. Len(sendlist'[v]) :
                                sendlist'[v][j].ready = sendlist'[u][i].ready => v = u /\ j = i
        BY DEF QueuedPledges
      <3>1. /\ sendlist'[u][i].thread = sendlist'[u][i].ready[1]
            /\ Points(stack', sendlist'[u][i].ready)
            /\ sendlist'[u][i].ready \notin ready'
        BY <1>0, <1>1, <1>17, <2>2, <2>3, <2>4, <2>5 DEF Pledges, QueuedPledges
      <3>2. ASSUME NEW v \in Threads, NEW j \in 1 .. Len(sendlist'[v]),
                   sendlist'[v][j].ready = sendlist'[u][i].ready
            PROVE  v = u /\ j = i
        <4>1. /\ \/ /\ i \in 1 .. Len(sendlist[u]) /\ sendlist'[u][i] = sendlist[u][i]
                 \/ u = x /\ i = l + 1 /\ sendlist'[u][i] = smsg
              /\ \/ /\ j \in 1 .. Len(sendlist[v]) /\ sendlist'[v][j] = sendlist[v][j]
                 \/ v = x /\ j = l + 1 /\ sendlist'[v][j] = smsg
          BY <1>17
        <4>2. CASE /\ i \in 1 .. Len(sendlist[u]) /\ sendlist'[u][i] = sendlist[u][i]
                   /\ j \in 1 .. Len(sendlist[v]) /\ sendlist'[v][j] = sendlist[v][j]
          BY <1>0, <3>2, <4>2 DEF Pledges, QueuedPledges
        <4>3. CASE ~(/\ i \in 1 .. Len(sendlist[u]) /\ sendlist'[u][i] = sendlist[u][i]
                     /\ j \in 1 .. Len(sendlist[v]) /\ sendlist'[v][j] = sendlist[v][j])
          BY <2>4, <2>5, <3>2, <4>1, <4>3
        <4> QED BY <4>2, <4>3
      <3> QED BY <3>1, <3>2
    <2>7. RunningPledges'
      <3> SUFFICES ASSUME NEW u \in Threads, NEW i \in 1 .. Len(stack'[u]), Done(stack'[u][i])
                   PROVE  /\ stack'[u][i].to = stack'[u][i].ready[1]
                          /\ Points(stack', stack'[u][i].ready)
                          /\ stack'[u][i].ready \notin ready'
                          /\ \A v \in Threads : \A j \in 1 .. Len(stack'[v]) :
                                Done(stack'[v][j]) /\ stack'[v][j].ready = stack'[u][i].ready
                                  => v = u /\ j = i
                          /\ \A v \in Threads : \A j \in 1 .. Len(sendlist'[v]) :
                                sendlist'[v][j].ready # stack'[u][i].ready
        BY SMTT(30) DEF RunningPledges, Done
      <3>1. \A v \in Threads : SameDones(stack[v], stack'[v])
        <4>1. \A v \in Threads : stack[v] \in Seq(Frames) BY <1>0 DEF TypeOK
        <4> QED BY <1>10, <1>12, <4>1, AlwaysTame DEF Alone, Tame
      <3>2. /\ i \in 1 .. Len(stack[u]) /\ Done(stack[u][i])
            /\ stack'[u][i].ready = stack[u][i].ready /\ stack'[u][i].to = stack[u][i].to
        BY <3>1 DEF SameDones
      <3>3. /\ stack[u][i].to = stack[u][i].ready[1]
            /\ Points(stack, stack[u][i].ready) /\ stack[u][i].ready \notin ready
            /\ \A v \in Threads : \A j \in 1 .. Len(stack[v]) :
                  Done(stack[v][j]) /\ stack[v][j].ready = stack[u][i].ready => v = u /\ j = i
            /\ \A v \in Threads : \A j \in 1 .. Len(sendlist[v]) :
                  sendlist[v][j].ready # stack[u][i].ready
        BY <1>0, <3>2 DEF Pledges, RunningPledges
      <3>4. ASSUME NEW v \in Threads, NEW j \in 1 .. Len(stack'[v]), Done(stack'[v][j]),
                   stack'[v][j].ready = stack'[u][i].ready
            PROVE  v = u /\ j = i
        <4>1. /\ j \in 1 .. Len(stack[v]) /\ Done(stack[v][j])
              /\ stack'[v][j].ready = stack[v][j].ready
          BY <3>1, <3>4 DEF SameDones
        <4> QED BY <3>2, <3>3, <3>4, <4>1
      <3>5. ASSUME NEW v \in Threads, NEW j \in 1 .. Len(sendlist'[v])
            PROVE  sendlist'[v][j].ready # stack'[u][i].ready
        <4>1. \/ /\ j \in 1 .. Len(sendlist[v]) /\ sendlist'[v][j] = sendlist[v][j]
              \/ v = x /\ j = l + 1 /\ sendlist'[v][j] = smsg
          BY <1>17
        <4>2. stack[u][i].ready # a BY <2>4, <3>2
        <4>3. CASE j \in 1 .. Len(sendlist[v]) /\ sendlist'[v][j] = sendlist[v][j]
          BY <3>2, <3>3, <4>3
        <4>4. CASE sendlist'[v][j] = smsg BY <2>5, <3>2, <4>2, <4>4
        <4> QED BY <4>1, <4>3, <4>4
      <3> QED BY <1>1, <2>3, <2>4, <3>2, <3>3, <3>4, <3>5
    <2>8. \A b \in ready' : Points(stack', b) BY <1>0, <1>1, <2>3 DEF Pledges, TypeOK
    <2> QED BY <2>6, <2>7, <2>8 DEF Pledges
  <1>20. ASSUME NEW u \in Threads, ~signaled'[u] PROVE Calm(u)
    <2>1. \A op \in {"Send", "Quit"} : AboutToWake(op, u) => AboutToWake(op, u)'
      BY <1>1, <1>10, AboutKept DEF At
    <2>2. u = x => AboutToWake("Send", u)'
      <3>1. Top(t)' = f BY <1>2, <1>10 DEF Moves, Top, Last
      <3> QED BY <1>6, <3>1 DEF AboutToWake, At
    <2> QED BY <1>1, <1>9, <1>20, <2>1, <2>2 DEF Calm
  <1>21. \A u \in Threads : ~signaled'[u] => Calm(u) BY <1>20
  <1> DEFINE New == {f}
  <1>22. Shift(stack[t], stack'[t], New) /\ \A k \in New : PushHome(k)
    BY <1>6, <1>12 DEF PushHome
  <1>23. dead' = dead BY <1>1
  <1> HIDE DEF New
  <1> QED BY <1>10, <1>13, <1>14, <1>15, <1>16, <1>18, <1>19, <1>21, <1>22, <1>23, StepKeeps

-----------------------------------------------------------------------------
(* Flags that are passed on and raised                                     *)

\* A step keeps the pledges if every address somebody still holds was held
\* before, by one holder each (src: the old place of a queued message; the new
\* frame at place n of t has taken the first one), and if nobody holds an
\* address in Gone any more, whose flags are raised.
Passes(t, n, src, Gone) ==
    /\ Gone \subseteq Address /\ ready' = ready \cup Gone
    /\ \A a \in Address : Points(stack, a) => Points(stack', a)
    /\ \A a \in Gone : Points(stack, a)
    /\ \A u \in Threads : \A j \in 1 .. Len(sendlist'[u]) :
          /\ src[u][j] \in 1 .. Len(sendlist[u]) /\ sendlist'[u][j] = sendlist[u][src[u][j]]
          /\ sendlist'[u][j].ready \notin Gone
    /\ \A u \in Threads : \A i, j \in 1 .. Len(sendlist'[u]) : src[u][i] = src[u][j] => i = j
    /\ \A u \in Threads : \A i \in 1 .. Len(stack'[u]) : Done(stack'[u][i]) =>
          /\ \/ /\ i \in 1 .. Len(stack[u]) /\ Done(stack[u][i])
                /\ stack'[u][i].ready = stack[u][i].ready /\ stack'[u][i].to = stack[u][i].to
             \/ /\ u = t /\ i = n /\ 1 \in 1 .. Len(sendlist[t])
                /\ stack'[u][i].ready = sendlist[t][1].ready
                /\ stack'[u][i].to = sendlist[t][1].thread
                /\ \A j \in 1 .. Len(sendlist'[t]) : src[t][j] # 1
          /\ stack'[u][i].ready \notin Gone

\* Pledges, where a promised flag is set, or a promise passes from a queued message to
\* the ReceiveSends that runs it.
LEMMA PledgesPass ==
    ASSUME TypeOK, Pledges, NEW t \in Threads, NEW n, NEW src, NEW Gone, Passes(t, n, src, Gone)
    PROVE  Pledges'
  <1> USE DEF Passes
  <1>1. /\ \A u \in Threads : \A i \in 1 .. Len(sendlist[u]) :
              /\ sendlist[u][i].ready \in Address
              /\ sendlist[u][i].thread = sendlist[u][i].ready[1]
              /\ Points(stack, sendlist[u][i].ready) /\ sendlist[u][i].ready \notin ready
        /\ \A u, v \in Threads : \A i \in 1 .. Len(sendlist[u]) : \A j \in 1 .. Len(sendlist[v]) :
              sendlist[v][j].ready = sendlist[u][i].ready => v = u /\ j = i
    <2>1. ASSUME NEW u \in Threads, NEW i \in 1 .. Len(sendlist[u])
          PROVE  sendlist[u][i].ready \in Address
      <3>1. sendlist[u][i] \in SendMessage BY DEF TypeOK
      <3> QED BY <3>1 DEF SendMessage
    <2> QED BY <2>1 DEF Pledges, QueuedPledges
  <1>2. ASSUME NEW u \in Threads, NEW i \in 1 .. Len(stack[u]), Done(stack[u][i])
        PROVE  /\ stack[u][i].ready \in Address
               /\ stack[u][i].to = stack[u][i].ready[1]
               /\ Points(stack, stack[u][i].ready) /\ stack[u][i].ready \notin ready
               /\ \A v \in Threads : \A j \in 1 .. Len(stack[v]) :
                     Done(stack[v][j]) /\ stack[v][j].ready = stack[u][i].ready => v = u /\ j = i
               /\ \A v \in Threads : \A j \in 1 .. Len(sendlist[v]) :
                     sendlist[v][j].ready # stack[u][i].ready
    <2>1. stack[u][i] \in Frames BY DEF TypeOK
    <2>2. stack[u][i].ready \in Address BY <2>1 DEF Frames
    <2> QED BY <1>2, <2>2 DEF Pledges, RunningPledges
  <1>3. QueuedPledges'
    <2> SUFFICES ASSUME NEW u \in Threads, NEW i \in 1 .. Len(sendlist'[u])
                 PROVE  /\ sendlist'[u][i].thread = sendlist'[u][i].ready[1]
                        /\ Points(stack', sendlist'[u][i].ready)
                        /\ sendlist'[u][i].ready \notin ready'
                        /\ \A v \in Threads : \A j \in 1 .. Len(sendlist'[v]) :
                              sendlist'[v][j].ready = sendlist'[u][i].ready => v = u /\ j = i
      BY DEF QueuedPledges
    <2>1. src[u][i] \in 1 .. Len(sendlist[u]) /\ sendlist'[u][i] = sendlist[u][src[u][i]]
      OBVIOUS
    <2>2. ASSUME NEW v \in Threads, NEW j \in 1 .. Len(sendlist'[v]),
                 sendlist'[v][j].ready = sendlist'[u][i].ready
          PROVE  v = u /\ j = i
      <3>1. src[v][j] \in 1 .. Len(sendlist[v]) /\ sendlist'[v][j] = sendlist[v][src[v][j]]
        OBVIOUS
      <3> DEFINE a == src[u][i]
                 b == src[v][j]
      <3>a. /\ a \in 1 .. Len(sendlist[u]) /\ b \in 1 .. Len(sendlist[v])
            /\ sendlist[v][b].ready = sendlist[u][a].ready
        BY <2>1, <2>2, <3>1
      <3> HIDE DEF a, b
      <3>b. v = u /\ b = a BY <1>1, <3>a
      <3>2. v = u /\ src[v][j] = src[u][i] BY <3>b DEF a, b
      <3> QED BY <3>2
    <2> QED BY <1>1, <2>1, <2>2, SMTT(30)
  <1>4. RunningPledges'
    <2> SUFFICES ASSUME NEW u \in Threads, NEW i \in 1 .. Len(stack'[u]), Done(stack'[u][i])
                 PROVE  /\ stack'[u][i].to = stack'[u][i].ready[1]
                        /\ Points(stack', stack'[u][i].ready)
                        /\ stack'[u][i].ready \notin ready'
                        /\ \A v \in Threads : \A j \in 1 .. Len(stack'[v]) :
                              Done(stack'[v][j]) /\ stack'[v][j].ready = stack'[u][i].ready
                                => v = u /\ j = i
                        /\ \A v \in Threads : \A j \in 1 .. Len(sendlist'[v]) :
                              sendlist'[v][j].ready # stack'[u][i].ready
      BY DEF RunningPledges, Done
    <2> DEFINE Old(v, j) == /\ j \in 1 .. Len(stack[v]) /\ Done(stack[v][j])
                            /\ stack'[v][j].ready = stack[v][j].ready
                            /\ stack'[v][j].to = stack[v][j].to
               Taken(v, j) == /\ v = t /\ j = n /\ 1 \in 1 .. Len(sendlist[t])
                              /\ stack'[v][j].ready = sendlist[t][1].ready
                              /\ stack'[v][j].to = sendlist[t][1].thread
                              /\ \A k \in 1 .. Len(sendlist'[t]) : src[t][k] # 1
    <2>1. \A v \in Threads : \A j \in 1 .. Len(stack'[v]) :
             Done(stack'[v][j]) => Old(v, j) \/ Taken(v, j)
      OBVIOUS
    <2>2. /\ stack'[u][i].to = stack'[u][i].ready[1]
          /\ Points(stack', stack'[u][i].ready)
          /\ stack'[u][i].ready \notin ready'
      <3>1. CASE Old(u, i) BY <1>2, <3>1
      <3>2. CASE Taken(u, i) BY <1>1, <3>2
      <3> QED BY <2>1, <3>1, <3>2
    <2>3. ASSUME NEW v \in Threads, NEW j \in 1 .. Len(stack'[v]), Done(stack'[v][j]),
                 stack'[v][j].ready = stack'[u][i].ready
          PROVE  v = u /\ j = i
      <3>1. CASE Old(u, i) /\ Old(v, j) BY <1>2, <2>3, <3>1
      <3>2. CASE Old(u, i) /\ Taken(v, j) BY <1>2, <2>3, <3>2
      <3>3. CASE Taken(u, i) /\ Old(v, j) BY <1>2, <2>3, <3>3
      <3>4. CASE Taken(u, i) /\ Taken(v, j) BY <3>4
      <3> QED BY <2>1, <2>3, <3>1, <3>2, <3>3, <3>4, SMTT(30)
    <2>4. ASSUME NEW v \in Threads, NEW j \in 1 .. Len(sendlist'[v])
          PROVE  sendlist'[v][j].ready # stack'[u][i].ready
      <3>1. src[v][j] \in 1 .. Len(sendlist[v]) /\ sendlist'[v][j] = sendlist[v][src[v][j]]
        OBVIOUS
      <3>2. CASE Old(u, i) BY <1>2, <3>1, <3>2, SMTT(30)
      <3>3. CASE Taken(u, i) BY <1>1, <3>1, <3>3, SMTT(30)
      <3> QED BY <2>1, <3>2, <3>3
    <2> HIDE DEF Old, Taken
    <2> QED BY <2>2, <2>3, <2>4
  <1>5. \A a \in ready' : Points(stack', a) BY DEF Pledges, TypeOK
  <1> QED BY <1>3, <1>4, <1>5 DEF Pledges

\* The flags a turn of ReceiveSends raises: that of the message it has just run.
Raised(t) == IF Top(t).pc = "done" THEN {Top(t).ready} ELSE {}

\* The flag a turn of ReceiveSends sets is that of a Send that waits, and promised by no
\* one else.
LEMMA ReceiveSendsFlags ==
    ASSUME IInv, NEW t \in Threads, ReceiveSends(t)
    PROVE  /\ Raised(t) \in SUBSET Address /\ ready' = ready \cup Raised(t)
           /\ \A a \in Raised(t) : Points(stack, a)
           /\ \A a \in Raised(t) : signaled'[a[1]]
           /\ \A u \in Threads : \A j \in 1 .. Len(sendlist[u]) :
                 sendlist[u][j].ready \notin Raised(t)
           /\ \A u \in Threads : \A i \in 1 .. Len(stack[u]) :
                 Done(stack[u][i]) /\ stack[u][i].ready \in Raised(t)
                    => u = t /\ i = Len(stack[t])
           /\ signaled' \in [Threads -> BOOLEAN]
           /\ \A u \in Threads : signaled[u] => signaled'[u]
           /\ Top(t).op = "ReceiveSends" /\ Top(t).pc \in {"loop", "done"}
           /\ UNCHANGED <<msgq, dmsgq, dnum, fStop, dead, now, left>>
  <1> DEFINE n == Len(stack[t])
  <1>0. TypeOK /\ Shape /\ Pledges BY DEF IInv
  <1>1. /\ Top(t).op = "ReceiveSends" /\ Top(t).pc \in {"loop", "done"}
        /\ UNCHANGED <<msgq, dmsgq, dnum, fStop, dead, now, left>>
    BY DEF ReceiveSends
  <1>2. Top(t) = stack[t][n] /\ n \in 1 .. n /\ Top(t) \in Frames BY <1>0, TopFacts
  <1>3. CASE Top(t).pc = "loop"
    <2>1. Raised(t) = {} /\ ready' = ready /\ signaled' = signaled
      BY <1>1, <1>3 DEF ReceiveSends, Raised
    <2> QED BY <1>0, <1>1, <2>1 DEF TypeOK
  <1>4. CASE Top(t).pc = "done"
    <2> DEFINE a == Top(t).ready
    <2>1. /\ Raised(t) = {a} /\ ready' = ready \cup {a}
          /\ signaled' = [signaled EXCEPT ![Top(t).to] = TRUE]
      BY <1>1, <1>4 DEF ReceiveSends, Raised, SendDone, WakeUp
    <2>2. Done(stack[t][n]) BY <1>1, <1>2, <1>4 DEF Done
    <2>3. /\ Top(t).to = a[1]
          /\ Points(stack, a)
          /\ \A u \in Threads : \A j \in 1 .. Len(stack[u]) :
                Done(stack[u][j]) /\ stack[u][j].ready = a => u = t /\ j = n
          /\ \A u \in Threads : \A j \in 1 .. Len(sendlist[u]) : sendlist[u][j].ready # a
      BY <1>0, <1>2, <2>2 DEF Pledges, RunningPledges
    <2>4. a \in Address /\ Top(t).to \in Threads BY <1>2 DEF Frames
    <2> HIDE DEF a
    <2>5. signaled'[a[1]] /\ signaled' \in [Threads -> BOOLEAN]
          /\ \A u \in Threads : signaled[u] => signaled'[u]
      BY <1>0, <2>1, <2>3, <2>4 DEF TypeOK
    <2> QED BY <1>1, <2>1, <2>3, <2>4, <2>5
  <1> QED BY <1>1, <1>3, <1>4

\* What a turn of ReceiveSends leaves to the threads that are not woken.
LEMMA ReceiveSendsCalm ==
    ASSUME IInv, NEW t \in Threads, ReceiveSends(t), Alone(t),
           \A u \in Threads : sendlist'[u] = <<>> \/ sendlist[u] # <<>>
    PROVE  \A u \in Threads : ~signaled'[u] => Calm(u)
  <1> SUFFICES ASSUME NEW u \in Threads, ~signaled'[u] PROVE Calm(u) OBVIOUS
  <1>1. /\ ready' = ready \cup Raised(t) /\ Raised(t) \in SUBSET Address
        /\ \A a \in Raised(t) : signaled'[a[1]]
        /\ signaled[u] => signaled'[u]
        /\ Top(t).pc \in {"loop", "done"}
        /\ UNCHANGED <<msgq, dmsgq, dnum, fStop, dead, now, left>>
    BY ReceiveSendsFlags
  <1>2. \A i \in Nat : <<u, i>> \in ready' => <<u, i>> \in ready
    <2> TAKE i \in Nat
    <2>1. <<u, i>>[1] = u OBVIOUS
    <2>2. <<u, i>> \notin Raised(t) BY <1>1, <2>1
    <2> QED BY <1>1, <2>2
  <1>3. \A op \in {"Send", "Quit"} : AboutToWake(op, u) => AboutToWake(op, u)'
    BY <1>1, AboutKept DEF At
  <1> QED BY <1>1, <1>2, <1>3 DEF Calm

\* ReceiveSends finds sendlist_ empty and returns.
LEMMA ReceiveSendsReturns ==
    ASSUME IInv, NEW t \in Threads, ReceiveSends(t), sendlist[t] = <<>>
    PROVE  IInv'
  <1> DEFINE n == Len(stack[t])
  <1>0. TypeOK /\ Shape /\ Pledges BY DEF IInv
  <1>1. stack' = Returned(t) /\ sendlist' = sendlist BY DEF ReceiveSends
  <1>2. /\ Raised(t) \in SUBSET Address /\ ready' = ready \cup Raised(t)
        /\ \A a \in Raised(t) : Points(stack, a)
        /\ \A u \in Threads : \A j \in 1 .. Len(sendlist[u]) :
              sendlist[u][j].ready \notin Raised(t)
        /\ \A u \in Threads : \A i \in 1 .. Len(stack[u]) :
              Done(stack[u][i]) /\ stack[u][i].ready \in Raised(t)
                 => u = t /\ i = Len(stack[t])
        /\ signaled' \in [Threads -> BOOLEAN]
        /\ Top(t).op = "ReceiveSends" /\ Top(t).pc \in {"loop", "done"}
        /\ UNCHANGED <<msgq, dmsgq, dnum, fStop, dead, now, left>>
    BY ReceiveSendsFlags
  <1>3. /\ Stacks /\ stack[t] \in Seq(Frames) /\ stack[t] # <<>> /\ WellFormed(stack[t])
        /\ Top(t) = stack[t][n] /\ n \in Nat /\ n > 1
    BY <1>0, <1>2, TopFacts
  <1>4. Stacks' /\ Pops(stack[t], stack'[t]) /\ Alone(t) BY <1>1, <1>3, ReturnedPops
  <1>5. stack'[t] \in Seq(Frames) BY <1>4 DEF Stacks
  <1>6. Shift(stack[t], stack'[t], {}) /\ SameDones(stack[t], stack'[t])
        /\ Tame(stack[t], stack'[t])
    BY <1>2, <1>3, <1>4, <1>5, PopsTame DEF LiveSend
  <1>7. WellFormed(stack'[t]) BY <1>3, <1>4, ShapePops
  <1>8. SameWaits(t) BY <1>0, <1>1, <1>2, <1>3, <1>4, PopsWaits
  <1>9. TypeOK'
    <2>1. ready' \subseteq Address BY <1>0, <1>2 DEF TypeOK
    <2> QED BY <1>0, <1>1, <1>2, <1>4, <2>1 DEF TypeOK, Stacks
  <1>10. Numbered' BY <1>2 DEF IInv, Numbered
  <1>11. QueueHomes' BY <1>1, <1>2, QueueHomesKept DEF IInv, queues
  <1>12. Pledges'
    <2> DEFINE src == [u \in Threads |-> [j \in 1 .. Len(sendlist[u]) |-> j]]
    <2>1. \A u \in Threads : \A j \in 1 .. Len(sendlist[u]) : src[u][j] = j OBVIOUS
    <2> HIDE DEF src
    <2>2. \A u \in Threads : Tame(stack[u], stack'[u])
      <3>1. \A u \in Threads : stack[u] \in Seq(Frames) BY <1>0 DEF TypeOK
      <3> QED BY <1>4, <1>6, <3>1, AlwaysTame DEF Alone
    <2>3. \A a \in Address : Points(stack, a) => Points(stack', a) BY <2>2, PointsKept
    <2>4. \A u \in Threads : \A i \in 1 .. Len(stack'[u]) : Done(stack'[u][i]) =>
             /\ i \in 1 .. Len(stack[u]) /\ Done(stack[u][i])
             /\ stack'[u][i].ready = stack[u][i].ready /\ stack'[u][i].to = stack[u][i].to
      BY <2>2 DEF Tame, SameDones
    <2>5. \A u \in Threads : \A i \in 1 .. Len(stack'[u]) :
             Done(stack'[u][i]) => stack'[u][i].ready \notin Raised(t)
      <3>1. ASSUME NEW u \in Threads, NEW i \in 1 .. Len(stack'[u]), Done(stack'[u][i]),
                   stack'[u][i].ready \in Raised(t)
            PROVE  FALSE
        <4>1. u = t /\ i = n BY <1>2, <2>4, <3>1
        <4>2. i \in 1 .. n - 1 BY <1>4, <3>1, <4>1 DEF Pops
        <4> HIDE DEF n
        <4> QED BY <1>3, <4>1, <4>2
      <3> QED BY <3>1
    <2>6. /\ \A u \in Threads : \A j \in 1 .. Len(sendlist'[u]) :
                src[u][j] \in 1 .. Len(sendlist[u]) /\ sendlist'[u][j] = sendlist[u][src[u][j]]
          /\ \A u \in Threads : \A i, j \in 1 .. Len(sendlist'[u]) : src[u][i] = src[u][j] => i = j
          /\ \A u \in Threads : \A j \in 1 .. Len(sendlist'[u]) :
                sendlist'[u][j].ready \notin Raised(t)
      BY <1>1, <1>2, <2>1
    <2>7. Passes(t, n, src, Raised(t)) BY <1>2, <2>3, <2>4, <2>5, <2>6 DEF Passes
    <2> QED BY <1>0, <2>7, PledgesPass
  <1>13. \A u \in Threads : ~signaled'[u] => Calm(u) BY <1>1, <1>4, ReceiveSendsCalm
  <1> DEFINE New == {}
  <1>14. Shift(stack[t], stack'[t], New) /\ \A k \in New : PushHome(k) BY <1>6
  <1>15. dead' = dead BY <1>2
  <1> HIDE DEF New
  <1> QED BY <1>4, <1>7, <1>8, <1>9, <1>10, <1>11, <1>12, <1>13, <1>14, <1>15, StepKeeps

\* ReceiveSends takes the first message and calls its handler.
LEMMA ReceiveSendsTakes ==
    ASSUME IInv, NEW t \in Threads, ReceiveSends(t), sendlist[t] # <<>>
    PROVE  IInv'
  <1> DEFINE n == Len(stack[t])
             s == sendlist[t]
             smsg == Head(s)
             f == [Top(t) EXCEPT !.pc = "done", !.to = smsg.thread, !.ready = smsg.ready]
             g == Frame("Body", "run", t, smsg.h)
  <1>0. TypeOK /\ Shape /\ Pledges BY DEF IInv
  <1>1. stack' = Called(t, f, g) /\ sendlist' = [sendlist EXCEPT ![t] = Tail(@)]
    BY DEF ReceiveSends
  <1>2. /\ Raised(t) \in SUBSET Address /\ ready' = ready \cup Raised(t)
        /\ \A a \in Raised(t) : Points(stack, a)
        /\ \A u \in Threads : \A j \in 1 .. Len(sendlist[u]) :
              sendlist[u][j].ready \notin Raised(t)
        /\ \A u \in Threads : \A i \in 1 .. Len(stack[u]) :
              Done(stack[u][i]) /\ stack[u][i].ready \in Raised(t)
                 => u = t /\ i = Len(stack[t])
        /\ signaled' \in [Threads -> BOOLEAN]
        /\ Top(t).op = "ReceiveSends" /\ Top(t).pc \in {"loop", "done"}
        /\ UNCHANGED <<msgq, dmsgq, dnum, fStop, dead, now, left>>
    BY ReceiveSendsFlags
  <1>3. /\ Stacks /\ stack[t] \in Seq(Frames) /\ stack[t] # <<>> /\ WellFormed(stack[t])
        /\ Top(t) = stack[t][n] /\ Top(t) \in Frames /\ n \in Nat /\ n > 1
    BY <1>0, <1>2, TopFacts
  <1>4. /\ s \in Seq(SendMessage) /\ Len(s) \in Nat /\ Len(s) > 0 /\ 1 \in 1 .. Len(s)
        /\ smsg = s[1] /\ smsg \in SendMessage
        /\ Tail(s) \in Seq(SendMessage) /\ Len(Tail(s)) = Len(s) - 1
        /\ \A j \in 1 .. Len(s) - 1 : Tail(s)[j] = s[j + 1]
    <2>1. s \in Seq(SendMessage) /\ s # <<>> BY <1>0 DEF TypeOK
    <2> HIDE DEF s
    <2> QED BY <2>1
  <1>5. smsg.thread \in Threads /\ smsg.ready \in Address /\ smsg.h \in Target
    BY <1>4 DEF SendMessage, Target
  <1>6. g \in Frames /\ g.op = "Body" /\ g.pc = "run" BY <1>5, NewFrames
  <1> HIDE DEF smsg, g
  <1>7. /\ f \in Frames /\ f.op = "ReceiveSends" /\ f.pc = "done"
        /\ f.to = smsg.thread /\ f.ready = smsg.ready
    BY <1>2, <1>3, <1>5 DEF Frames, Pcs
  <1> HIDE DEF f
  <1>8. Stacks' /\ Enters(stack[t], stack'[t], f, g) /\ Alone(t)
    BY <1>1, <1>3, <1>6, <1>7, CalledEnters
  <1>9. stack'[t] \in Seq(Frames) BY <1>8 DEF Stacks
  <1>10. Shift(stack[t], stack'[t], {f, g}) BY <1>3, <1>8, <1>9, EntersTame
  <1>11. WellFormed(stack'[t])
    <2>1. AtPlace(f) /\ AtPlace(g) /\ Calls(f, g) BY <1>6, <1>7 DEF AtPlace, Calls
    <2> QED BY <1>2, <1>3, <1>7, <1>8, <1>9, <2>1, ShapeEnters
  <1>12. SameWaits(t)
    <2>1. f.pc # "wait" /\ g.pc # "wait" BY <1>6, <1>7
    <2> QED BY <1>0, <1>2, <1>3, <1>8, <2>1, EntersWaits
  <1>13. sendlist'[t] = Tail(s) /\ \A u \in Threads : u # t => sendlist'[u] = sendlist[u]
    BY <1>0, <1>1 DEF TypeOK
  <1>14. TypeOK'
    <2>1. ready' \subseteq Address BY <1>0, <1>2 DEF TypeOK
    <2>2. sendlist' \in [Threads -> Seq(SendMessage)] BY <1>0, <1>1, <1>4 DEF TypeOK
    <2> QED BY <1>0, <1>2, <1>8, <2>1, <2>2 DEF TypeOK, Stacks
  <1>15. Numbered' BY <1>2 DEF IInv, Numbered
  <1> DEFINE src == [u \in Threads |-> [j \in Nat |-> IF u = t THEN j + 1 ELSE j]]
  <1>16. /\ \A u \in Threads : \A j \in 1 .. Len(sendlist'[u]) :
               src[u][j] \in 1 .. Len(sendlist[u]) /\ sendlist'[u][j] = sendlist[u][src[u][j]]
         /\ \A u \in Threads : \A i, j \in 1 .. Len(sendlist'[u]) : src[u][i] = src[u][j] => i = j
         /\ \A j \in 1 .. Len(sendlist'[t]) : src[t][j] # 1
    <2>1. \A u \in Threads : Len(sendlist'[u]) \in Nat BY <1>14 DEF TypeOK
    <2>2. ASSUME NEW u \in Threads, u # t, NEW j \in 1 .. Len(sendlist'[u])
          PROVE  /\ src[u][j] = j /\ j \in 1 .. Len(sendlist[u])
                 /\ sendlist'[u][j] = sendlist[u][j]
      <3>1. j \in Nat BY <2>1
      <3> QED BY <1>13, <2>2, <3>1
    <2>3. ASSUME NEW j \in 1 .. Len(sendlist'[t])
          PROVE  /\ src[t][j] = j + 1 /\ j + 1 \in 1 .. Len(s) /\ j + 1 # 1 /\ j \in Nat
                 /\ sendlist'[t][j] = sendlist[t][j + 1]
      <3>1. j \in Nat BY <2>1
      <3> HIDE DEF s
      <3>2. j + 1 \in 1 .. Len(s) /\ j + 1 # 1 /\ j \in 1 .. Len(s) - 1
        BY <1>4, <1>13, <3>1
      <3>3. sendlist'[t][j] = s[j + 1] BY <1>4, <1>13, <3>2
      <3> QED BY <3>1, <3>2, <3>3 DEF s
    <2> HIDE DEF src
    <2>4. \A i, j \in 1 .. Len(sendlist'[t]) : src[t][i] = src[t][j] => i = j BY <2>3
    <2>5. \A u \in Threads : \A i, j \in 1 .. Len(sendlist'[u]) : src[u][i] = src[u][j] => i = j
      BY <2>2, <2>4
    <2>6. \A u \in Threads : \A j \in 1 .. Len(sendlist'[u]) :
             src[u][j] \in 1 .. Len(sendlist[u]) /\ sendlist'[u][j] = sendlist[u][src[u][j]]
      BY <2>2, <2>3
    <2> QED BY <2>3, <2>5, <2>6
  <1> HIDE DEF src
  <1>17. QueueHomes'
    <2>1. ASSUME NEW u \in Threads, NEW i \in 1 .. Len(sendlist'[u])
          PROVE  Reaches(sendlist'[u][i].h, u)
      BY <1>16, SMTT(30) DEF IInv, Homes
    <2> QED BY <1>2, <2>1 DEF IInv, QueueHomes, Homes, Reaches
  <1>18. /\ Len(stack'[t]) = n + 1 /\ stack'[t][n + 1] = g /\ stack'[t][n] = f
         /\ \A i \in 1 .. n : i < n => stack'[t][i] = stack[t][i]
    BY <1>8 DEF Enters
  <1> HIDE DEF n
  <1>19. ASSUME NEW u \in Threads, NEW i \in 1 .. Len(stack'[u]), Done(stack'[u][i])
         PROVE  \/ /\ i \in 1 .. Len(stack[u]) /\ Done(stack[u][i]) /\ ~(u = t /\ i = n)
                   /\ stack'[u][i].ready = stack[u][i].ready /\ stack'[u][i].to = stack[u][i].to
                \/ /\ u = t /\ i = n
                   /\ stack'[u][i].ready = s[1].ready /\ stack'[u][i].to = s[1].thread
    <2>1. CASE u # t BY <1>8, <1>19, <2>1 DEF Alone
    <2>2. CASE u = t
      <3>1. i = n + 1 \/ i = n \/ (i \in 1 .. n /\ i < n) BY <1>3, <1>18, <2>2
      <3>2. i # n + 1 BY <1>6, <1>18, <1>19, <2>2 DEF Done
      <3>3. CASE i = n BY <1>4, <1>7, <1>18, <2>2, <3>3
      <3>4. CASE i \in 1 .. n /\ i < n
        <4>1. i # n BY <1>3, <3>4
        <4> QED BY <1>18, <1>19, <2>2, <3>4, <4>1 DEF n
      <3> QED BY <3>1, <3>2, <3>3, <3>4
    <2> QED BY <2>1, <2>2
  <1>20. \A a \in Address : Points(stack, a) => Points(stack', a)
    <2> SUFFICES ASSUME NEW a \in Address, Points(stack, a) PROVE Points(stack', a) OBVIOUS
    <2>1. a[1] \in Threads /\ a[2] \in Nat BY DEF Address
    <2>2. CASE a[1] # t BY <1>8, <2>1, <2>2 DEF Alone, Points
    <2>3. CASE a[1] = t
      <3>1. a[2] \in 1 .. n /\ LiveSend(stack[t][a[2]]) BY <2>3 DEF Points, n
      <3>2. a[2] # n BY <1>2, <1>3, <3>1 DEF LiveSend, n
      <3>3. a[2] < n /\ a[2] \in 1 .. n + 1 BY <1>3, <3>1, <3>2
      <3> QED BY <1>18, <2>3, <3>1, <3>3 DEF Points
    <2> QED BY <2>2, <2>3
  <1>21. Pledges'
    <2>1. \A u \in Threads : \A j \in 1 .. Len(sendlist'[u]) :
             sendlist'[u][j].ready \notin Raised(t)
      BY <1>2, <1>16, SMTT(30)
    <2>2. \A u \in Threads : \A i \in 1 .. Len(stack'[u]) :
             Done(stack'[u][i]) => stack'[u][i].ready \notin Raised(t)
      BY <1>2, <1>4, <1>19 DEF n
    <2>3. \A u \in Threads : \A i \in 1 .. Len(stack'[u]) : Done(stack'[u][i]) =>
              \/ /\ i \in 1 .. Len(stack[u]) /\ Done(stack[u][i])
                 /\ stack'[u][i].ready = stack[u][i].ready /\ stack'[u][i].to = stack[u][i].to
              \/ /\ u = t /\ i = n /\ 1 \in 1 .. Len(sendlist[t])
                 /\ stack'[u][i].ready = sendlist[t][1].ready
                 /\ stack'[u][i].to = sendlist[t][1].thread
                 /\ \A j \in 1 .. Len(sendlist'[t]) : src[t][j] # 1
      BY <1>4, <1>16, <1>19
    <2>4. Passes(t, n, src, Raised(t)) BY <1>2, <1>16, <1>20, <2>1, <2>2, <2>3 DEF Passes
    <2> QED BY <1>0, <2>4, PledgesPass
  <1>22. \A u \in Threads : ~signaled'[u] => Calm(u) BY <1>8, <1>13, ReceiveSendsCalm
  <1> DEFINE New == {f, g}
  <1>23. Shift(stack[t], stack'[t], New) /\ \A k \in New : PushHome(k)
    BY <1>6, <1>7, <1>10 DEF PushHome
  <1>24. dead' = dead BY <1>2
  <1> HIDE DEF New
  <1> QED BY <1>8, <1>11, <1>12, <1>14, <1>15, <1>17, <1>21, <1>22, <1>23, <1>24, StepKeeps

-----------------------------------------------------------------------------
(* Clear                                                                   *)

\* The sent messages to h in the queue of q.
Cleared(q, h) ==
    {sendlist[q][i] : i \in {i \in 1 .. Len(sendlist[q]) : sendlist[q][i].h = h}}

\* Clear erases h's messages from its queue, sets the flags of the Sends among them and
\* wakes the senders; h may be destroyed then.
LEMMA ClearKeeps ==
    ASSUME IInv, NEW q \in Threads, NEW h \in Handlers, Home[h] = q, Clear(q, h),
           UNCHANGED <<stack, dnum, fStop, now>>,
           left' \in [{"call", "io", "quit", "clear"} -> Nat],
           \/ dead' = dead
           \/ /\ dead' = dead \cup {h}
              /\ \A u \in Threads : \A i \in 1 .. Len(stack[u]) :
                    stack[u][i].pc = "push" => stack[u][i].h # h
    PROVE  IInv'
  <1> DEFINE s == sendlist[q]
             w == Without(s, Cleared(q, h))
             m == msgq[q]
             v == Without(m, {h})
             Gone == {x.ready : x \in Cleared(q, h)}
  <1>0. TypeOK /\ Shape /\ Numbered /\ Homes /\ Pledges /\ Wakes BY DEF IInv
  <1>1. /\ sendlist' = [sendlist EXCEPT ![q] = w]
        /\ ready' = ready \cup Gone
        /\ signaled' = [t \in Threads |->
                           signaled[t] \/ \E x \in Cleared(q, h) : x.thread = t]
        /\ msgq' = [msgq EXCEPT ![q] = v]
        /\ dmsgq' = [dmsgq EXCEPT ![q] = {x \in @ : x.h # h}]
    BY DEF Clear, Cleared
  <1>2. s \in Seq(SendMessage) /\ m \in Seq(Target) BY <1>0 DEF TypeOK
  <1>3. /\ \A x \in Cleared(q, h) : \E i \in 1 .. Len(s) : x = s[i] /\ x.h = h
        /\ \A i \in 1 .. Len(s) : s[i].h = h => s[i] \in Cleared(q, h)
    BY DEF Cleared
  <1> HIDE DEF s, m
  <1>4. /\ w \in Seq(SendMessage) /\ Left(w, s, Cleared(q, h))
        /\ v \in Seq(Target) /\ Left(v, m, {h})
    BY <1>2, WithoutPlaces
  <1> HIDE DEF w, v
  <1>5. PICK p \in [1 .. Len(w) -> 1 .. Len(s)] :
            /\ \A k \in 1 .. Len(w) : w[k] = s[p[k]] /\ s[p[k]] \notin Cleared(q, h)
            /\ \A k, l \in 1 .. Len(w) : p[k] = p[l] => k = l
    BY <1>4 DEF Left
  <1>6. PICK r \in [1 .. Len(v) -> 1 .. Len(m)] :
            \A k \in 1 .. Len(v) : v[k] = m[r[k]] /\ m[r[k]] \notin {h}
    BY <1>4 DEF Left
  <1>7. /\ sendlist'[q] = w /\ msgq'[q] = v /\ dmsgq'[q] = {x \in dmsgq[q] : x.h # h}
        /\ \A u \in Threads : u # q =>
              sendlist'[u] = sendlist[u] /\ msgq'[u] = msgq[u] /\ dmsgq'[u] = dmsgq[u]
    BY <1>0, <1>1, SMTT(30) DEF TypeOK
  <1>8. \A x \in Cleared(q, h) : x \in SendMessage BY <1>2, <1>3, SMTT(30)
  <1>9. Gone \subseteq Address BY <1>8 DEF SendMessage
  <1>10. TypeOK'
    <2>1. sendlist' \in [Threads -> Seq(SendMessage)] BY <1>0, <1>1, <1>4 DEF TypeOK
    <2>2. msgq' \in [Threads -> Seq(Target)] BY <1>0, <1>1, <1>4 DEF TypeOK
    <2>3. dmsgq' \in [Threads -> SUBSET DelayedMessage] BY <1>0, <1>1 DEF TypeOK
    <2>4. signaled' \in [Threads -> BOOLEAN] BY <1>0, <1>1 DEF TypeOK
    <2>5. ready' \subseteq Address BY <1>0, <1>1, <1>9 DEF TypeOK
    <2>6. dead' \subseteq Handlers BY <1>0 DEF TypeOK
    <2> QED BY <1>0, <2>1, <2>2, <2>3, <2>4, <2>5, <2>6 DEF TypeOK
  <1>11. Shape' BY <1>0 DEF Shape
  <1>12. Numbered'
    <2>1. \A u \in Threads : dmsgq'[u] \in SUBSET dmsgq[u] BY <1>7
    <2>2. \A u \in Threads : IsFiniteSet(dmsgq'[u]) BY <1>0, <2>1, FS_Subset DEF Numbered
    <2> QED BY <1>0, <2>1, <2>2 DEF Numbered
  <1>13. Homes'
    <2>1. \A k : \A u \in Threads : Reaches(k, u) /\ (u = q => k # h) => Reaches(k, u)'
      BY DEF Reaches
    <2>2. ASSUME NEW u \in Threads, NEW i \in 1 .. Len(msgq'[u])
          PROVE  Reaches(msgq'[u][i], u) /\ (u = q => msgq'[u][i] # h)
      <3>1. CASE u # q BY <1>0, <1>7, <3>1 DEF Homes
      <3>2. CASE u = q
        <4>0. i \in 1 .. Len(v) /\ msgq'[q][i] = v[i] BY <1>7, <3>2
        <4>1. r[i] \in 1 .. Len(msgq[q]) /\ msgq'[q][i] = msgq[q][r[i]] /\ msgq'[q][i] # h
          BY <1>6, <4>0 DEF m
        <4> QED BY <1>0, <3>2, <4>1 DEF Homes
      <3> QED BY <3>1, <3>2
    <2>3. ASSUME NEW u \in Threads, NEW d \in dmsgq'[u]
          PROVE  Reaches(d.h, u) /\ (u = q => d.h # h)
      BY <1>0, <1>7 DEF Homes
    <2>4. ASSUME NEW u \in Threads, NEW i \in 1 .. Len(sendlist'[u])
          PROVE  Reaches(sendlist'[u][i].h, u) /\ (u = q => sendlist'[u][i].h # h)
      <3>1. CASE u # q BY <1>0, <1>7, <3>1 DEF Homes
      <3>2. CASE u = q
        <4>a. i \in 1 .. Len(w) /\ sendlist'[q][i] = w[i] BY <1>7, <3>2
        <4>b. p[i] \in 1 .. Len(s) /\ w[i] = s[p[i]] /\ s[p[i]] \notin Cleared(q, h)
          BY <1>5, <4>a
        <4>c. s[p[i]].h # h BY <1>3, <4>b
        <4>1. /\ p[i] \in 1 .. Len(sendlist[q]) /\ sendlist'[q][i] = sendlist[q][p[i]]
              /\ sendlist'[q][i].h # h
          BY <4>a, <4>b, <4>c DEF s
        <4> QED BY <1>0, <3>2, <4>1 DEF Homes
      <3> QED BY <3>1, <3>2
    <2>5. ASSUME NEW u \in Threads, NEW i \in 1 .. Len(stack[u])
          PROVE  PushHome(stack[u][i])'
      <3>1. PushHome(stack[u][i]) BY <1>0 DEF Homes
      <3> QED BY <3>1 DEF PushHome, Reaches
    <2> QED BY <2>1, <2>2, <2>3, <2>4, <2>5 DEF Homes
  <1>14. Pledges'
    <2> DEFINE src == [u \in Threads |-> [j \in 1 .. Len(sendlist'[u]) |->
                                             IF u = q THEN p[j] ELSE j]]
    <2>1. /\ \A j \in 1 .. Len(w) : src[q][j] = p[j]
          /\ \A u \in Threads : u # q => \A j \in 1 .. Len(sendlist'[u]) : src[u][j] = j
      BY <1>7
    <2> HIDE DEF src
    <2>2. \A u \in Threads : \A j \in 1 .. Len(sendlist'[u]) :
             src[u][j] \in 1 .. Len(sendlist[u]) /\ sendlist'[u][j] = sendlist[u][src[u][j]]
      <3>1. \A j \in 1 .. Len(w) : src[q][j] \in 1 .. Len(s) /\ w[j] = s[src[q][j]]
        BY <1>5, <2>1
      <3>2. \A j \in 1 .. Len(sendlist'[q]) :
               src[q][j] \in 1 .. Len(sendlist[q]) /\ sendlist'[q][j] = sendlist[q][src[q][j]]
        BY <1>7, <3>1 DEF s
      <3> QED BY <1>7, <2>1, <3>2
    <2>3. \A u \in Threads : \A i, j \in 1 .. Len(sendlist'[u]) : src[u][i] = src[u][j] => i = j
      <3>1. \A i, j \in 1 .. Len(w) : src[q][i] = src[q][j] => i = j BY <1>5, <2>1
      <3> QED BY <1>7, <2>1, <3>1
    <2>4. ASSUME NEW a \in Gone
          PROVE  \E i \in 1 .. Len(sendlist[q]) : /\ a = sendlist[q][i].ready
                                                  /\ sendlist[q][i] \in Cleared(q, h)
      <3>1. PICK x \in Cleared(q, h) : a = x.ready OBVIOUS
      <3>2. PICK i \in 1 .. Len(s) : x = s[i] BY <1>3, <3>1
      <3> QED BY <3>1, <3>2 DEF s
    <2> HIDE DEF Gone
    <2>5. \A a \in Gone : Points(stack, a) BY <1>0, <2>4, SMTT(30) DEF Pledges, QueuedPledges
    <2>6. ASSUME NEW u \in Threads, NEW j \in 1 .. Len(sendlist'[u]),
                 sendlist'[u][j].ready \in Gone
          PROVE  FALSE
      <3>1. PICK i \in 1 .. Len(sendlist[q]) : /\ sendlist'[u][j].ready = sendlist[q][i].ready
                                               /\ sendlist[q][i] \in Cleared(q, h)
        BY <2>4, <2>6
      <3> DEFINE k == src[u][j]
      <3>2. k \in 1 .. Len(sendlist[u]) /\ sendlist'[u][j] = sendlist[u][k] BY <2>2
      <3>a. u = q => sendlist[q][k] \notin Cleared(q, h) BY <1>5, <1>7, <2>1 DEF s
      <3> HIDE DEF k
      <3>3. u = q /\ k = i
        <4> DEFINE Places(t) == 1 .. Len(sendlist[t])
        <4>1. QueuedPledges BY <1>0 DEF Pledges
        <4>2. \A t1, t2 \in Threads : \A i1 \in Places(t1) : \A i2 \in Places(t2) :
                 sendlist[t1][i1].ready = sendlist[t2][i2].ready => t1 = t2 /\ i1 = i2
          BY <4>1, SMTT(30) DEF QueuedPledges
        <4>3. sendlist[u][k].ready = sendlist[q][i].ready BY <3>1, <3>2
        <4>4. k \in Places(u) /\ i \in Places(q) BY <3>2
        <4> HIDE DEF Places
        <4> QED BY <4>2, <4>3, <4>4
      <3> QED BY <3>1, <3>a, <3>3
    <2>7. ASSUME NEW u \in Threads, NEW i \in 1 .. Len(stack[u]), Done(stack[u][i])
          PROVE  stack[u][i].ready \notin Gone
      <3>0. RunningPledges BY <1>0 DEF Pledges
      <3>1. \A j \in 1 .. Len(sendlist[q]) : sendlist[q][j].ready # stack[u][i].ready
        BY <2>7, <3>0, SMTT(30) DEF RunningPledges
      <3> QED BY <2>4, <3>1
    <2>8. Passes(q, 0, src, Gone) BY <1>1, <1>9, <2>2, <2>3, <2>5, <2>6, <2>7 DEF Passes
    <2> QED BY <1>0, <2>8, PledgesPass
  <1>15. ASSUME NEW u \in Threads, ~signaled'[u] PROVE Calm(u)
    <2>1. ~signaled[u] /\ \A x \in Cleared(q, h) : x.thread # u BY <1>1, <1>15
    <2>2. msgq[u] = <<>> => msgq'[u] = <<>>
      <3>1. CASE u # q BY <1>7, <3>1
      <3>2. CASE u = q
        <4>1. SUFFICES ASSUME m = <<>> PROVE v = <<>> BY <1>7, <3>2 DEF m
        <4>2. Len(m) = 0 BY <4>1
        <4>3. Len(v) = 0
          <5>1. Len(v) \in Nat BY <1>4
          <5>2. Len(v) # 0 => r[1] \in 1 .. Len(m) BY <1>6, <5>1
          <5> QED BY <4>2, <5>2
        <4> QED BY <1>4, <4>3
      <3> QED BY <3>1, <3>2
    <2>3. sendlist[u] = <<>> => sendlist'[u] = <<>>
      <3>1. CASE u # q BY <1>7, <3>1
      <3>2. CASE u = q
        <4>1. SUFFICES ASSUME s = <<>> PROVE w = <<>> BY <1>7, <3>2 DEF s
        <4>2. Len(s) = 0 BY <4>1
        <4>3. Len(w) = 0
          <5>1. Len(w) \in Nat BY <1>4
          <5>2. Len(w) # 0 => p[1] \in 1 .. Len(s) BY <1>5, <5>1
          <5> QED BY <4>2, <5>2
        <4> QED BY <1>4, <4>3
      <3> QED BY <3>1, <3>2
    <2>4. dmsgq[u] = {} => dmsgq'[u] = {} BY <1>7
    <2>5. ASSUME NEW i \in Nat, <<u, i>> \in ready' PROVE <<u, i>> \in ready
      <3>1. <<u, i>> \notin Gone
        <4>1. SUFFICES ASSUME NEW x \in Cleared(q, h), <<u, i>> = x.ready PROVE FALSE OBVIOUS
        <4>2. PICK k \in 1 .. Len(sendlist[q]) : x = sendlist[q][k] BY <1>3 DEF s
        <4>3. x.thread = x.ready[1] BY <1>0, <4>2 DEF Pledges, QueuedPledges
        <4>4. <<u, i>>[1] = u OBVIOUS
        <4> QED BY <2>1, <4>1, <4>3, <4>4
      <3> QED BY <1>1, <2>5, <3>1
    <2>6. \A op \in {"Send", "Quit"} : AboutToWake(op, u)' = AboutToWake(op, u)
      BY DEF AboutToWake, At, Top
    <2> QED BY <2>1, <2>2, <2>3, <2>4, <2>5, <2>6 DEF Calm
  <1>16. Wakes'
    <2>1. Stacks /\ Stacks' BY <1>0, <1>10 DEF TypeOK, Stacks
    <2>2. ASSUME NEW u \in Threads PROVE GetWakes(u)' /\ SendWakes(u)'
      <3>1. GetWakes(u) /\ SendWakes(u) BY <1>0 DEF Wakes
      <3>2. SameWaits(u) BY <2>1, StillSameWaits
      <3> QED BY <1>15, <2>1, <3>1, <3>2, WakesKept
    <2> QED BY <2>2 DEF Wakes
  <1> QED BY <1>10, <1>11, <1>12, <1>13, <1>14, <1>16 DEF IInv

\* A client's call of Clear.
LEMMA CallClearKeeps ==
    ASSUME IInv, NEW t \in Threads, NEW h \in Handlers, CallClear(t, h)
    PROVE  IInv'
  <1>1. /\ Spend("clear") /\ Clear(Home[h], h) /\ Home[h] \in Threads
        /\ UNCHANGED <<stack, dnum, fStop, dead, now>>
    BY HomeAssumption DEF CallClear
  <1>2. left' \in [{"call", "io", "quit", "clear"} -> Nat] BY <1>1, SpendType DEF IInv
  <1> QED BY <1>1, <1>2, ClearKeeps

\* A handler's destructor.
LEMMA DestroyHandlerKeeps ==
    ASSUME IInv, NEW t \in Threads, NEW h \in Handlers, DestroyHandler(t, h)
    PROVE  IInv'
  <1>1. /\ Spend("clear") /\ Clear(t, h) /\ Home[h] = t /\ dead' = dead \cup {h}
        /\ \A u \in Threads : \A i \in 1 .. Len(stack[u]) :
              stack[u][i].pc = "push" => stack[u][i].h # h
        /\ UNCHANGED <<stack, dnum, fStop, now>>
    BY DEF DestroyHandler
  <1>2. left' \in [{"call", "io", "quit", "clear"} -> Nat] BY <1>1, SpendType DEF IInv
  <1> QED BY <1>1, <1>2, ClearKeeps

-----------------------------------------------------------------------------
(* The scan of the delayed messages                                        *)

\* No two delayed messages have the same number.
Distinct(ds) ==
    ds \subseteq DelayedMessage /\ \A d, e \in ds : d.num = e.num => d = e

\* DelayedMessage::operator< orders the messages of a queue, by time and then by number.
LEMMA BeforeOrders ==
    ASSUME NEW ds, Distinct(ds)
    PROVE  /\ \A d \in ds : ~Before(d, d)
           /\ \A d, e, c \in ds : Before(d, e) /\ Before(e, c) => Before(d, c)
           /\ \A d, e \in ds : d = e \/ Before(d, e) \/ Before(e, d)
  <1>1. \A d \in ds : d.trigger \in Int /\ d.num \in Int
    BY TimeAssumption DEF Distinct, DelayedMessage
  <1>2. \A d \in ds : ~Before(d, d) BY <1>1 DEF Before
  <1>3. \A d, e, c \in ds : Before(d, e) /\ Before(e, c) => Before(d, c) BY <1>1 DEF Before
  <1>4. ASSUME NEW d \in ds, NEW e \in ds PROVE d = e \/ Before(d, e) \/ Before(e, d)
    <2>1. d.num = e.num => d = e BY DEF Distinct
    <2> QED BY <1>1, <2>1 DEF Before
  <1> QED BY <1>2, <1>3, <1>4

\* The messages that are due become a list of their handlers.
LEMMA InOrderType ==
    ASSUME NEW ds, Distinct(ds), IsFiniteSet(ds)
    PROVE  /\ InOrder(ds) \in Seq(Handlers)
           /\ \A i \in 1 .. Len(InOrder(ds)) : \E d \in ds : InOrder(ds)[i] = d.h
  <1> DEFINE R == {p \in ds \X ds : Before(p[1], p[2])}
             n == Cardinality(ds)
             D(i) == CHOOSE d \in ds : Cardinality({e \in ds : Before(e, d)}) = i - 1
  <1>1. \A d, e \in ds : <<d, e>> \in R <=> Before(d, e) OBVIOUS
  <1>2. n \in Nat BY FS_CardinalityType
  <1> HIDE DEF R
  <1>3. \A k \in 1 .. n : \E d \in ds : Cardinality({e \in ds : <<e, d>> \in R}) = k - 1
    <2>1. /\ \A x \in ds : <<x, x>> \notin R
          /\ \A x, y, z \in ds : <<x, y>> \in R /\ <<y, z>> \in R => <<x, z>> \in R
          /\ \A x, y \in ds : x = y \/ <<x, y>> \in R \/ <<y, x>> \in R
      BY <1>1, BeforeOrders
    <2> QED BY <2>1, Ranks
  <1>4. \A d \in ds : {e \in ds : <<e, d>> \in R} = {e \in ds : Before(e, d)} BY <1>1
  <1>5. \A k \in 1 .. n : \E d \in ds : Cardinality({e \in ds : Before(e, d)}) = k - 1
    BY <1>3, <1>4
  <1>6. \A k \in 1 .. n : D(k) \in ds
    <2> TAKE k \in 1 .. n
    <2>1. \E d \in ds : Cardinality({e \in ds : Before(e, d)}) = k - 1 BY <1>5
    <2> QED BY <2>1
  <1>7. InOrder(ds) = [i \in 1 .. n |-> D(i).h] BY DEF InOrder
  <1> HIDE DEF D, n
  <1>8. \A k \in 1 .. n : D(k).h \in Handlers BY <1>6 DEF Distinct, DelayedMessage
  <1>9. InOrder(ds) \in Seq(Handlers) /\ Len(InOrder(ds)) = n BY <1>2, <1>7, <1>8
  <1>10. \A i \in 1 .. n : InOrder(ds)[i] = D(i).h BY <1>7
  <1> QED BY <1>6, <1>9, <1>10

\* The priority queue has a top.
LEMMA TopOfIsTop ==
    ASSUME NEW ds, Distinct(ds), ds # {}
    PROVE  TopOf(ds) \in ds /\ \A e \in ds \ {TopOf(ds)} : Before(TopOf(ds), e)
  <1> DEFINE T == {d.trigger : d \in ds}
  <1>0. \A d \in ds : d.trigger \in Nat /\ d.num \in Nat
    BY TimeAssumption DEF Distinct, DelayedMessage
  <1>1. T \subseteq Nat /\ T # {} BY <1>0
  <1>2. PICK x \in T : \A y \in T : x <= y BY <1>1, LeastNat
  <1> DEFINE S == {d \in ds : d.trigger = x}
             N == {d.num : d \in S}
  <1>3. N \subseteq Nat /\ N # {} BY <1>0
  <1>4. PICK k \in N : \A y \in N : k <= y BY <1>3, LeastNat
  <1>5. PICK d \in S : d.num = k BY <1>4
  <1>6. ASSUME NEW e \in ds \ {d} PROVE Before(d, e)
    <2>1. d.num # e.num BY <1>5 DEF Distinct
    <2>2. d.trigger <= e.trigger BY <1>2, <1>5
    <2>3. e.trigger = d.trigger => d.num <= e.num
      <3>1. e.trigger = d.trigger => e \in S BY <1>5
      <3> QED BY <1>4, <1>5, <3>1
    <2>4. /\ d.trigger \in Nat /\ e.trigger \in Nat /\ d.num \in Nat /\ e.num \in Nat
      BY <1>0, <1>5
    <2> QED BY <2>1, <2>2, <2>3, <2>4 DEF Before
  <1>7. d \in ds /\ \A e \in ds \ {d} : Before(d, e) BY <1>5, <1>6
  <1> HIDE DEF T, S, N
  <1> QED BY <1>7 DEF TopOf

\* What is left after the scan is not due: the time-out is positive.
LEMMA DelayType ==
    ASSUME NEW ds, Distinct(ds), NEW cur \in 0 .. TimeMod - 1, ds \ Due(ds, cur) # {}
    PROVE  TimeDiff(TopOf(ds \ Due(ds, cur)).trigger, cur) \in Nat
  <1> DEFINE rest == ds \ Due(ds, cur)
             d == TopOf(rest)
  <1>1. Distinct(rest) BY DEF Distinct
  <1>2. d \in rest /\ \A e \in rest \ {d} : Before(d, e) BY <1>1, TopOfIsTop
  <1> HIDE DEF d
  <1>3. PICK e \in ds : (Before(e, d) \/ e = d) /\ TimeIsLater(cur, e.trigger)
    BY <1>2 DEF Due
  <1>4. e \in rest BY <1>3 DEF Due
  <1> HIDE DEF rest
  <1>5. e = d
    <2>1. SUFFICES ASSUME Before(e, d), Before(d, e) PROVE FALSE BY <1>2, <1>3, <1>4
    <2>2. Before(d, d) BY <1>1, <1>2, <1>4, <2>1, BeforeOrders
    <2> QED BY <1>1, <1>2, <2>2, BeforeOrders
  <1>6. TimeDiff(d.trigger, cur) > 0 BY <1>3, <1>5 DEF TimeIsLater, TimeDiff
  <1>7. d.trigger \in 0 .. TimeMod - 1
    BY <1>1, <1>2 DEF Distinct, DelayedMessage
  <1>8. TimeDiff(d.trigger, cur) \in Int
    <2>1. d.trigger - cur \in Int BY <1>7, TimeAssumption
    <2>2. (d.trigger - cur) % TimeMod \in Int BY <2>1, TimeAssumption
    <2> QED BY <2>2, TimeAssumption DEF TimeDiff, Signed
  <1> QED BY <1>6, <1>8 DEF d, rest

\* The queue after the due messages were moved over.
LEMMA ScanQueue ==
    ASSUME IInv, NEW t \in Threads, NEW due \in SUBSET dmsgq[t]
    PROVE  /\ msgq[t] \o InOrder(due) \in Seq(Target)
           /\ \A i \in 1 .. Len(msgq[t] \o InOrder(due)) :
                 Reaches((msgq[t] \o InOrder(due))[i], t)
           /\ IsFiniteSet(due) /\ Distinct(due) /\ Distinct(dmsgq[t])
  <1> DEFINE m == msgq[t]
             r == InOrder(due)
  <1>0. TypeOK /\ Numbered /\ Homes BY DEF IInv
  <1>1. Distinct(dmsgq[t]) /\ Distinct(due) BY <1>0 DEF Numbered, TypeOK, Distinct
  <1>2. IsFiniteSet(due) BY <1>0, FS_Subset DEF Numbered
  <1>3. /\ r \in Seq(Handlers) /\ \A i \in 1 .. Len(r) : \E d \in due : r[i] = d.h
    BY <1>1, <1>2, InOrderType
  <1>4. m \in Seq(Target) BY <1>0 DEF TypeOK
  <1>5. \A i \in 1 .. Len(m) : Reaches(m[i], t) BY <1>0 DEF Homes
  <1>6. \A d \in due : Reaches(d.h, t) BY <1>0 DEF Homes
  <1> HIDE DEF r, m
  <1>7. \A i \in 1 .. Len(r) : Reaches(r[i], t) BY <1>3, <1>6
  <1>8. r \in Seq(Target)
    <2>1. Handlers \subseteq Target BY DEF Target
    <2> QED BY <1>3, <2>1, SeqMonotonic
  <1>9. /\ m \o r \in Seq(Target) /\ Len(m \o r) = Len(m) + Len(r)
        /\ \A i \in 1 .. Len(m) + Len(r) :
              (m \o r)[i] = IF i <= Len(m) THEN m[i] ELSE r[i - Len(m)]
    BY <1>4, <1>8, ConcatProperties
  <1>10. ASSUME NEW i \in 1 .. Len(m) + Len(r) PROVE Reaches((m \o r)[i], t)
    <2>1. Len(m) \in Nat /\ Len(r) \in Nat BY <1>4, <1>8
    <2>2. CASE i <= Len(m)
      <3>1. i \in 1 .. Len(m) BY <2>1, <2>2
      <3> QED BY <1>5, <1>9, <2>2, <3>1
    <2>3. CASE ~(i <= Len(m))
      <3>1. i - Len(m) \in 1 .. Len(r) BY <2>1, <2>3
      <3> QED BY <1>7, <1>9, <2>3, <3>1
    <2> QED BY <2>2, <2>3
  <1> QED BY <1>1, <1>2, <1>9, <1>10 DEF m, r

\* What the scan leaves behind, whatever it found.
LEMMA ScanKeeps ==
    ASSUME IInv, NEW t \in Threads, Top(t).op = "Get", NEW due \in SUBSET dmsgq[t],
           NEW m \in Seq(Target), \A i \in 1 .. Len(m) : Reaches(m[i], t),
           dmsgq' = [dmsgq EXCEPT ![t] = dmsgq[t] \ due],
           msgq' = [msgq EXCEPT ![t] = m],
           UNCHANGED <<dnum, sendlist, fStop, signaled, ready, dead, now, left>>,
           Alone(t), Stacks', NEW New, Shift(stack[t], stack'[t], New),
           \A f \in New : PushHome(f), Tame(stack[t], stack'[t]), WellFormed(stack'[t]),
           GetWakes(t)', SendWakes(t)'
    PROVE  IInv'
  <1>0. TypeOK /\ Shape /\ Homes /\ Numbered BY DEF IInv
  <1>1. /\ dmsgq'[t] = dmsgq[t] \ due /\ msgq'[t] = m
        /\ \A u \in Threads : u # t => dmsgq'[u] = dmsgq[u] /\ msgq'[u] = msgq[u]
    BY <1>0 DEF TypeOK
  <1>2. TypeOK'
    <2>1. dmsgq' \in [Threads -> SUBSET DelayedMessage]
      <3>1. dmsgq[t] \ due \in SUBSET DelayedMessage BY <1>0 DEF TypeOK
      <3> QED BY <1>0, <3>1 DEF TypeOK
    <2>2. msgq' \in [Threads -> Seq(Target)] BY <1>0 DEF TypeOK
    <2> QED BY <1>0, <2>1, <2>2 DEF TypeOK, Stacks
  <1>3. Numbered'
    <2>1. IsFiniteSet(dmsgq[t] \ due) BY <1>0, FS_Subset DEF Numbered
    <2> QED BY <1>0, <1>1, <2>1 DEF Numbered
  <1>4. QueueHomes'
    <2>1. ASSUME NEW u \in Threads, NEW i \in 1 .. Len(msgq'[u]) PROVE Reaches(msgq'[u][i], u)
      BY <1>0, <1>1 DEF Homes
    <2>2. ASSUME NEW u \in Threads, NEW d \in dmsgq'[u] PROVE Reaches(d.h, u)
      BY <1>0, <1>1 DEF Homes
    <2> QED BY <1>0, <2>1, <2>2 DEF QueueHomes, Homes, Reaches
  <1>5. Pledges' BY TameKept
  <1>6. ASSUME NEW u \in Threads, u # t, ~signaled'[u] PROVE Calm(u)
    <2>1. Top(t).pc # "wake" BY <1>0, TopFacts DEF AtPlace
    <2>2. \A op \in {"Send", "Quit"} : AboutToWake(op, u) => AboutToWake(op, u)'
      BY <2>1, AboutKept DEF At
    <2> QED BY <1>1, <1>6, <2>2 DEF Calm
  <1>7. dead' = dead OBVIOUS
  <1> QED BY <1>2, <1>3, <1>4, <1>5, <1>6, <1>7, StepKeeps

\* A scan that moves on to place pc with the time-out w.
LEMMA ScanMoves ==
    ASSUME IInv, NEW t \in Threads, Top(t).op = "Get", Top(t).pc \in {"scan", "again"},
           NEW due \in SUBSET dmsgq[t],
           NEW m \in Seq(Target), \A i \in 1 .. Len(m) : Reaches(m[i], t),
           dmsgq' = [dmsgq EXCEPT ![t] = dmsgq[t] \ due],
           msgq' = [msgq EXCEPT ![t] = m],
           UNCHANGED <<dnum, sendlist, fStop, signaled, ready, dead, now, left>>,
           NEW f \in Frames, f.op = "Get", f.pc \in {"stop", "again"}, stack' = Moved(t, f),
           f.pc = "stop" => m = <<>>,
           ~signaled[t] /\ dmsgq[t] \ due # {} => f.delay # Forever
    PROVE  IInv'
  <1>0. TypeOK /\ Shape /\ Wakes BY DEF IInv
  <1>1. /\ Stacks /\ stack[t] \in Seq(Frames) /\ stack[t] # <<>> /\ WellFormed(stack[t])
        /\ Top(t) = stack[t][Len(stack[t])] /\ Len(stack[t]) = 1 /\ stack[t][1] = Top(t)
    BY <1>0, TopFacts
  <1>2. Stacks' /\ Moves(stack[t], stack'[t], f) /\ Alone(t) BY <1>1, MovedMoves
  <1>3. stack'[t] \in Seq(Frames) BY <1>2 DEF Stacks
  <1>4. Shift(stack[t], stack'[t], {f}) /\ Tame(stack[t], stack'[t])
    BY <1>1, <1>2, <1>3, MovesTame DEF Done, LiveSend
  <1>5. WellFormed(stack'[t])
    <2>1. AtPlace(f) BY DEF AtPlace
    <2> QED BY <1>1, <1>2, <2>1, ShapeMoves
  <1>6. Len(stack'[t]) = 1 /\ stack'[t][1] = f BY <1>1, <1>2 DEF Moves
  <1>7. dmsgq'[t] = dmsgq[t] \ due /\ msgq'[t] = m BY <1>0 DEF TypeOK
  <1>8. GetWakes(t)'
    <2> SUFFICES ASSUME Quiet(t, 1)' PROVE GetWakes(t)' BY DEF GetWakes
    <2>1. ~signaled[t] BY DEF Quiet
    <2>2. Quiet(t, 1) BY <1>1, <2>1, AloneGetOwes DEF Quiet
    <2>3. sendlist[t] # <<>> => AboutToWake("Send", t)
      BY <1>0, <1>1, <2>2 DEF Wakes, GetWakes, Past
    <2>4. AboutToWake("Send", t) => AboutToWake("Send", t)'
      BY <1>2, AboutKept DEF At
    <2> QED BY <1>6, <1>7, <2>1, <2>3, <2>4 DEF GetWakes
  <1>9. SendWakes(t)'
    <2>1. \A i \in 1 .. 1 : i = 1 OBVIOUS
    <2> QED BY <1>6, <2>1 DEF SendWakes
  <1> DEFINE New == {f}
  <1>10. Shift(stack[t], stack'[t], New) /\ \A k \in New : PushHome(k)
    BY <1>4 DEF PushHome
  <1> HIDE DEF New
  <1> QED BY <1>2, <1>4, <1>5, <1>8, <1>9, <1>10, ScanKeeps

\* A scan that calls the handler of the first message.
LEMMA ScanCalls ==
    ASSUME IInv, NEW t \in Threads, Top(t).op = "Get",
           NEW due \in SUBSET dmsgq[t],
           NEW m \in Seq(Target), \A i \in 1 .. Len(m) : Reaches(m[i], t),
           dmsgq' = [dmsgq EXCEPT ![t] = dmsgq[t] \ due],
           msgq' = [msgq EXCEPT ![t] = m],
           UNCHANGED <<dnum, sendlist, fStop, signaled, ready, dead, now, left>>,
           NEW f \in Frames, f.op = "Get", f.pc = "sends",
           NEW g \in Frames, g.op = "Body", g.pc = "run",
           stack' = Called(t, f, g)
    PROVE  IInv'
  <1>0. TypeOK /\ Shape /\ Wakes BY DEF IInv
  <1>1. /\ Stacks /\ stack[t] \in Seq(Frames) /\ stack[t] # <<>> /\ WellFormed(stack[t])
        /\ Top(t) = stack[t][Len(stack[t])] /\ Len(stack[t]) = 1 /\ stack[t][1] = Top(t)
    BY <1>0, TopFacts
  <1>2. Stacks' /\ Enters(stack[t], stack'[t], f, g) /\ Alone(t) BY <1>1, CalledEnters
  <1>3. stack'[t] \in Seq(Frames) BY <1>2 DEF Stacks
  <1>4. Shift(stack[t], stack'[t], {f, g}) /\ Tame(stack[t], stack'[t])
    BY <1>1, <1>2, <1>3, EntersTame DEF Done, LiveSend
  <1>5. WellFormed(stack'[t])
    <2>1. AtPlace(f) /\ AtPlace(g) /\ Calls(f, g) BY DEF AtPlace, Calls
    <2> QED BY <1>1, <1>2, <1>3, <2>1, ShapeEnters
  <1>6. Len(stack'[t]) = 2 /\ stack'[t][1] = f /\ stack'[t][2] = g BY <1>1, <1>2 DEF Enters
  <1>7. GetWakes(t)' BY <1>6 DEF GetWakes, Past
  <1>8. SendWakes(t)'
    <2>1. \A i \in 1 .. 2 : i = 1 \/ i = 2 OBVIOUS
    <2> QED BY <1>6, <2>1 DEF SendWakes
  <1> DEFINE New == {f, g}
  <1>9. Shift(stack[t], stack'[t], New) /\ \A k \in New : PushHome(k)
    BY <1>4 DEF PushHome
  <1> HIDE DEF New
  <1> QED BY <1>2, <1>4, <1>5, <1>7, <1>8, <1>9, ScanKeeps

\* One pass of Get under crit_.
LEMMA GetScanKeeps ==
    ASSUME IInv, NEW t \in Threads, GetScan(t)
    PROVE  IInv'
  <1> DEFINE f == Top(t)
             due == IF f.pc = "scan" THEN Due(dmsgq[t], f.cur) ELSE {}
             rest == dmsgq[t] \ due
             q == msgq[t] \o InOrder(due)
             wait == IF f.pc = "again" THEN f.delay
                     ELSE IF rest = {} THEN Forever
                     ELSE TimeDiff(TopOf(rest).trigger, f.cur)
             m == IF q = <<>> THEN q ELSE Tail(q)
             s == [f EXCEPT !.delay = wait, !.cur = 0, !.pc = "stop"]
             a == [f EXCEPT !.delay = wait, !.cur = 0, !.pc = "again"]
             b == [f EXCEPT !.pc = "sends", !.cur = 0, !.delay = Forever]
             g == Frame("Body", "run", t, Head(q))
  <1>0. TypeOK /\ Shape /\ Wakes BY DEF IInv
  <1>1. /\ f.op = "Get" /\ f.pc \in {"scan", "again"}
        /\ UNCHANGED <<dnum, sendlist, fStop, signaled, ready, dead, now, left>>
        /\ dmsgq' = [dmsgq EXCEPT ![t] = rest] /\ msgq' = [msgq EXCEPT ![t] = m]
        /\ q = <<>> => stack' = Moved(t, s)
        /\ q # <<>> /\ Head(q) = None => stack' = Moved(t, a)
        /\ q # <<>> /\ Head(q) # None => stack' = Called(t, b, g)
    BY DEF GetScan
  <1>2. f \in Frames /\ stack[t][1] = f /\ Len(stack[t]) = 1 BY <1>0, <1>1, TopFacts
  <1>3. due \in SUBSET dmsgq[t] BY DEF Due
  <1>4. /\ q \in Seq(Target) /\ \A i \in 1 .. Len(q) : Reaches(q[i], t)
        /\ Distinct(dmsgq[t])
    BY <1>3, ScanQueue
  <1>5. wait \in Nat \cup {Forever}
    <2>1. CASE f.pc = "again" BY <1>2, <2>1 DEF Frames
    <2>2. CASE f.pc = "scan" /\ rest = {} BY <2>2
    <2>3. CASE f.pc = "scan" /\ rest # {}
      <3>1. f.cur \in 0 .. TimeMod - 1 BY <1>2 DEF Frames
      <3>2. due = Due(dmsgq[t], f.cur) BY <2>3
      <3>3. wait = TimeDiff(TopOf(dmsgq[t] \ Due(dmsgq[t], f.cur)).trigger, f.cur) BY <2>3, <3>2
      <3> QED BY <1>4, <2>3, <3>1, <3>2, <3>3, DelayType
    <2> QED BY <1>1, <2>1, <2>2, <2>3
  <1>6. ~signaled[t] /\ rest # {} => wait # Forever
    <2>1. CASE f.pc = "again"
      <3> SUFFICES ASSUME ~signaled[t], rest # {} PROVE wait # Forever OBVIOUS
      <3>1. Quiet(t, 1) BY <1>2, AloneGetOwes DEF Quiet
      <3>2. dmsgq[t] # {} BY <1>3
      <3> QED BY <1>0, <1>2, <2>1, <3>1, <3>2 DEF Wakes, GetWakes
    <2>2. CASE f.pc = "scan" /\ rest # {}
      <3>1. f.cur \in 0 .. TimeMod - 1 BY <1>2 DEF Frames
      <3>2. due = Due(dmsgq[t], f.cur) BY <2>2
      <3>3. wait = TimeDiff(TopOf(dmsgq[t] \ Due(dmsgq[t], f.cur)).trigger, f.cur) BY <2>2, <3>2
      <3>4. wait \in Nat BY <1>4, <2>2, <3>1, <3>2, <3>3, DelayType
      <3> QED BY <3>4 DEF Forever
    <2> QED BY <1>1, <2>1, <2>2
  <1> HIDE DEF due, q, wait
  <1>7. m \in Seq(Target) /\ \A i \in 1 .. Len(m) : Reaches(m[i], t)
    <2>1. CASE q = <<>> BY <1>4, <2>1
    <2>2. CASE q # <<>>
      <3>1. /\ Tail(q) \in Seq(Target) /\ Len(Tail(q)) = Len(q) - 1
            /\ \A i \in 1 .. Len(q) - 1 : Tail(q)[i] = q[i + 1]
        BY <1>4, <2>2
      <3>2. Len(q) \in Nat BY <1>4
      <3>3. \A i \in 1 .. Len(q) - 1 : i + 1 \in 1 .. Len(q) BY <3>2
      <3> QED BY <1>4, <2>2, <3>1, <3>3
    <2> QED BY <2>1, <2>2
  <1>8. 0 \in 0 .. TimeMod - 1 BY TimeAssumption
  <1>9. s \in Frames /\ s.op = "Get" /\ s.pc = "stop" /\ s.delay = wait
    BY <1>1, <1>2, <1>5, <1>8 DEF Frames, Pcs
  <1>10. a \in Frames /\ a.op = "Get" /\ a.pc = "again" /\ a.delay = wait
    BY <1>1, <1>2, <1>5, <1>8 DEF Frames, Pcs
  <1>11. b \in Frames /\ b.op = "Get" /\ b.pc = "sends"
    BY <1>1, <1>2, <1>8 DEF Frames, Pcs, Forever
  <1>12. q = <<>> => m = <<>> OBVIOUS
  <1> HIDE DEF s, a, b, m
  <1>13. CASE q = <<>>
    <2>1. stack' = Moved(t, s) BY <1>1, <1>13
    <2> QED BY <1>1, <1>3, <1>6, <1>7, <1>9, <1>12, <1>13, <2>1, ScanMoves
  <1>14. CASE q # <<>> /\ Head(q) = None
    <2>1. stack' = Moved(t, a) BY <1>1, <1>14
    <2> QED BY <1>1, <1>3, <1>6, <1>7, <1>10, <2>1, ScanMoves
  <1>15. CASE q # <<>> /\ Head(q) # None
    <2>1. Head(q) \in Target BY <1>4, <1>15
    <2>2. g \in Frames /\ g.op = "Body" /\ g.pc = "run" BY <2>1, NewFrames
    <2>3. stack' = Called(t, b, g) BY <1>1, <1>15
    <2> HIDE DEF g
    <2> QED BY <1>1, <1>3, <1>7, <1>11, <2>2, <2>3, ScanCalls
  <1> QED BY <1>13, <1>14, <1>15

-----------------------------------------------------------------------------
(* The theorems                                                            *)

\* Every thread is at the beginning of Get, its queues are empty.
LEMMA InitKeeps ==
    ASSUME Init
    PROVE  IInv
  <1> DEFINE g(t) == Frame("Get", "sends", t, None)
  <1>1. \A t \in Threads : g(t) \in Frames /\ g(t).op = "Get" /\ g(t).pc = "sends"
    <2> TAKE t \in Threads
    <2>1. <<t, 0>> \in Address BY DEF Address
    <2>2. 0 \in 0 .. TimeMod - 1 BY TimeAssumption
    <2>3. "Get" \in Ops /\ "sends" \in Pcs BY DEF Ops, Pcs
    <2> QED BY <2>1, <2>2, <2>3, NoneType DEF Frame, Frames, Forever
  <1>2. \A t \in Threads : stack[t] = <<g(t)>> BY DEF Init
  <1> HIDE DEF g
  <1>3. \A t \in Threads :
           /\ Len(stack[t]) = 1 /\ stack[t][1] = g(t) /\ stack[t] # <<>>
           /\ stack[t] \in Seq(Frames)
    <2>1. \A k \in Frames : Len(<<k>>) = 1 /\ <<k>>[1] = k /\ <<k>> # <<>> /\ <<k>> \in Seq(Frames)
      OBVIOUS
    <2> QED BY <1>1, <1>2, <2>1
  <1>4. \A i \in 1 .. 1 : i = 1 OBVIOUS
  <1>5. TypeOK
    <2>1. stack \in [Threads -> Seq(Frames)]
      <3>1. stack = [t \in Threads |-> stack[t]] BY DEF Init
      <3> QED BY <1>3, <3>1
    <2>2. left \in [{"call", "io", "quit", "clear"} -> Nat] BY BoundAssumption DEF Init
    <2> QED BY <1>3, <2>1, <2>2 DEF Init, TypeOK
  <1>6. Shape
    <2> SUFFICES ASSUME NEW t \in Threads PROVE WellFormed(stack[t]) BY DEF Shape
    <2>1. \A i \in 1 .. Len(stack[t]) : i = 1 BY <1>3, <1>4
    <2>2. AtPlace(stack[t][1]) BY <1>1, <1>3 DEF AtPlace
    <2> QED BY <1>1, <1>3, <2>1, <2>2 DEF WellFormed
  <1>7. Numbered BY FS_EmptySet DEF Init, Numbered
  <1>8. \A t \in Threads : \A i \in 1 .. Len(stack[t]) :
           stack[t][i].op = "Get" /\ stack[t][i].pc = "sends"
    BY <1>1, <1>3, <1>4
  <1>9. \A t \in Threads : msgq[t] = <<>> /\ sendlist[t] = <<>> /\ dmsgq[t] = {} BY DEF Init
  <1>10. ready = {} BY DEF Init
  <1>11. Homes BY <1>8, <1>9 DEF Homes, PushHome
  <1>12. Pledges BY <1>8, <1>9, <1>10 DEF Pledges, QueuedPledges, RunningPledges, Done
  <1>13. Wakes
    <2> SUFFICES ASSUME NEW t \in Threads PROVE GetWakes(t) /\ SendWakes(t) BY DEF Wakes
    <2>1. GetWakes(t) BY <1>1, <1>3 DEF GetWakes, Past
    <2>2. SendWakes(t) BY <1>8 DEF SendWakes
    <2> QED BY <2>1, <2>2
  <1> QED BY <1>5, <1>6, <1>7, <1>11, <1>12, <1>13 DEF IInv

\* Nothing happens.
LEMMA StutterKeeps ==
    ASSUME IInv, UNCHANGED vars
    PROVE  IInv'
  <1>1. UNCHANGED <<stack, msgq, dmsgq, dnum, sendlist, fStop, signaled, ready, dead, now, left>>
    BY DEF vars
  <1>2. TypeOK' BY <1>1 DEF IInv, TypeOK
  <1>3. Shape' BY <1>1 DEF IInv, Shape
  <1>4. Numbered' BY <1>1 DEF IInv, Numbered
  <1>5. Homes' BY <1>1 DEF IInv, Homes, PushHome, Reaches
  <1>6. Pledges' BY <1>1 DEF IInv, Pledges, QueuedPledges, RunningPledges
  <1>7. Wakes'
    BY <1>1 DEF IInv, Wakes, GetWakes, SendWakes, Quiet, Owed, Past, AboutToWake, At, Top
  <1> QED BY <1>2, <1>3, <1>4, <1>5, <1>6, <1>7 DEF IInv

\* A step inside the queue's own code.
LEMMA InsideKeeps ==
    ASSUME IInv, NEW t \in Threads, Inside(t)
    PROVE  IInv'
  <1>1. CASE GetStart(t) BY <1>1, GetStartKeeps
  <1>2. CASE GetScan(t) BY <1>2, GetScanKeeps
  <1>3. CASE GetStop(t) BY <1>3, GetStopKeeps
  <1>4. CASE GetWait(t) BY <1>4, GetWaitKeeps
  <1>5. CASE ReceiveSends(t)
    BY <1>5, ReceiveSendsReturns, ReceiveSendsTakes
  <1>6. CASE Post(t) BY <1>6, PostKeeps
  <1>7. CASE DoDelayPost(t) BY <1>7, DoDelayPostKeeps
  <1>8. CASE Quit(t) BY <1>8, QuitKeeps
  <1>9. CASE SendPush(t) BY <1>9, SendPushKeeps
  <1>10. CASE SendWake(t) BY <1>10, SendWakeKeeps
  <1>11. CASE SendTest(t) BY <1>11, SendTestWaits, SendTestReturns
  <1>12. CASE SendWait(t) BY <1>12, SendWaitKeeps
  <1>13. CASE Return(t) BY <1>13, ReturnKeeps
  <1> QED BY <1>1, <1>2, <1>3, <1>4, <1>5, <1>6, <1>7, <1>8, <1>9, <1>10, <1>11, <1>12,
             <1>13 DEF Inside

\* A call by a handler or a callback.
LEMMA ClientKeeps ==
    ASSUME IInv, NEW t \in Threads, Client(t)
    PROVE  IInv'
  <1>1. CASE IoEvent(t) BY <1>1, IoEventKeeps
  <1>2. ASSUME NEW h \in Handlers, CallPost(t, h, Home[h]) PROVE IInv'
    <2>1. h \in Target /\ Home[h] \in Threads BY HomeAssumption DEF Target
    <2> QED BY <1>2, <2>1, CallPostKeeps
  <1>3. ASSUME NEW h \in Handlers, NEW d \in Delays, CallPostDelayed(t, h, d) PROVE IInv'
    BY <1>3, CallPostDelayedKeeps
  <1>4. ASSUME NEW h \in Handlers, CallSend(t, h) PROVE IInv' BY <1>4, CallSendKeeps
  <1>5. ASSUME NEW h \in Handlers, CallClear(t, h) PROVE IInv' BY <1>5, CallClearKeeps
  <1>6. ASSUME NEW h \in Handlers, DestroyHandler(t, h) PROVE IInv'
    BY <1>6, DestroyHandlerKeeps
  <1>7. ASSUME NEW to \in DisposeTo, CallPost(t, None, to) PROVE IInv'
    <2>1. to \in Threads BY HomeAssumption
    <2> QED BY <1>7, <2>1, NoneType, CallPostKeeps
  <1>8. ASSUME NEW to \in Threads, CallQuit(t, to) PROVE IInv' BY <1>8, CallQuitKeeps
  <1> QED BY <1>1, <1>2, <1>3, <1>4, <1>5, <1>6, <1>7, <1>8 DEF Client

\* Every reachable state satisfies the inductive invariant, for any threads, handlers,
\* delays and bounds.
THEOREM Invariance == Spec => []IInv
  <1>1. Init => IInv BY InitKeeps
  <1>2. IInv /\ [Next]_vars => IInv'
    <2> SUFFICES ASSUME IInv, [Next]_vars PROVE IInv' OBVIOUS
    <2>1. CASE Tick BY <2>1, TickKeeps
    <2>2. ASSUME NEW t \in Threads, Inside(t) PROVE IInv' BY <2>2, InsideKeeps
    <2>3. ASSUME NEW t \in Threads, Client(t) PROVE IInv' BY <2>3, ClientKeeps
    <2>4. CASE UNCHANGED vars BY <2>4, StutterKeeps
    <2> QED BY <2>1, <2>2, <2>3, <2>4 DEF Next
  <1> QED BY <1>1, <1>2, PTL DEF Spec

\* The state has its types: in particular a message is queued with the address of a flag,
\* and a trigger time is a uint32 (TypeOK).
THEOREM TypeCorrect == Spec => []TypeOK
  <1>1. IInv => TypeOK BY DEF IInv
  <1> QED BY <1>1, Invariance, PTL

\* No wake-up is lost (NoLostWakeUp): however the Waits of Get and of nested Sends share
\* a thread's one signal, a thread does not sleep over a message, a set flag or fStop_.
THEOREM WakesTheSleeper == Spec => []NoLostWakeUp
  <1>1. IInv => NoLostWakeUp
    <2> SUFFICES ASSUME IInv, NEW t \in Threads, Waiting(t), ~signaled[t]
                 PROVE  /\ sendlist[t] # <<>> => AboutToWake("Send", t)
                        /\ Top(t).op = "Send" => <<t, Len(stack[t])>> \notin ready
                        /\ Top(t).op = "Get" =>
                              /\ msgq[t] = <<>>
                              /\ dmsgq[t] # {} => Top(t).until # Forever
                              /\ fStop[t] => AboutToWake("Quit", t)
      BY DEF NoLostWakeUp
    <2>1. /\ Top(t) \in Frames /\ AtPlace(Top(t)) /\ Top(t) = stack[t][Len(stack[t])]
          /\ Top(t).op = "Get" => Len(stack[t]) = 1 /\ stack[t][1] = Top(t)
          /\ Len(stack[t]) \in Nat /\ Len(stack[t]) > 0
      BY TopFacts DEF IInv
    <2>2. Top(t).op \in {"Get", "Send"} BY <2>1 DEF Waiting, AtPlace, Frames, Ops
    <2>3. GetWakes(t) /\ SendWakes(t) BY DEF IInv, Wakes
    <2>4. CASE Top(t).op = "Get"
      <3>1. Quiet(t, 1) BY <2>1, <2>4, AloneGetOwes DEF Quiet
      <3> QED BY <2>1, <2>3, <2>4, <3>1 DEF GetWakes, Past, Waiting
    <2>5. CASE Top(t).op = "Send"
      <3> DEFINE n == Len(stack[t])
      <3>1. ~Owed(t, n)
        <4>1. n \in Nat BY <2>1
        <4> HIDE DEF n
        <4>2. \A j \in 1 .. n : ~(j > n) BY <4>1
        <4> QED BY <4>2 DEF Owed, n
      <3>2. Quiet(t, n) BY <3>1 DEF Quiet
      <3>3. n \in 1 .. n BY <2>1
      <3> QED BY <2>1, <2>3, <2>5, <3>2, <3>3 DEF SendWakes, Waiting
    <2> QED BY <2>2, <2>4, <2>5
  <1> QED BY <1>1, Invariance, PTL

\* No flag is written that is not a waiting Send's, and nothing queued refers to a handler
\* that was destroyed (NothingDangles).
THEOREM LeavesNothingDangling == Spec => []NothingDangles
  <1>1. IInv => ReadyIsLive
    <2> SUFFICES ASSUME IInv, NEW a \in Pledged
                 PROVE  /\ a \notin ready /\ a[2] <= Len(stack[a[1]])
                        /\ LET f == stack[a[1]][a[2]]
                           IN f.op = "Send" /\ f.pc \in {"wake", "test", "wait"}
      BY DEF ReadyIsLive
    <2>1. QueuedPledges /\ RunningPledges BY DEF IInv, Pledges
    <2>2. a \notin ready /\ Points(stack, a)
      <3>1. CASE \E t \in Threads : \E i \in 1 .. Len(sendlist[t]) : a = sendlist[t][i].ready
        BY <2>1, <3>1 DEF QueuedPledges
      <3>2. CASE \E t \in Threads : \E i \in 1 .. Len(stack[t]) :
                    Done(stack[t][i]) /\ a = stack[t][i].ready
        BY <2>1, <3>2 DEF RunningPledges
      <3> DEFINE Q(t) == {sendlist[t][i].ready : i \in 1 .. Len(sendlist[t])}
                 R(t) == {stack[t][i].ready : i \in {i \in 1 .. Len(stack[t]) :
                            stack[t][i].op = "ReceiveSends" /\ stack[t][i].pc = "done"}}
      <3>3. a \in UNION {Q(t) \cup R(t) : t \in Threads} BY DEF Pledged
      <3> HIDE DEF Q, R
      <3>4. PICK t \in Threads : a \in Q(t) \/ a \in R(t) BY <3>3
      <3>5. CASE a \in Q(t) BY <3>1, <3>5 DEF Q
      <3>6. CASE a \in R(t)
        <4>1. PICK i \in {i \in 1 .. Len(stack[t]) :
                             stack[t][i].op = "ReceiveSends" /\ stack[t][i].pc = "done"} :
                     a = stack[t][i].ready
          BY <3>6 DEF R
        <4>2. i \in 1 .. Len(stack[t]) /\ Done(stack[t][i]) BY <4>1 DEF Done
        <4> QED BY <3>2, <4>1, <4>2
      <3> QED BY <3>4, <3>5, <3>6
    <2> QED BY <2>2 DEF Points, LiveSend
  <1>2. IInv => NoCallAfterDestroy
    <2> SUFFICES ASSUME IInv, NEW t \in Threads
                 PROVE  /\ \A i \in 1 .. Len(msgq[t]) : msgq[t][i] \notin dead
                        /\ \A d \in dmsgq[t] : d.h \notin dead
                        /\ \A i \in 1 .. Len(sendlist[t]) : sendlist[t][i].h \notin dead
      BY DEF NoCallAfterDestroy
    <2>1. dead \subseteq Handlers /\ Homes BY DEF IInv, TypeOK
    <2>2. \A h : Reaches(h, t) => h \notin dead BY <2>1 DEF Reaches
    <2> QED BY <2>1, <2>2 DEF Homes
  <1>3. IInv => NothingDangles BY <1>1, <1>2 DEF NothingDangles
  <1> QED BY <1>3, Invariance, PTL
=============================================================================
