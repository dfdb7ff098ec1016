-------------------------- MODULE TransportProofs --------------------------
(***************************************************************************)
(* Theorems about the connections, for any number of slots and clients and *)
(* any sizes of buffers, chunks and messages.                              *)
(***************************************************************************)
EXTENDS Transport, SequenceTheorems, TLAPS

----------------------------------------------------------------------------
(* Sequences.  Cat keeps the provers from unfolding \o.                    *)

Cat(s, t) == s \o t

LEMMA CatType == \A S : \A s, t \in Seq(S) : Cat(s, t) \in Seq(S)
    BY ConcatProperties DEF Cat

LEMMA CatLen == \A S : \A s, t \in Seq(S) : Len(Cat(s, t)) = Len(s) + Len(t)
    BY ConcatProperties DEF Cat

LEMMA CatAssociative ==
    \A S : \A s, t, u \in Seq(S) : Cat(Cat(s, t), u) = Cat(s, Cat(t, u))
<1> SUFFICES ASSUME NEW S, NEW s \in Seq(S), NEW t \in Seq(S), NEW u \in Seq(S)
             PROVE  (s \o t) \o u = s \o (t \o u)
    BY DEF Cat
<1> QED
    BY ConcatAssociative

LEMMA CatEmpty ==
    \A S : /\ <<>> \in Seq(S)
          /\ \A s \in Seq(S) : Cat(s, <<>>) = s /\ Cat(<<>>, s) = s
    BY ConcatEmptySeq, EmptySeq DEF Cat

\* A sequence is its first n elements and the others.
LEMMA CatSplit ==
    ASSUME NEW S, NEW w \in Seq(S), NEW n \in 0 .. Len(w)
    PROVE  /\ SubSeq(w, 1, n) \in Seq(S)
           /\ SubSeq(w, n + 1, Len(w)) \in Seq(S)
           /\ Cat(SubSeq(w, 1, n), SubSeq(w, n + 1, Len(w))) = w
           /\ Len(SubSeq(w, n + 1, Len(w))) = Len(w) - n
<1>1. Len(w) \in Nat /\ \A i \in 1 .. Len(w) : w[i] \in S
    BY LenProperties, ElementOfSeq
<1>2. SubSeq(w, 1, n) \in Seq(S)
    BY <1>1, SubSeqProperties
<1>3. /\ SubSeq(w, n + 1, Len(w)) \in Seq(S)
      /\ Len(SubSeq(w, n + 1, Len(w))) = IF n + 1 <= Len(w) THEN Len(w) - (n + 1) + 1 ELSE 0
    BY <1>1, SubSeqProperties
<1>4. SubSeq(w, 1, n) \o SubSeq(w, n + 1, Len(w)) = SubSeq(w, 1, Len(w))
  <2>1. 1 \in 1 .. Len(w) + 1 /\ n \in 1 - 1 .. Len(w) /\ Len(w) \in n .. Len(w)
    BY <1>1
  <2> QED
    BY <2>1, ConcatAdjacentSubSeq
<1>5. SubSeq(w, 1, Len(w)) = w
    BY SubSeqFull
<1>6. Len(SubSeq(w, n + 1, Len(w))) = Len(w) - n
    BY <1>1, <1>3
<1> QED
    BY <1>2, <1>3, <1>4, <1>5, <1>6 DEF Cat

LEMMA CatHead ==
    ASSUME NEW S, NEW r \in Seq(S), r # <<>>
    PROVE  /\ Head(r) \in S /\ Tail(r) \in Seq(S) /\ <<Head(r)>> \in Seq(S)
           /\ Cat(<<Head(r)>>, Tail(r)) = r
<1>1. Len(r) \in Nat \ {0}
    BY EmptySeq
<1>2. SubSeq(r, 1, Len(r)) = <<r[1]>> \o SubSeq(r, 2, Len(r))
    BY <1>1, SubSeqRecursiveFirst
<1>3. Head(r) = r[1]
    BY <1>1
<1> QED
    BY <1>1, <1>2, <1>3, SubSeqFull, TailIsSubSeq, HeadTailProperties DEF Cat

LEMMA CatAppend ==
    ASSUME NEW S, NEW s \in Seq(S), NEW e \in S
    PROVE  Append(s, e) \in Seq(S) /\ Append(s, e) = Cat(s, <<e>>)
    BY AppendProperties, AppendIsConcat DEF Cat

\* A line ends as its last byte does.
LEMMA LastOfLine ==
    ASSUME NEW S, NEW h \in Seq(S), NEW i \in Seq(S), NEW e \in S
    PROVE  LET x == Cat(h, Append(i, e)) IN x[Len(x)] = e
<1> DEFINE l == Append(i, e)
           x == Cat(h, l)
<1>1. /\ l \in Seq(S) /\ Len(l) = Len(i) + 1 /\ Len(i) \in Nat
      /\ l[Len(i) + 1] = e
    BY AppendProperties, LenProperties
<1> HIDE DEF l
<1>2. /\ Len(x) = Len(h) + Len(l)
      /\ \A k \in 1 .. Len(h) + Len(l) :
           x[k] = IF k <= Len(h) THEN h[k] ELSE l[k - Len(h)]
    BY <1>1, ConcatProperties DEF Cat
<1>3. Len(h) \in Nat
    BY LenProperties
<1> HIDE DEF x
<1>4. x[Len(x)] = l[Len(x) - Len(h)]
    BY <1>1, <1>2, <1>3
<1>5. Len(x) - Len(h) = Len(i) + 1
    BY <1>1, <1>2, <1>3
<1>6. x[Len(x)] = e
    BY <1>1, <1>4, <1>5
<1> QED
    BY <1>6 DEF x, l

\* What has been handed on, what the buffer holds, the rest of the chunk and
\* what is on the wire.
All(h, i, r, w) == Cat(Cat(Cat(h, i), r), w)

LEMMA ReadSome ==
    ASSUME NEW S, NEW h \in Seq(S), NEW i \in Seq(S), NEW w \in Seq(S),
           NEW n \in 0 .. Len(w)
    PROVE  All(h, i, SubSeq(w, 1, n), SubSeq(w, n + 1, Len(w))) = All(h, i, <<>>, w)
<1> DEFINE a == SubSeq(w, 1, n)
           b == SubSeq(w, n + 1, Len(w))
<1>1. a \in Seq(S) /\ b \in Seq(S) /\ Cat(a, b) = w
    BY CatSplit
<1> HIDE DEF a, b
<1>2. Cat(h, i) \in Seq(S)
    BY CatType
<1>3. Cat(Cat(Cat(h, i), a), b) = Cat(Cat(h, i), Cat(a, b))
    BY <1>1, <1>2, CatAssociative
<1>4. Cat(Cat(h, i), <<>>) = Cat(h, i)
    BY <1>2, CatEmpty
<1>5. All(h, i, a, b) = All(h, i, <<>>, w)
    BY <1>1, <1>3, <1>4 DEF All
<1> QED
    BY <1>5 DEF a, b

LEMMA StoreOne ==
    ASSUME NEW S, NEW h \in Seq(S), NEW i \in Seq(S), NEW w \in Seq(S),
           NEW r \in Seq(S), r # <<>>
    PROVE  All(h, Append(i, Head(r)), Tail(r), w) = All(h, i, r, w)
<1> DEFINE b == <<Head(r)>>
           t == Tail(r)
<1>1. b \in Seq(S) /\ t \in Seq(S) /\ Cat(b, t) = r /\ Head(r) \in S
    BY CatHead
<1>2. Append(i, Head(r)) = Cat(i, b)
    BY <1>1, CatAppend
<1> HIDE DEF b, t
<1>3. Cat(h, i) \in Seq(S)
    BY CatType
<1>4. Cat(h, Cat(i, b)) = Cat(Cat(h, i), b)
    BY <1>1, CatAssociative
<1>5. Cat(Cat(Cat(h, i), b), t) = Cat(Cat(h, i), Cat(b, t))
    BY <1>1, <1>3, CatAssociative
<1>6. All(h, Cat(i, b), t, w) = All(h, i, r, w)
    BY <1>1, <1>4, <1>5 DEF All
<1> QED
    BY <1>2, <1>6 DEF t

LEMMA EndOne ==
    ASSUME NEW S, NEW h \in Seq(S), NEW i \in Seq(S), NEW w \in Seq(S),
           NEW r \in Seq(S), r # <<>>
    PROVE  All(Cat(h, Append(i, Head(r))), <<>>, Tail(r), w) = All(h, i, r, w)
<1> DEFINE l == Append(i, Head(r))
<1>1. l \in Seq(S)
    BY CatHead, CatAppend
<1>2. All(h, l, Tail(r), w) = All(h, i, r, w)
    BY StoreOne
<1> HIDE DEF l
<1>3. Cat(h, l) \in Seq(S)
    BY <1>1, CatType
<1>4. Cat(Cat(h, l), <<>>) = Cat(h, l)
    BY <1>3, CatEmpty
<1>5. All(Cat(h, l), <<>>, Tail(r), w) = All(h, i, r, w)
    BY <1>2, <1>4 DEF All
<1> QED
    BY <1>5 DEF l

\* The numbers to q and the m that follow are the numbers to q + m.
LEMMA CountOn ==
    ASSUME NEW q \in Nat, NEW m \in Nat
    PROVE  /\ [i \in 1 .. q |-> i] \in Seq(Nat)
           /\ [i \in 1 .. m |-> q + i] \in Seq(Nat)
           /\ Len([i \in 1 .. m |-> q + i]) = m
           /\ Cat([i \in 1 .. q |-> i], [i \in 1 .. m |-> q + i]) = [i \in 1 .. q + m |-> i]
<1> DEFINE a == [i \in 1 .. q |-> i]
           b == [i \in 1 .. m |-> q + i]
           c == [i \in 1 .. q + m |-> i]
<1>1. a \in Seq(Nat) /\ Len(a) = q
    OBVIOUS
<1>2. b \in Seq(Nat) /\ Len(b) = m
    OBVIOUS
<1>3. c \in Seq(Nat) /\ Len(c) = q + m
    OBVIOUS
<1>4. /\ a \o b \in Seq(Nat)
      /\ Len(a \o b) = q + m
      /\ \A i \in 1 .. q + m : (a \o b)[i] = IF i <= q THEN a[i] ELSE b[i - q]
    BY <1>1, <1>2, ConcatProperties
<1>5. \A i \in 1 .. q + m : (a \o b)[i] = c[i]
    BY <1>4
<1>6. Cat(a, b) = c
    BY <1>3, <1>4, <1>5, SeqEqual DEF Cat
<1> QED
    BY <1>1, <1>2, <1>6

----------------------------------------------------------------------------
(* The invariant, slot by slot: cl is the server's side of a connection,    *)
(* pr the other, rest what is left of the chunk being read.                *)

EndsInNewline(h) == h # <<>> => h[Len(h)].kind = "newline"

SlotInv(cl, pr, rest) ==
    /\ cl \in Client /\ pr \in Peer
    /\ cl.active =>
         All(pr.handed, cl.input, rest, pr.wire) = Cat(pr.inherited, pr.script)
    /\ EndsInNewline(pr.handed)
    /\ HoldsNoNewline(cl.input) /\ HoldsNoNewline(pr.inherited)
    /\ Cat(pr.received, cl.output) = [i \in 1 .. pr.queued |-> i]
    /\ Len(cl.input) <= MaxLine /\ Len(cl.output) < OutputCap
    /\ ~cl.active => ~cl.joined /\ cl.output = <<>> /\ pr = NoPeer

TaskInv ==
    /\ task \in Task
    /\ task.mode \in {"bytes", "timers", "handler"} => task.slot \in Slot
    /\ task.mode \in {"select", "shutdown"} => task.rest = <<>>

IInv ==
    /\ client \in [Slot -> Client]
    /\ peer \in [Slot -> Peer]
    /\ TaskInv
    /\ arrivals \in Nat
    /\ \A s \in Slot : SlotInv(client[s], peer[s], Rest(s))

\* A step that changes one slot is checked for that slot.
LEMMA OneSlot ==
    ASSUME IInv, NEW s \in Slot, NEW cl, NEW pr,
           client' = [client EXCEPT ![s] = cl],
           peer' = [peer EXCEPT ![s] = pr],
           SlotInv(cl, pr, Rest(s)'),
           \A t \in Slot \ {s} : Rest(t)' = Rest(t),
           TaskInv', arrivals' \in Nat
    PROVE  IInv'
<1>1. cl \in Client /\ pr \in Peer
    BY DEF SlotInv
<1>2. client' \in [Slot -> Client] /\ peer' \in [Slot -> Peer]
    BY <1>1 DEF IInv
<1>3. ASSUME NEW t \in Slot
      PROVE  SlotInv(client'[t], peer'[t], Rest(t)')
  <2>1. CASE t = s
    BY <2>1 DEF IInv
  <2>2. CASE t # s
    <3>1. client'[t] = client[t] /\ peer'[t] = peer[t] /\ Rest(t)' = Rest(t)
      BY <2>2 DEF IInv
    <3> QED
      BY <3>1 DEF IInv
  <2> QED
    BY <2>1, <2>2
<1> QED
    BY <1>2, <1>3 DEF IInv

LEMMA OtherRests ==
    ASSUME IInv, NEW s \in Slot,
           \/ UNCHANGED task
           \/ /\ task.slot = s \/ task.rest = <<>>
              /\ task'.slot = s \/ task'.rest = <<>>
    PROVE  \A t \in Slot \ {s} : Rest(t)' = Rest(t)
    BY DEF Rest

LEMMA IdleInv == ASSUME IInv PROVE (task' = Idle => TaskInv')
    BY EmptySeq DEF Idle, TaskInv, Task

LEMMA FreeInv == ASSUME NEW rest PROVE SlotInv(FreeClient, NoPeer, rest)
<1>1. <<>> \in Seq(Byte) /\ <<>> \in Seq(Nat) /\ Len(<<>>) = 0
    BY EmptySeq
<1>2. FreeClient \in Client /\ NoPeer \in Peer
    BY <1>1 DEF FreeClient, NoPeer, Client, Peer
<1>3. Cat(<<>>, <<>>) = [i \in 1 .. 0 |-> i]
  <2>1. Cat(<<>>, <<>>) = <<>>
    BY <1>1, CatEmpty
  <2>2. [i \in 1 .. 0 |-> i] = <<>>
    OBVIOUS
  <2> QED
    BY <2>1, <2>2
<1>4. HoldsNoNewline(<<>>) /\ EndsInNewline(<<>>)
    BY <1>1 DEF HoldsNoNewline, EndsInNewline
<1>5. 0 <= MaxLine /\ 0 < OutputCap
    BY SizesAssumption
<1>6. /\ ~FreeClient.active /\ ~FreeClient.joined
      /\ FreeClient.input = <<>> /\ FreeClient.output = <<>>
      /\ NoPeer.received = <<>> /\ NoPeer.handed = <<>>
      /\ NoPeer.inherited = <<>> /\ NoPeer.queued = 0
    BY DEF FreeClient, NoPeer
<1> QED
    BY <1>1, <1>2, <1>3, <1>4, <1>5, <1>6 DEF SlotInv

\* Freeing a slot keeps the invariant, whether the server goes on with its
\* task or drops the rest of the slot's chunk.
LEMMA FreeStep ==
    ASSUME IInv, NEW s \in Slot, Free(s),
           UNCHANGED task \/ (task' = Idle /\ task.slot = s),
           UNCHANGED arrivals
    PROVE  IInv'
<1>1. TaskInv'
    BY IdleInv DEF IInv, TaskInv, Task
<1>2. \A t \in Slot \ {s} : Rest(t)' = Rest(t)
    BY OtherRests DEF Idle
<1>3. SlotInv(FreeClient, NoPeer, Rest(s)')
    BY FreeInv
<1> QED
    BY <1>1, <1>2, <1>3, OneSlot DEF Free, IInv

----------------------------------------------------------------------------
(* The actions.                                                            *)

LEMMA StreamType ==
    ASSUME NEW c \in Nat, NEW kinds \in Seq(Kind)
    PROVE  Stream(c, kinds) \in Seq(Byte)
<1>1. Len(kinds) \in Nat /\ \A i \in 1 .. Len(kinds) : kinds[i] \in Kind
    BY LenProperties, ElementOfSeq
<1>2. \A i \in 1 .. Len(kinds) : [from |-> c, at |-> i, kind |-> kinds[i]] \in Byte
    BY <1>1 DEF Byte
<1> QED
    BY <1>1, <1>2 DEF Stream

LEMMA AcceptStep ==
    ASSUME IInv, NEW s \in Slot, NEW kinds \in Scripts, Accept(s, kinds)
    PROVE  IInv'
<1> DEFINE st == Stream(arrivals + 1, kinds)
           cl == [client[s] EXCEPT !.active = TRUE]
           pr == [NoPeer EXCEPT !.wire = st, !.script = st, !.inherited = client[s].input]
<1>1. st \in Seq(Byte)
    BY StreamType, ScriptsAssumption DEF IInv
<1>2. /\ client[s] \in Client /\ ~client[s].active
      /\ client[s].input \in Seq(Byte) /\ client[s].output = <<>>
      /\ HoldsNoNewline(client[s].input)
      /\ Len(client[s].input) <= MaxLine
    BY DEF IInv, SlotInv, Accept, Client
<1>3. SlotInv(FreeClient, NoPeer, <<>>)
    BY FreeInv
<1>4. task = Idle /\ task' = Idle
    BY DEF Accept
<1>5. Rest(s)' = <<>>
    BY <1>4 DEF Rest, Idle
<1> HIDE DEF st
<1>6. cl \in Client /\ pr \in Peer
    BY <1>1, <1>2, <1>3 DEF SlotInv, Client, Peer, NoPeer
<1>7. All(<<>>, client[s].input, <<>>, st) = Cat(client[s].input, st)
    BY <1>1, <1>2, CatEmpty DEF All
<1>8. SlotInv(cl, pr, <<>>)
    BY <1>2, <1>3, <1>6, <1>7 DEF SlotInv, NoPeer, Client, FreeClient
<1>9. client' = [client EXCEPT ![s] = cl] /\ peer' = [peer EXCEPT ![s] = pr]
    BY DEF Accept, IInv, Client, st
<1>10. TaskInv' /\ arrivals' \in Nat
    BY <1>4 DEF Accept, IInv, TaskInv
<1>11. \A t \in Slot \ {s} : Rest(t)' = Rest(t)
    BY <1>4, OtherRests
<1> QED
    BY <1>5, <1>8, <1>9, <1>10, <1>11, OneSlot

LEMMA PeerGoneStep ==
    ASSUME IInv, NEW s \in Slot, PeerGone(s)
    PROVE  IInv'
<1> DEFINE pr == [peer[s] EXCEPT !.gone = TRUE]
<1>1. SlotInv(client[s], pr, Rest(s))
    BY DEF IInv, SlotInv, Peer, PeerGone
<1>2. peer' = [peer EXCEPT ![s] = pr] /\ client' = [client EXCEPT ![s] = client[s]]
    BY DEF PeerGone, IInv, Peer
<1>3. UNCHANGED <<task, arrivals>>
    BY DEF PeerGone
<1>4. TaskInv' /\ \A t \in Slot : Rest(t)' = Rest(t)
    BY <1>3 DEF IInv, TaskInv, Rest
<1> HIDE DEF pr
<1> QED
    BY <1>1, <1>2, <1>3, <1>4, OneSlot DEF IInv

LEMMA RecvStep ==
    ASSUME IInv, NEW s \in Slot, NEW n \in 1 .. ChunkSize, Recv(s, n)
    PROVE  IInv'
<1> DEFINE w == peer[s].wire
           first == SubSeq(w, 1, n)
           others == SubSeq(w, n + 1, Len(w))
           pr == [peer[s] EXCEPT !.wire = others]
           h == peer[s].handed
           i == client[s].input
<1>1. /\ w \in Seq(Byte) /\ h \in Seq(Byte) /\ i \in Seq(Byte)
      /\ client[s] \in Client /\ peer[s] \in Peer /\ client[s].active
      /\ All(h, i, Rest(s), w) = Cat(peer[s].inherited, peer[s].script)
    BY DEF IInv, SlotInv, Peer, Client, Recv
<1>2. n \in 0 .. Len(w)
    BY <1>1, LenProperties, SizesAssumption DEF Recv
<1>3. first \in Seq(Byte) /\ others \in Seq(Byte) /\ Cat(first, others) = w
    BY <1>1, <1>2, CatSplit
<1>4. /\ task = Idle /\ task' = [mode |-> "bytes", slot |-> s, rest |-> first, live |-> TRUE]
      /\ client' = [client EXCEPT ![s] = client[s]]
      /\ peer' = [peer EXCEPT ![s] = pr]
      /\ UNCHANGED arrivals
    BY DEF Recv, IInv, Peer
<1>5. Rest(s) = <<>> /\ Rest(s)' = first
    BY <1>4 DEF Rest, Idle
<1>6. All(h, i, first, others) = All(h, i, <<>>, w)
    BY <1>1, <1>2, ReadSome
<1>7. pr \in Peer
    BY <1>1, <1>3 DEF Peer
<1> HIDE DEF first, others
<1>8. SlotInv(client[s], pr, first)
    BY <1>1, <1>5, <1>6, <1>7 DEF SlotInv, IInv, Peer
<1>9. TaskInv' /\ \A t \in Slot \ {s} : Rest(t)' = Rest(t)
    BY <1>3, <1>4, OtherRests DEF TaskInv, Task, Idle
<1> HIDE DEF pr
<1> QED
    BY <1>4, <1>5, <1>8, <1>9, OneSlot DEF IInv

\* Reading of one more byte.
LEMMA InputFacts ==
    ASSUME IInv, NEW s \in Slot, task.slot = s,
           task.mode = "bytes", task.rest # <<>>
    PROVE  /\ client[s] \in Client /\ peer[s] \in Peer
           /\ SlotInv(client[s], peer[s], task.rest)
           /\ task.rest \in Seq(Byte) /\ client[s].input \in Seq(Byte)
           /\ peer[s].handed \in Seq(Byte) /\ peer[s].wire \in Seq(Byte)
           /\ byte \in Byte /\ Tail(task.rest) \in Seq(Byte)
<1>1. task.rest \in Seq(Byte)
    BY DEF IInv, TaskInv, Task
<1>2. SlotInv(client[s], peer[s], task.rest)
    BY <1>1 DEF IInv, Rest
<1>3. byte \in Byte /\ Tail(task.rest) \in Seq(Byte)
    BY <1>1, CatHead DEF byte
<1> QED
    BY <1>1, <1>2, <1>3 DEF SlotInv, Client, Peer

LEMMA StoreStep ==
    ASSUME IInv, NEW s \in Slot, task.slot = s, StoreByte
    PROVE  IInv'
<1> DEFINE i == client[s].input
           j == Append(i, byte)
           cl == [client[s] EXCEPT !.input = j]
           rest == Tail(task.rest)
<1>1. /\ task.mode = "bytes" /\ task.rest # <<>>
      /\ ~Unacceptable /\ byte.kind # "newline"
      /\ client' = [client EXCEPT ![s].input = j]
      /\ task' = [task EXCEPT !.rest = rest]
      /\ UNCHANGED <<peer, arrivals>>
    BY DEF StoreByte, EndsLine, me
<1>2. /\ client[s] \in Client /\ peer[s] \in Peer
      /\ SlotInv(client[s], peer[s], task.rest)
      /\ task.rest \in Seq(Byte) /\ i \in Seq(Byte)
      /\ peer[s].handed \in Seq(Byte) /\ peer[s].wire \in Seq(Byte)
      /\ byte \in Byte /\ rest \in Seq(Byte)
    BY <1>1, InputFacts
<1>3. /\ j \in Seq(Byte) /\ Len(j) = Len(i) + 1 /\ Len(i) \in Nat
      /\ \A k \in 1 .. Len(i) : j[k] = i[k]
      /\ j[Len(i) + 1] = byte
    BY <1>2, AppendProperties, LenProperties
<1>4. HoldsNoNewline(j)
  <2>1. DOMAIN j = 1 .. Len(i) + 1 /\ DOMAIN i = 1 .. Len(i)
    BY <1>2, <1>3, LenProperties
  <2>2. HoldsNoNewline(i)
    BY <1>2 DEF SlotInv
  <2> QED
    BY <1>1, <1>3, <2>1, <2>2 DEF HoldsNoNewline
<1>5. Len(j) <= MaxLine
    BY <1>1, <1>3, SizesAssumption DEF Unacceptable, me
<1>6. All(peer[s].handed, j, rest, peer[s].wire)
        = All(peer[s].handed, i, task.rest, peer[s].wire)
    BY <1>1, <1>2, StoreOne DEF byte
<1>7. cl \in Client
    BY <1>2, <1>3 DEF Client
<1>8. /\ cl.active = client[s].active /\ cl.joined = client[s].joined
      /\ cl.input = j /\ cl.output = client[s].output
    BY <1>2 DEF Client
<1>9. client' = [client EXCEPT ![s] = cl] /\ peer' = [peer EXCEPT ![s] = peer[s]]
    BY <1>1 DEF IInv
<1> HIDE DEF j, rest
<1>10. SlotInv(cl, peer[s], rest)
  <2> HIDE DEF cl
  <2> QED
    BY <1>2, <1>4, <1>5, <1>6, <1>7, <1>8 DEF SlotInv
<1>11. Rest(s)' = rest /\ \A t \in Slot \ {s} : Rest(t)' = Rest(t)
    BY <1>1, <1>2 DEF Rest, IInv, TaskInv, Task
<1>12. TaskInv' /\ arrivals' \in Nat
    BY <1>1, <1>2 DEF IInv, TaskInv, Task
<1> HIDE DEF cl
<1> QED
    BY <1>2, <1>9, <1>10, <1>11, <1>12, OneSlot

LEMMA EndLineStep ==
    ASSUME IInv, NEW s \in Slot, task.slot = s, EndLine
    PROVE  IInv'
<1> DEFINE i == client[s].input
           l == Append(i, byte)
           h == Cat(peer[s].handed, l)
           cl == [client[s] EXCEPT !.input = <<>>]
           pr == IF client[s].active THEN [peer[s] EXCEPT !.handed = h] ELSE peer[s]
           rest == Tail(task.rest)
<1>1. /\ task.mode = "bytes" /\ task.rest # <<>>
      /\ byte.kind = "newline"
      /\ client' = [client EXCEPT ![s].input = <<>>]
      /\ peer' = IF client[s].active THEN [peer EXCEPT ![s].handed = h] ELSE peer
      /\ task' = [task EXCEPT !.mode = "timers", !.rest = rest]
      /\ UNCHANGED arrivals
    BY DEF EndLine, EndsLine, TakeLine, Cat, me
<1>2. /\ client[s] \in Client /\ peer[s] \in Peer
      /\ SlotInv(client[s], peer[s], task.rest)
      /\ task.rest \in Seq(Byte) /\ i \in Seq(Byte)
      /\ peer[s].handed \in Seq(Byte) /\ peer[s].wire \in Seq(Byte)
      /\ byte \in Byte /\ rest \in Seq(Byte)
    BY <1>1, InputFacts
<1>3. l \in Seq(Byte) /\ h \in Seq(Byte) /\ <<>> \in Seq(Byte)
    BY <1>2, CatAppend, CatType, CatEmpty
<1>4. EndsInNewline(h)
  <2>1. h[Len(h)] = byte
    BY <1>2, LastOfLine
  <2> HIDE DEF h
  <2> QED
    BY <1>1, <2>1 DEF EndsInNewline
<1>5. All(h, <<>>, rest, peer[s].wire)
        = All(peer[s].handed, i, task.rest, peer[s].wire)
    BY <1>1, <1>2, EndOne DEF byte
<1>6. cl \in Client /\ pr \in Peer
    BY <1>2, <1>3 DEF Client, Peer
<1>7. /\ cl.active = client[s].active /\ cl.joined = client[s].joined
      /\ cl.input = <<>> /\ cl.output = client[s].output
      /\ client[s].active =>
           /\ pr.handed = h /\ pr.wire = peer[s].wire /\ pr.script = peer[s].script
           /\ pr.inherited = peer[s].inherited /\ pr.queued = peer[s].queued
           /\ pr.received = peer[s].received
      /\ ~client[s].active => pr = peer[s]
    BY <1>2 DEF Client, Peer
<1>8. client' = [client EXCEPT ![s] = cl] /\ peer' = [peer EXCEPT ![s] = pr]
    BY <1>1 DEF IInv
<1> HIDE DEF l, h, rest, cl, pr
<1>9. HoldsNoNewline(<<>>) /\ Len(<<>>) <= MaxLine
    BY EmptySeq, SizesAssumption DEF HoldsNoNewline
<1>10. SlotInv(cl, pr, rest)
  <2>1. CASE client[s].active
    BY <1>2, <1>4, <1>5, <1>6, <1>7, <1>9, <2>1 DEF SlotInv
  <2>2. CASE ~client[s].active
    BY <1>2, <1>6, <1>7, <1>9, <2>2 DEF SlotInv
  <2> QED
    BY <2>1, <2>2
<1>11. Rest(s)' = rest /\ \A t \in Slot \ {s} : Rest(t)' = Rest(t)
    BY <1>1, <1>2 DEF Rest, IInv, TaskInv, Task
<1>12. TaskInv' /\ arrivals' \in Nat
    BY <1>1, <1>2 DEF IInv, TaskInv, Task
<1> QED
    BY <1>2, <1>8, <1>10, <1>11, <1>12, OneSlot

----------------------------------------------------------------------------
(* Output.                                                                 *)

\* The socket takes n bytes of what is queued.
LEMMA FlushInv ==
    ASSUME NEW cl \in Client, NEW pr \in Peer, NEW rest, cl.active,
           NEW buf \in Seq(Nat), NEW n \in 0 .. Len(buf), NEW q \in Nat, NEW player \in BOOLEAN,
           All(pr.handed, cl.input, rest, pr.wire) = Cat(pr.inherited, pr.script),
           EndsInNewline(pr.handed), HoldsNoNewline(cl.input),
           HoldsNoNewline(pr.inherited), Len(cl.input) <= MaxLine,
           Len(buf) < OutputCap,
           Cat(pr.received, buf) = [i \in 1 .. q |-> i]
    PROVE  SlotInv([cl EXCEPT !.output = Unsent(buf, n), !.joined = player],
                   [pr EXCEPT !.received = Cat(@, SubSeq(buf, 1, n)), !.queued = q],
                   rest)
<1> DEFINE a == SubSeq(buf, 1, n)
           b == SubSeq(buf, n + 1, Len(buf))
           c == [cl EXCEPT !.output = b, !.joined = player]
           p == [pr EXCEPT !.received = Cat(pr.received, a), !.queued = q]
<1>1. /\ a \in Seq(Nat) /\ b \in Seq(Nat) /\ Cat(a, b) = buf
      /\ Len(b) = Len(buf) - n
    BY CatSplit
<1>2. Len(buf) \in Nat /\ pr.received \in Seq(Nat)
    BY LenProperties DEF Peer
<1> HIDE DEF a, b
<1>3. Cat(Cat(pr.received, a), b) = Cat(pr.received, buf)
    BY <1>1, <1>2, CatAssociative
<1>4. Len(b) < OutputCap
    BY <1>1, <1>2, SizesAssumption
<1>5. Cat(pr.received, a) \in Seq(Nat)
    BY <1>1, <1>2, CatType
<1>6. c \in Client /\ p \in Peer
    BY <1>1, <1>5 DEF Client, Peer
<1>7. /\ c.active /\ c.input = cl.input /\ c.output = b
      /\ p.received = Cat(pr.received, a) /\ p.queued = q
      /\ p.handed = pr.handed /\ p.wire = pr.wire
      /\ p.inherited = pr.inherited /\ p.script = pr.script
    BY DEF Client, Peer
<1>8. SlotInv(c, p, rest)
  <2> HIDE DEF c, p
  <2> QED
    BY <1>3, <1>4, <1>6, <1>7 DEF SlotInv
<1> QED
    BY <1>8 DEF a, b, Unsent

LEMMA SendStep ==
    ASSUME IInv, NEW s \in Slot, NEW player \in BOOLEAN, Send(s, player),
           UNCHANGED <<task, arrivals>>
    PROVE  IInv'
<1> DEFINE cl == client[s]
           pr == peer[s]
           q == pr.queued
           message == [i \in 1 .. MessageLen |-> q + i]
           buf == Cat(cl.output, message)
<1>1. /\ cl \in Client /\ pr \in Peer /\ cl.active
      /\ cl.output \in Seq(Nat) /\ pr.received \in Seq(Nat) /\ q \in Nat
      /\ SlotInv(cl, pr, Rest(s))
    BY DEF IInv, SlotInv, Send, CanQueue, Client, Peer
<1>2. /\ message \in Seq(Nat) /\ Len(message) = MessageLen
      /\ Cat([i \in 1 .. q |-> i], message) = [i \in 1 .. q + MessageLen |-> i]
    BY <1>1, CountOn, SizesAssumption
<1> HIDE DEF message
<1>3. buf \in Seq(Nat) /\ Len(buf) = Len(cl.output) + MessageLen
    BY <1>1, <1>2, CatLen, CatType
<1>4. Cat(pr.received, buf) = [i \in 1 .. q + MessageLen |-> i]
  <2>1. Cat(pr.received, cl.output) = [i \in 1 .. q |-> i]
    BY <1>1 DEF SlotInv
  <2>2. Cat(Cat(pr.received, cl.output), message) = Cat(pr.received, buf)
    BY <1>1, <1>2, CatAssociative
  <2> QED
    BY <1>2, <2>1, <2>2
<1>5. Len(buf) < OutputCap
  <2>1. MessageLen + Len(cl.output) < OutputCap
    BY DEF Send, CanQueue, Fits
  <2>2. Len(cl.output) \in Nat
    BY <1>1, LenProperties
  <2> QED
    BY <1>3, <2>1, <2>2, SizesAssumption
<1>6. PICK n \in 0 .. Len(buf) :
        /\ client' = [client EXCEPT ![s].output = Unsent(buf, n), ![s].joined = player]
        /\ peer' = [peer EXCEPT ![s].received = Cat(@, SubSeq(buf, 1, n)),
                                ![s].queued = @ + MessageLen]
    BY DEF Send, Cat, message
<1> HIDE DEF buf
<1> DEFINE c == [cl EXCEPT !.output = Unsent(buf, n), !.joined = player]
           p == [pr EXCEPT !.received = Cat(@, SubSeq(buf, 1, n)), !.queued = q + MessageLen]
<1>7. client' = [client EXCEPT ![s] = c] /\ peer' = [peer EXCEPT ![s] = p]
    BY <1>6 DEF IInv
<1>8. SlotInv(c, p, Rest(s))
  <2>1. q + MessageLen \in Nat
    BY <1>1, SizesAssumption
  <2>2. /\ All(pr.handed, cl.input, Rest(s), pr.wire) = Cat(pr.inherited, pr.script)
        /\ EndsInNewline(pr.handed) /\ HoldsNoNewline(cl.input)
        /\ HoldsNoNewline(pr.inherited) /\ Len(cl.input) <= MaxLine
    BY <1>1 DEF SlotInv
  <2> HIDE DEF cl, pr
  <2> QED
    BY <1>1, <1>3, <1>4, <1>5, <2>1, <2>2, FlushInv
<1> HIDE DEF c, p
<1>9. TaskInv' /\ arrivals' \in Nat /\ \A t \in Slot : Rest(t)' = Rest(t)
    BY DEF IInv, TaskInv, Rest
<1> QED
    BY <1>7, <1>8, <1>9, OneSlot

LEMMA WritableStep ==
    ASSUME IInv, NEW s \in Slot, Writable(s)
    PROVE  IInv'
<1>1. UNCHANGED <<task, arrivals>> /\ client[s].active
    BY DEF Writable
<1>2. CASE Free(s)
    BY <1>1, <1>2, FreeStep
<1>3. CASE Flush(s)
  <2> DEFINE cl == client[s]
             pr == peer[s]
             buf == cl.output
  <2>1. /\ cl \in Client /\ pr \in Peer /\ cl.active
        /\ buf \in Seq(Nat) /\ pr.queued \in Nat /\ cl.joined \in BOOLEAN
        /\ SlotInv(cl, pr, Rest(s))
    BY <1>1 DEF IInv, SlotInv, Client, Peer
  <2>2. PICK n \in 1 .. Len(buf) :
          /\ client' = [client EXCEPT ![s].output = Unsent(buf, n)]
          /\ peer' = [peer EXCEPT ![s].received = Cat(@, SubSeq(buf, 1, n))]
    BY <1>3 DEF Flush, Cat
  <2> DEFINE c == [cl EXCEPT !.output = Unsent(buf, n), !.joined = cl.joined]
             p == [pr EXCEPT !.received = Cat(@, SubSeq(buf, 1, n)), !.queued = pr.queued]
  <2>3. client' = [client EXCEPT ![s] = c] /\ peer' = [peer EXCEPT ![s] = p]
    BY <2>1, <2>2 DEF IInv, Client, Peer
  <2>4. SlotInv(c, p, Rest(s))
    <3>1. /\ All(pr.handed, cl.input, Rest(s), pr.wire) = Cat(pr.inherited, pr.script)
          /\ EndsInNewline(pr.handed) /\ HoldsNoNewline(cl.input)
          /\ HoldsNoNewline(pr.inherited) /\ Len(cl.input) <= MaxLine
          /\ Len(buf) < OutputCap
          /\ Cat(pr.received, buf) = [i \in 1 .. pr.queued |-> i]
      BY <2>1 DEF SlotInv
    <3>2. n \in 0 .. Len(buf)
      BY <2>1, LenProperties
    <3> HIDE DEF cl, pr, buf
    <3> QED
      BY <2>1, <3>1, <3>2, FlushInv
  <2> HIDE DEF c, p
  <2>5. TaskInv' /\ arrivals' \in Nat /\ \A t \in Slot : Rest(t)' = Rest(t)
    BY <1>1 DEF IInv, TaskInv, Rest
  <2> QED
    BY <2>3, <2>4, <2>5, OneSlot
<1> QED
    BY <1>2, <1>3 DEF Writable

----------------------------------------------------------------------------
(* Handlers and the loop.                                                  *)

LEMMA AnnounceStep ==
    ASSUME IInv, NEW s \in Slot, Announce(s)
    PROVE  IInv'
<1>1. UNCHANGED <<task, arrivals>>
    BY DEF Announce
<1>2. CASE Send(s, TRUE)
    BY <1>1, <1>2, SendStep
<1>3. CASE SendFails(s)
    BY <1>1, <1>3, FreeStep DEF SendFails
<1> QED
    BY <1>2, <1>3 DEF Announce

LEMMA AnswerStep ==
    ASSUME IInv, NEW s \in Slot, task.slot = s, NEW player \in BOOLEAN, Answer(player)
    PROVE  IInv'
<1>1. CASE Send(s, player) /\ UNCHANGED task
    BY <1>1, SendStep DEF Answer
<1>2. CASE SendFails(s) /\ task' = Idle
    BY <1>2, FreeStep DEF Answer, SendFails
<1> QED
    BY <1>1, <1>2 DEF Answer, me

\* The slot of the chunk that is being worked through is freed.
LEMMA DropStep ==
    ASSUME IInv, NEW s \in Slot, task.slot = s, Free(s), task' = Idle,
           UNCHANGED arrivals
    PROVE  IInv'
    BY FreeStep

\* Steps that only move the task on, and leave the chunk as it is or drop it
\* when it is used up.
LEMMA TaskStep ==
    ASSUME IInv, UNCHANGED <<client, peer, arrivals>>, TaskInv',
           \/ task'.slot = task.slot /\ task'.rest = task.rest
           \/ task.rest = <<>> /\ task'.rest = <<>>
    PROVE  IInv'
<1>1. \A t \in Slot : Rest(t)' = Rest(t)
    BY DEF Rest
<1> QED
    BY <1>1 DEF IInv

LEMMA BeginHandlerStep ==
    ASSUME IInv, BeginHandler
    PROVE  IInv'
<1>1. /\ task.mode = "timers" /\ task \in Task /\ task.slot \in Slot
      /\ task' = [task EXCEPT !.mode = "handler", !.live = client[task.slot].active]
      /\ UNCHANGED <<client, peer, arrivals>>
    BY DEF BeginHandler, IInv, TaskInv, me
<1>2. client[task.slot].active \in BOOLEAN
    BY <1>1 DEF IInv, Client
<1>3. TaskInv' /\ task'.slot = task.slot /\ task'.rest = task.rest
    BY <1>1, <1>2 DEF TaskInv, Task
<1> QED
    BY <1>1, <1>3, TaskStep

LEMMA ReturnStep ==
    ASSUME IInv, Return
    PROVE  IInv'
<1>1. /\ task.mode = "handler" /\ task \in Task /\ task.slot \in Slot
      /\ task' = [task EXCEPT !.mode = "bytes"]
      /\ UNCHANGED <<client, peer, arrivals>>
    BY DEF Return, IInv, TaskInv
<1>2. TaskInv' /\ task'.slot = task.slot /\ task'.rest = task.rest
    BY <1>1 DEF TaskInv, Task
<1> QED
    BY <1>1, <1>2, TaskStep

LEMMA EndChunkStep ==
    ASSUME IInv, EndChunk
    PROVE  IInv'
<1>1. task.rest = <<>> /\ task' = Idle /\ UNCHANGED <<client, peer, arrivals>>
    BY DEF EndChunk
<1>2. TaskInv' /\ task'.rest = <<>>
    BY <1>1, IdleInv DEF Idle
<1> QED
    BY <1>1, <1>2, TaskStep

LEMMA ShutdownStep ==
    ASSUME IInv, Shutdown
    PROVE  IInv'
<1>1. /\ task = Idle /\ task' = [Idle EXCEPT !.mode = "shutdown"]
      /\ UNCHANGED <<client, peer, arrivals>>
    BY DEF Shutdown
<1>2. TaskInv' /\ task.rest = <<>> /\ task'.rest = <<>>
    BY <1>1, EmptySeq DEF IInv, TaskInv, Task, Idle
<1> QED
    BY <1>1, <1>2, TaskStep

----------------------------------------------------------------------------
(* The invariant holds.                                                    *)

LEMMA InitInv == Init => IInv
<1> SUFFICES ASSUME Init PROVE IInv
    OBVIOUS
<1>1. \A rest : SlotInv(FreeClient, NoPeer, rest)
    BY FreeInv
<1>2. FreeClient \in Client /\ NoPeer \in Peer
    BY <1>1 DEF SlotInv
<1>3. TaskInv
    BY EmptySeq DEF Init, Idle, TaskInv, Task
<1> QED
    BY <1>1, <1>2, <1>3 DEF Init, IInv

LEMMA NextInv == IInv /\ [Next]_vars => IInv'
<1> SUFFICES ASSUME IInv, [Next]_vars PROVE IInv'
    OBVIOUS
<1>1. task.mode \in {"bytes", "timers", "handler"} => task.slot \in Slot
    BY DEF IInv, TaskInv
<1>2. CASE DropByte
    BY <1>1, <1>2, DropStep DEF DropByte, me
<1>3. CASE StoreByte
    BY <1>1, <1>3, StoreStep DEF StoreByte
<1>4. CASE EndLine
    BY <1>1, <1>4, EndLineStep DEF EndLine
<1>5. CASE EndChunk
    BY <1>5, EndChunkStep
<1>6. CASE BeginHandler
    BY <1>6, BeginHandlerStep
<1>7. CASE Reply
  <2>1. client[task.slot].joined \in BOOLEAN
    BY <1>1, <1>7 DEF Reply, IInv, Client
  <2> QED
    BY <1>1, <1>7, <2>1, AnswerStep DEF Reply, me
<1>8. CASE Join
    BY <1>1, <1>8, AnswerStep DEF Join
<1>9. CASE ErrorAndClose
    BY <1>1, <1>9, DropStep DEF ErrorAndClose, me
<1>10. CASE Return
    BY <1>10, ReturnStep
<1>11. CASE Shutdown
    BY <1>11, ShutdownStep
<1>12. ASSUME NEW s \in Slot,
              HangUp(s) \/ PeerGone(s) \/ Writable(s) \/ Announce(s) \/ CloseNext(s)
       PROVE  IInv'
    BY <1>12, FreeStep, PeerGoneStep, WritableStep, AnnounceStep DEF HangUp, CloseNext
<1>13. ASSUME NEW s \in Slot, NEW kinds \in Scripts, Accept(s, kinds)
       PROVE  IInv'
    BY <1>13, AcceptStep
<1>14. ASSUME NEW s \in Slot, NEW n \in 1 .. ChunkSize, Recv(s, n)
       PROVE  IInv'
    BY <1>14, RecvStep
<1>15. CASE UNCHANGED vars
  <2>1. UNCHANGED <<client, peer, arrivals>> /\ UNCHANGED task
    BY <1>15 DEF vars
  <2>2. TaskInv'
    BY <2>1 DEF IInv, TaskInv
  <2> QED
    BY <2>1, <2>2, TaskStep
<1> QED
    BY <1>2, <1>3, <1>4, <1>5, <1>6, <1>7, <1>8, <1>9, <1>10, <1>11, <1>12,
       <1>13, <1>14, <1>15 DEF Next, Step

THEOREM Invariance == Spec => []IInv
    BY InitInv, NextInv, PTL DEF Spec

\* Every connection's record, and the server's task, are always of their
\* types, and a slot without a client holds nothing for one: a removal
\* (server.c:425-472) leaves no output behind.
THEOREM TypeCorrect == Spec => []TypeOK
<1>1. IInv => TypeOK
    BY DEF IInv, TypeOK, SlotInv, TaskInv
<1> QED
    BY <1>1, Invariance, PTL

\* Whatever handlers send and free, a connection's lines, its buffer, the
\* rest of its chunk and its wire make up what the slot held when it came and
\* what the peer sent (server.c:528-584).
THEOREM NothingLost == Spec => []StreamAccounted
<1>1. IInv => StreamAccounted
    BY DEF IInv, SlotInv, StreamAccounted, StreamOf, All, Cat
<1> QED
    BY <1>1, Invariance, PTL

\* A handler is only ever given whole lines (server.c:569-583).
THEOREM WholeLines == Spec => []LinesWhole
<1>1. IInv => LinesWhole
    BY DEF IInv, SlotInv, LinesWhole, EndsInNewline
<1> QED
    BY <1>1, Invariance, PTL

\* Partial sends neither lose nor repeat nor reorder a byte (server.c:1464-1516).
THEOREM OutputInOrder == Spec => []OutputWhole
<1>1. IInv => OutputWhole
    BY DEF IInv, SlotInv, OutputWhole, Cat
<1> QED
    BY <1>1, Invariance, PTL

\* Neither buffer is written past its end (server.c:562, 1474).
THEOREM BuffersSafe == Spec => []BuffersFit
<1>1. IInv => BuffersFit
    BY DEF IInv, SlotInv, BuffersFit
<1> QED
    BY <1>1, Invariance, PTL
============================================================================
