---------------------------- MODULE CollabProofs ----------------------------
(***************************************************************************)
(* What holds of CollabEditing for every number of users and edits, every  *)
(* text and every history limit, whatever is closed, shared or lost: the   *)
(* controllers' states (ControllerStates), the one operation in flight     *)
(* (OneInFlight), the unbroken stream of revisions (NoGaps) and the        *)
(* refinement of SharedLog.                                                *)
(*                                                                         *)
(* What transform and apply compute plays no role in these arguments, so   *)
(* operations, entries and texts are left untyped.  The invariant says of  *)
(* each user's inbox that the numbered messages in it are the revisions    *)
(* after the client's own, without a gap, and up to the server's as long   *)
(* as the user is connected; the operation a client has sent is in one     *)
(* place, a task, a command or an acknowledgement; and a user whose window *)
(* is open and whose connection is up is on the session's list.            *)
(***************************************************************************)
EXTENDS CollabEditing, SequenceFacts, FiniteSetTheorems

-----------------------------------------------------------------------------
(* The stream of numbered messages *)

\* The numbered messages of s are the revisions from lo + 1, in order and
\* without a gap, none above hi.
Stream(s, lo, hi) ==
    /\ \A i \in Numbered(s) : s[i].revision \in lo + 1 .. hi
    /\ \A i, j \in Numbered(s) : i < j => s[i].revision < s[j].revision
    /\ \A i \in Numbered(s) : \A r \in lo + 1 .. s[i].revision :
          \E j \in Numbered(s) : s[j].revision = r

\* They reach up to hi.
Full(s, lo, hi) == \A r \in lo + 1 .. hi : \E j \in Numbered(s) : s[j].revision = r

LEMMA StreamEmpty ==
    ASSUME NEW lo \in Nat, NEW hi \in Nat
    PROVE  Stream(<< >>, lo, hi)
  BY EmptyShape DEF Stream, Numbered

\* The client is behind by at most what the stream brings it.
LEMMA StreamHigher ==
    ASSUME NEW s, NEW lo \in Nat, NEW hi \in Nat, Stream(s, lo, hi)
    PROVE  Stream(s, lo, hi + 1)
  BY DEF Stream

\* A message without a number leaves the stream as it is.
LEMMA StreamAppendPlain ==
    ASSUME NEW s, IsSeq(s), NEW lo \in Nat, NEW hi \in Nat, Stream(s, lo, hi),
           NEW m, m.type \notin {"ack", "broadcast"}
    PROVE  /\ Stream(Append(s, m), lo, hi)
           /\ Full(s, lo, hi) => Full(Append(s, m), lo, hi)
<1> DEFINE e == Append(s, m)
<1>1. /\ Len(s) \in Nat /\ Len(e) = Len(s) + 1 /\ e[Len(s) + 1] = m
      /\ \A i \in 1 .. Len(s) : e[i] = s[i]
  BY AppendShape
<1> HIDE DEF e
<1>2. Numbered(e) = Numbered(s) /\ \A i \in Numbered(s) : e[i] = s[i]
  BY <1>1 DEF Numbered
<1>3. Stream(e, lo, hi)
  BY <1>2 DEF Stream
<1>4. Full(s, lo, hi) => Full(e, lo, hi)
  BY <1>2 DEF Full
<1> QED
  BY <1>3, <1>4 DEF e

\* A commit extends a stream that is full.
LEMMA StreamAppendNumbered ==
    ASSUME NEW s, IsSeq(s), NEW lo \in Nat, NEW hi \in Nat, lo <= hi,
           Stream(s, lo, hi), Full(s, lo, hi),
           NEW m, m.type \in {"ack", "broadcast"}, m.revision = hi + 1
    PROVE  Stream(Append(s, m), lo, hi + 1) /\ Full(Append(s, m), lo, hi + 1)
<1> DEFINE e == Append(s, m)
           n == Len(s) + 1
<1>1. /\ Len(s) \in Nat /\ Len(e) = n /\ e[n] = m /\ n \in Nat
      /\ \A i \in 1 .. Len(s) : e[i] = s[i] /\ i < n
  BY AppendShape
<1> HIDE DEF e
<1>2. /\ Numbered(e) = Numbered(s) \cup {n}
      /\ \A i \in Numbered(s) : e[i] = s[i] /\ i < n /\ i \in Nat
      /\ e[n].revision = hi + 1
  BY <1>1 DEF Numbered
<1> HIDE DEF n
<1>3. Full(e, lo, hi + 1)
  <2> SUFFICES ASSUME NEW r \in lo + 1 .. hi + 1
               PROVE  \E j \in Numbered(e) : e[j].revision = r
    BY DEF Full
  <2>1. CASE r = hi + 1
    BY <1>2, <2>1
  <2>2. CASE r \in lo + 1 .. hi
    BY <1>2, <2>2 DEF Full
  <2> QED
    BY <2>1, <2>2
<1>4. \A i \in Numbered(e) : e[i].revision \in lo + 1 .. hi + 1
  BY <1>2 DEF Stream
<1>5. \A i, j \in Numbered(e) : i < j => e[i].revision < e[j].revision
  <2> SUFFICES ASSUME NEW i \in Numbered(e), NEW j \in Numbered(e), i < j
               PROVE  e[i].revision < e[j].revision
    OBVIOUS
  <2>1. CASE j = n
    BY <1>1, <1>2, <2>1 DEF Stream
  <2>2. CASE j # n
    BY <1>1, <1>2, <2>2 DEF Stream
  <2> QED
    BY <2>1, <2>2
<1>6. \A i \in Numbered(e) : \A r \in lo + 1 .. e[i].revision :
          \E j \in Numbered(e) : e[j].revision = r
  BY <1>3, <1>4 DEF Full
<1> QED
  BY <1>3, <1>4, <1>5, <1>6 DEF Stream, e

\* The first message, when it has no number, is taken and the stream stays.
LEMMA StreamTailPlain ==
    ASSUME NEW s, IsSeq(s), s # << >>, NEW lo \in Nat, NEW hi \in Nat,
           Stream(s, lo, hi), Head(s).type \notin {"ack", "broadcast"}
    PROVE  /\ Stream(Tail(s), lo, hi)
           /\ Full(s, lo, hi) => Full(Tail(s), lo, hi)
<1> DEFINE e == Tail(s)
<1>1. /\ Len(s) \in Nat /\ Len(s) > 0 /\ Len(e) = Len(s) - 1 /\ Head(s) = s[1]
      /\ \A i \in 1 .. Len(s) - 1 : e[i] = s[i + 1]
  BY TailShape
<1> HIDE DEF e
<1>2. \A i \in Numbered(e) : i + 1 \in Numbered(s) /\ e[i] = s[i + 1] /\ i \in Nat
  BY <1>1 DEF Numbered
<1>3. \A j \in Numbered(s) : j - 1 \in Numbered(e) /\ e[j - 1] = s[j]
  <2> SUFFICES ASSUME NEW j \in Numbered(s)
               PROVE  j - 1 \in Numbered(e) /\ e[j - 1] = s[j]
    OBVIOUS
  <2>1. j \in 1 .. Len(s) /\ j # 1 /\ s[j].type \in {"ack", "broadcast"}
    BY <1>1 DEF Numbered
  <2>2. j - 1 \in 1 .. Len(s) - 1 /\ (j - 1) + 1 = j
    BY <1>1, <2>1
  <2> QED
    BY <1>1, <2>1, <2>2 DEF Numbered
<1>4. \A r : (\E j \in Numbered(s) : s[j].revision = r) => \E j \in Numbered(e) : e[j].revision = r
  BY <1>3
<1>5. Stream(e, lo, hi)
  <2>1. \A i \in Numbered(e) : e[i].revision \in lo + 1 .. hi
    BY <1>2 DEF Stream
  <2>2. \A i, j \in Numbered(e) : i < j => e[i].revision < e[j].revision
    <3> SUFFICES ASSUME NEW i \in Numbered(e), NEW j \in Numbered(e), i < j
                 PROVE  e[i].revision < e[j].revision
      OBVIOUS
    <3>1. i + 1 < j + 1 /\ i + 1 \in Numbered(s) /\ j + 1 \in Numbered(s)
      BY <1>2
    <3> QED
      BY <1>2, <3>1 DEF Stream
  <2>3. ASSUME NEW i \in Numbered(e), NEW r \in lo + 1 .. e[i].revision
        PROVE  \E j \in Numbered(e) : e[j].revision = r
    <3>1. i + 1 \in Numbered(s) /\ r \in lo + 1 .. s[i + 1].revision
      BY <1>2, <2>3
    <3>2. \E j \in Numbered(s) : s[j].revision = r
      BY <3>1 DEF Stream
    <3> QED
      BY <1>4, <3>2
  <2> QED
    BY <2>1, <2>2, <2>3 DEF Stream
<1>6. Full(s, lo, hi) => Full(e, lo, hi)
  BY <1>4 DEF Full
<1> QED
  BY <1>5, <1>6 DEF e

\* The first numbered message is the revision the client lacks.
LEMMA StreamTailNumbered ==
    ASSUME NEW s, IsSeq(s), s # << >>, NEW lo \in Nat, NEW hi \in Nat,
           Stream(s, lo, hi), Head(s).type \in {"ack", "broadcast"}
    PROVE  /\ Head(s).revision = lo + 1 /\ lo + 1 <= hi
           /\ Stream(Tail(s), lo + 1, hi)
           /\ Full(s, lo, hi) => Full(Tail(s), lo + 1, hi)
<1> DEFINE e == Tail(s)
<1>1. /\ Len(s) \in Nat /\ Len(s) > 0 /\ Len(e) = Len(s) - 1 /\ Head(s) = s[1]
      /\ \A i \in 1 .. Len(s) - 1 : e[i] = s[i + 1]
  BY TailShape
<1> HIDE DEF e
<1>2. 1 \in Numbered(s) /\ \A j \in Numbered(s) : j \in Nat /\ (j = 1 \/ 1 < j)
  BY <1>1 DEF Numbered
<1>3. s[1].revision = lo + 1 /\ lo + 1 <= hi
  <2>1. s[1].revision \in lo + 1 .. hi /\ lo + 1 \in lo + 1 .. s[1].revision
    BY <1>2 DEF Stream
  <2>2. PICK j \in Numbered(s) : s[j].revision = lo + 1
    BY <1>2, <2>1 DEF Stream
  <2>3. j # 1 => s[1].revision < s[j].revision
    BY <1>2 DEF Stream
  <2> QED
    BY <2>1, <2>2, <2>3
<1>4. \A i \in Numbered(e) : /\ i + 1 \in Numbered(s) /\ e[i] = s[i + 1]
                             /\ i \in Nat /\ 1 < i + 1
  BY <1>1 DEF Numbered
<1>5. \A j \in Numbered(s) : j # 1 => j - 1 \in Numbered(e) /\ e[j - 1] = s[j]
  <2> SUFFICES ASSUME NEW j \in Numbered(s), j # 1
               PROVE  j - 1 \in Numbered(e) /\ e[j - 1] = s[j]
    OBVIOUS
  <2>1. j \in 1 .. Len(s) /\ s[j].type \in {"ack", "broadcast"}
    BY <1>1 DEF Numbered
  <2>2. j - 1 \in 1 .. Len(s) - 1 /\ (j - 1) + 1 = j
    BY <1>1, <2>1
  <2> QED
    BY <1>1, <2>1, <2>2 DEF Numbered
<1>6. \A r \in lo + 2 .. hi : (\E j \in Numbered(s) : s[j].revision = r)
                                 => \E j \in Numbered(e) : e[j].revision = r
  BY <1>3, <1>5
<1>7. Stream(e, lo + 1, hi)
  <2>1. \A i \in Numbered(e) : e[i].revision \in (lo + 1) + 1 .. hi
    <3> SUFFICES ASSUME NEW i \in Numbered(e) PROVE e[i].revision \in (lo + 1) + 1 .. hi
      OBVIOUS
    <3>1. s[1].revision < s[i + 1].revision /\ s[i + 1].revision \in lo + 1 .. hi
      BY <1>2, <1>4 DEF Stream
    <3> QED
      BY <1>3, <1>4, <3>1
  <2>2. \A i, j \in Numbered(e) : i < j => e[i].revision < e[j].revision
    <3> SUFFICES ASSUME NEW i \in Numbered(e), NEW j \in Numbered(e), i < j
                 PROVE  e[i].revision < e[j].revision
      OBVIOUS
    <3>1. i + 1 < j + 1 /\ i + 1 \in Numbered(s) /\ j + 1 \in Numbered(s)
      BY <1>4
    <3> QED
      BY <1>4, <3>1 DEF Stream
  <2>3. ASSUME NEW i \in Numbered(e), NEW r \in (lo + 1) + 1 .. e[i].revision
        PROVE  \E j \in Numbered(e) : e[j].revision = r
    <3>1. i + 1 \in Numbered(s) /\ e[i] = s[i + 1] /\ e[i].revision \in (lo + 1) + 1 .. hi
      BY <1>4, <2>1
    <3>2. r \in lo + 1 .. s[i + 1].revision /\ r \in lo + 2 .. hi
      BY <3>1
    <3>3. \E j \in Numbered(s) : s[j].revision = r
      BY <3>1, <3>2 DEF Stream
    <3> QED
      BY <1>6, <3>2, <3>3
  <2> QED
    BY <2>1, <2>2, <2>3 DEF Stream
<1>8. Full(s, lo, hi) => Full(e, lo + 1, hi)
  <2>1. \A r \in (lo + 1) + 1 .. hi : r \in lo + 1 .. hi /\ r \in lo + 2 .. hi
    OBVIOUS
  <2> QED
    BY <1>6, <2>1 DEF Full
<1> QED
  BY <1>1, <1>3, <1>7, <1>8 DEF e

\* What is lost with a connection is lost from the end.
LEMMA StreamPrefix ==
    ASSUME NEW s, IsSeq(s), NEW k \in 0 .. Len(s), NEW lo \in Nat, NEW hi \in Nat,
           Stream(s, lo, hi)
    PROVE  Stream(SubSeq(s, 1, k), lo, hi)
<1> DEFINE e == SubSeq(s, 1, k)
<1>1. Len(s) \in Nat /\ Len(e) = k /\ \A i \in 1 .. k : e[i] = s[i]
  BY PrefixShape
<1> HIDE DEF e
<1>2. Numbered(e) \subseteq Numbered(s) /\ \A i \in Numbered(e) : e[i] = s[i]
  BY <1>1 DEF Numbered
<1>3. \A i \in Numbered(e), j \in Numbered(s) : ~ (i < j) => j \in Numbered(e)
  BY <1>1 DEF Numbered
<1>4. ASSUME NEW i \in Numbered(e), NEW r \in lo + 1 .. e[i].revision
      PROVE  \E j \in Numbered(e) : e[j].revision = r
  <2>1. PICK j \in Numbered(s) : s[j].revision = r
    BY <1>2 DEF Stream
  <2>2. ~ (i < j)
    <3>1. i < j => s[i].revision < s[j].revision
      BY <1>2 DEF Stream
    <3>2. s[i].revision \in lo + 1 .. hi /\ r <= s[i].revision
      BY <1>2 DEF Stream
    <3> QED
      BY <2>1, <3>1, <3>2
  <2> QED
    BY <1>2, <1>3, <2>1, <2>2
<1>5. Stream(e, lo, hi)
  BY <1>2, <1>4 DEF Stream
<1> QED
  BY <1>5 DEF e

-----------------------------------------------------------------------------
(* The operation in flight *)

AtMostOne(S) == \A x, y \in S : x = y

\* S has at most one element, and none if R had none.
NoMore(S, R) == AtMostOne(S) /\ (R = {} => S = {})

Acks(s) == {i \in 1 .. Len(s) : s[i].type = "ack"}
OpsOf(s, u) == {i \in 1 .. Len(s) : s[i].type = "operation" /\ s[i].userId = u}
OpTasks(u) == {t \in pool : t.userId = u /\ t.type = "operation"}

LEMMA AcksAppend ==
    ASSUME NEW s, IsSeq(s), NEW m
    PROVE  /\ m.type # "ack" => Acks(Append(s, m)) = Acks(s)
           /\ Acks(s) = {} => AtMostOne(Acks(Append(s, m)))
<1> DEFINE e == Append(s, m)
<1>1. /\ Len(s) \in Nat /\ Len(e) = Len(s) + 1 /\ e[Len(s) + 1] = m
      /\ \A i \in 1 .. Len(s) : e[i] = s[i]
  BY AppendShape
<1> HIDE DEF e
<1>2. m.type # "ack" => Acks(e) = Acks(s)
  BY <1>1 DEF Acks
<1>3. \A i \in Acks(e) : i \in Acks(s) \/ i = Len(s) + 1
  BY <1>1 DEF Acks
<1> QED
  BY <1>2, <1>3 DEF AtMostOne, e

LEMMA AcksTail ==
    ASSUME NEW s, IsSeq(s), s # << >>, AtMostOne(Acks(s))
    PROVE  /\ NoMore(Acks(Tail(s)), Acks(s))
           /\ Head(s).type = "ack" => Acks(Tail(s)) = {}
<1> DEFINE e == Tail(s)
<1>1. /\ Len(s) \in Nat /\ Len(s) > 0 /\ Len(e) = Len(s) - 1 /\ Head(s) = s[1]
      /\ \A i \in 1 .. Len(s) - 1 : e[i] = s[i + 1]
  BY TailShape
<1> HIDE DEF e
<1>2. \A i \in Acks(e) : i + 1 \in Acks(s) /\ i \in Nat /\ i + 1 # 1
  BY <1>1 DEF Acks
<1>3. Head(s).type = "ack" => 1 \in Acks(s)
  BY <1>1 DEF Acks
<1>4. \A i, j \in Acks(e) : i = j
  <2> SUFFICES ASSUME NEW i \in Acks(e), NEW j \in Acks(e) PROVE i = j
    OBVIOUS
  <2>1. i + 1 = j + 1 /\ i \in Nat /\ j \in Nat
    BY <1>2 DEF AtMostOne
  <2> QED
    BY <2>1
<1> QED
  BY <1>2, <1>3, <1>4 DEF AtMostOne, NoMore, e

LEMMA AcksPrefix ==
    ASSUME NEW s, IsSeq(s), NEW k \in 0 .. Len(s), AtMostOne(Acks(s))
    PROVE  NoMore(Acks(SubSeq(s, 1, k)), Acks(s))
<1> DEFINE e == SubSeq(s, 1, k)
<1>1. Len(s) \in Nat /\ Len(e) = k /\ \A i \in 1 .. k : e[i] = s[i]
  BY PrefixShape
<1> HIDE DEF e
<1>2. Acks(e) \subseteq Acks(s)
  BY <1>1 DEF Acks
<1> QED
  BY <1>2 DEF AtMostOne, NoMore, e

LEMMA OpsAppend ==
    ASSUME NEW s, IsSeq(s), NEW c, NEW u
    PROVE  /\ c.type # "operation" \/ c.userId # u => OpsOf(Append(s, c), u) = OpsOf(s, u)
           /\ OpsOf(s, u) = {} => AtMostOne(OpsOf(Append(s, c), u))
<1> DEFINE e == Append(s, c)
<1>1. /\ Len(s) \in Nat /\ Len(e) = Len(s) + 1 /\ e[Len(s) + 1] = c
      /\ \A i \in 1 .. Len(s) : e[i] = s[i]
  BY AppendShape
<1> HIDE DEF e
<1>2. c.type # "operation" \/ c.userId # u => OpsOf(e, u) = OpsOf(s, u)
  BY <1>1 DEF OpsOf
<1>3. \A i \in OpsOf(e, u) : i \in OpsOf(s, u) \/ i = Len(s) + 1
  BY <1>1 DEF OpsOf
<1> QED
  BY <1>2, <1>3 DEF AtMostOne, e

LEMMA OpsTail ==
    ASSUME NEW s, IsSeq(s), s # << >>, NEW u, AtMostOne(OpsOf(s, u))
    PROVE  /\ NoMore(OpsOf(Tail(s), u), OpsOf(s, u))
           /\ Head(s).type = "operation" /\ Head(s).userId = u =>
                 OpsOf(s, u) # {} /\ OpsOf(Tail(s), u) = {}
<1> DEFINE e == Tail(s)
<1>1. /\ Len(s) \in Nat /\ Len(s) > 0 /\ Len(e) = Len(s) - 1 /\ Head(s) = s[1]
      /\ \A i \in 1 .. Len(s) - 1 : e[i] = s[i + 1]
  BY TailShape
<1> HIDE DEF e
<1>2. \A i \in OpsOf(e, u) : i + 1 \in OpsOf(s, u) /\ i \in Nat /\ i + 1 # 1
  BY <1>1 DEF OpsOf
<1>3. Head(s).type = "operation" /\ Head(s).userId = u => 1 \in OpsOf(s, u)
  BY <1>1 DEF OpsOf
<1>4. \A i, j \in OpsOf(e, u) : i = j
  <2> SUFFICES ASSUME NEW i \in OpsOf(e, u), NEW j \in OpsOf(e, u) PROVE i = j
    OBVIOUS
  <2>1. i + 1 = j + 1 /\ i \in Nat /\ j \in Nat
    BY <1>2 DEF AtMostOne
  <2> QED
    BY <2>1
<1> QED
  BY <1>2, <1>3, <1>4 DEF AtMostOne, NoMore, e

-----------------------------------------------------------------------------
(* The inductive invariant *)

IsTask(t) == /\ {"userId", "type", "step"} \subseteq DOMAIN t
             /\ t.userId \in Users /\ t.type \in {"operation", "leave"}

Shape ==
    /\ open \in [Users -> BOOLEAN] /\ linked \in [Users -> BOOLEAN]
    /\ disconnected \in [Users -> BOOLEAN]
    /\ state \in [Users -> {"SYN", "ACK", "BUF"}] /\ rev \in [Users -> Nat]
    /\ DOMAIN pending = Users /\ DOMAIN buffer = Users /\ DOMAIN inbox = Users
    /\ \A u \in Users : IsSeq(pending[u]) /\ IsSeq(buffer[u]) /\ IsSeq(inbox[u])
    /\ \A t \in pool : IsTask(t)
    /\ IsSeq(commands)
    /\ revision \in Nat
    /\ IsSeq(versions) /\ Len(versions) = revision + 1

\* What a user has sent and not got back is in one place, and nowhere when
\* nothing is pending.
Flight(u) ==
    /\ AtMostOne(OpTasks(u)) /\ AtMostOne(OpsOf(commands, u)) /\ AtMostOne(Acks(inbox[u]))
    /\ OpTasks(u) # {} => OpsOf(commands, u) = {} /\ Acks(inbox[u]) = {}
    /\ OpsOf(commands, u) # {} => Acks(inbox[u]) = {}
    /\ pending[u] = << >> =>
          OpTasks(u) = {} /\ OpsOf(commands, u) = {} /\ Acks(inbox[u]) = {}

\* A user is struck off the list only after the window or the connection.
Leaving(u) ==
    /\ Reaches(u) => u \in connected_users
    /\ \A t \in pool : t.userId = u /\ t.type = "leave" => ~ open[u]
    /\ \A i \in 1 .. Len(commands) :
          commands[i].type = "leave" /\ commands[i].userId = u => ~ open[u] \/ disconnected[u]

Streaming(u) ==
    /\ rev[u] <= revision
    /\ Stream(inbox[u], rev[u], revision)
    /\ Reaches(u) => Full(inbox[u], rev[u], revision)

CollabInv ==
    /\ Shape /\ ControllerStates
    /\ \A u \in Users : Flight(u) /\ Leaving(u) /\ Streaming(u)

LEMMA InitCollab == Init => CollabInv
<1> SUFFICES ASSUME Init PROVE CollabInv
  OBVIOUS
<1>1. /\ revision = 0 /\ versions = <<InitialText>> /\ commands = << >> /\ pool = {}
      /\ connected_users = Users
      /\ \A u \in Users : /\ pending[u] = << >> /\ buffer[u] = << >> /\ inbox[u] = << >>
                          /\ state[u] = "SYN" /\ rev[u] = 0
  BY DEF Init, DocInit
<1>2. IsSeq(<< >>) /\ Len(<< >>) = 0
  BY EmptyShape
<1>3. versions \in Seq({InitialText}) /\ Len(versions) = 1
  BY <1>1
<1>4. Shape
  <2>1. IsSeq(versions)
    BY <1>3 DEF IsSeq
  <2> QED
    BY <1>1, <1>2, <1>3, <2>1 DEF Init, Shape
<1>5. ControllerStates
  BY <1>1, <1>2 DEF ControllerStates
<1>6. ASSUME NEW u \in Users PROVE Flight(u) /\ Leaving(u) /\ Streaming(u)
  <2>1. OpTasks(u) = {} /\ OpsOf(commands, u) = {} /\ Acks(inbox[u]) = {}
    BY <1>1, <1>2 DEF OpTasks, OpsOf, Acks
  <2>2. Flight(u)
    BY <2>1 DEF Flight, AtMostOne
  <2>3. Leaving(u)
    BY <1>1, <1>2 DEF Leaving
  <2>4. Stream(<< >>, 0, 0) /\ Full(<< >>, 0, 0)
    BY StreamEmpty DEF Full
  <2>5. Streaming(u)
    BY <1>1, <2>4 DEF Streaming
  <2> QED
    BY <2>2, <2>3, <2>5
<1> QED
  BY <1>4, <1>5, <1>6 DEF CollabInv

\* The operation in flight only gets less or stays where it is.
LEMMA FlightKept ==
    ASSUME NEW u \in Users, Flight(u),
           NoMore(OpTasks(u)', OpTasks(u)),
           NoMore(OpsOf(commands', u), OpsOf(commands, u)),
           NoMore(Acks(inbox'[u]), Acks(inbox[u])),
           pending'[u] = << >> => pending[u] = << >>
    PROVE  Flight(u)'
  BY DEF Flight, NoMore, OpTasks, OpsOf, Acks, AtMostOne

\* A step that sends u no operation task leaves at most the one there was.
LEMMA TasksKept ==
    ASSUME NEW u \in Users, Flight(u),
           \A t \in pool' : t \in pool \/ t.type # "operation" \/ t.userId # u
    PROVE  NoMore(OpTasks(u)', OpTasks(u))
<1>1. OpTasks(u)' \subseteq OpTasks(u)
  BY DEF OpTasks
<1> QED
  BY <1>1 DEF NoMore, AtMostOne, Flight

\* The step sends u no message, or one without a number.
SendsPlain(u) ==
    \/ inbox'[u] = inbox[u]
    \/ \E m : inbox'[u] = Append(inbox[u], m) /\ m.type \notin {"ack", "broadcast"}

\* A message without a number may be sent to anyone at any time.
LEMMA PlainSend ==
    ASSUME CollabInv, NEW u \in Users, rev'[u] = rev[u], revision' = revision,
           Reaches(u)' => Reaches(u),
           SendsPlain(u)
    PROVE  IsSeq(inbox'[u]) /\ Streaming(u)' /\ NoMore(Acks(inbox'[u]), Acks(inbox[u]))
<1>1. /\ IsSeq(inbox[u]) /\ rev[u] \in Nat /\ revision \in Nat /\ rev[u] <= revision
      /\ Stream(inbox[u], rev[u], revision)
      /\ Reaches(u) => Full(inbox[u], rev[u], revision)
      /\ AtMostOne(Acks(inbox[u]))
  BY DEF CollabInv, Shape, Streaming, Flight
<1>2. CASE inbox'[u] = inbox[u]
  <2>1. Streaming(u)'
    BY <1>1, <1>2 DEF Streaming
  <2> QED
    BY <1>1, <1>2, <2>1 DEF NoMore
<1>3. ASSUME NEW m, inbox'[u] = Append(inbox[u], m), m.type \notin {"ack", "broadcast"}
      PROVE  IsSeq(inbox'[u]) /\ Streaming(u)' /\ NoMore(Acks(inbox'[u]), Acks(inbox[u]))
  <2>1. IsSeq(inbox'[u])
    BY <1>1, <1>3, AppendShape
  <2>2. /\ Stream(inbox'[u], rev[u], revision)
        /\ Reaches(u) => Full(inbox'[u], rev[u], revision)
    BY <1>1, <1>3, StreamAppendPlain
  <2>3. Acks(inbox'[u]) = Acks(inbox[u])
    BY <1>1, <1>3, AcksAppend
  <2>4. Streaming(u)'
    BY <1>1, <2>2 DEF Streaming
  <2> QED
    BY <1>1, <2>1, <2>3, <2>4 DEF NoMore
<1> QED
  BY <1>2, <1>3 DEF SendsPlain

\* The messages SendTo sends are appended or dropped.
LEMMA SendToPlain ==
    ASSUME CollabInv, NEW msgs, SendTo(msgs),
           \A u \in DOMAIN msgs : msgs[u].type \notin {"ack", "broadcast"}
    PROVE  /\ DOMAIN inbox' = Users
           /\ \A u \in Users : SendsPlain(u)
<1>1. inbox' = [u \in Users |-> IF u \in DOMAIN msgs THEN Delivered(u, msgs[u]) ELSE inbox[u]]
  BY DEF SendTo
<1>2. ASSUME NEW u \in Users
      PROVE  SendsPlain(u)
  <2>1. CASE u \in DOMAIN msgs /\ Reaches(u)
    <3>1. inbox'[u] = Append(inbox[u], msgs[u]) /\ msgs[u].type \notin {"ack", "broadcast"}
      BY <1>1, <2>1 DEF Delivered
    <3> QED
      BY <3>1 DEF SendsPlain
  <2>2. CASE ~ (u \in DOMAIN msgs /\ Reaches(u))
    BY <1>1, <2>2 DEF Delivered, SendsPlain
  <2> QED
    BY <2>1, <2>2
<1> QED
  BY <1>1, <1>2

\* Nothing in flight moves, and messages without a number may be sent.
LEMMA ServerStepKept ==
    ASSUME CollabInv,
           UNCHANGED <<state, rev, pending, buffer, open, linked, disconnected,
                       revision, versions>>,
           DOMAIN inbox' = Users,
           \A u \in Users : SendsPlain(u),
           \A t \in pool' : IsTask(t), IsSeq(commands'),
           \A u \in Users : NoMore(OpTasks(u)', OpTasks(u)) /\ Leaving(u)'
                            /\ NoMore(OpsOf(commands', u), OpsOf(commands, u))
    PROVE  CollabInv'
<1>1. ASSUME NEW u \in Users
      PROVE  IsSeq(inbox'[u]) /\ Streaming(u)' /\ NoMore(Acks(inbox'[u]), Acks(inbox[u]))
  <2>1. Reaches(u)' => Reaches(u)
    BY DEF Reaches
  <2> QED
    BY <2>1, PlainSend
<1>2. Shape'
  BY <1>1 DEF CollabInv, Shape, IsTask
<1>3. ControllerStates'
  BY DEF CollabInv, ControllerStates
<1>4. ASSUME NEW u \in Users PROVE Flight(u)'
  BY <1>1, FlightKept DEF CollabInv
<1> QED
  BY <1>1, <1>2, <1>3, <1>4 DEF CollabInv

-----------------------------------------------------------------------------
(* The server's thread pool and the sharing of the document *)

LEMMA HandleOperationKept ==
    ASSUME CollabInv, NEW task \in pool, handle_operation(task),
           UNCHANGED <<docVars, clientVars, linkVars, role, notices, sessionVars, boundVars>>
    PROVE  CollabInv'
<1> USE DEF docVars, clientVars, linkVars, sessionVars
<1>1. IsTask(task) /\ task.type = "operation"
  BY DEF CollabInv, Shape, handle_operation
<1>2. CASE pool' = Advanced(task, "admitted") /\ UNCHANGED <<inbox, commands>>
  <2> DEFINE n == [task EXCEPT !.step = "admitted"]
  <2>1. IsTask(n) /\ n.type = "operation" /\ n.userId = task.userId
    BY <1>1 DEF IsTask
  <2> HIDE DEF n
  <2>2. pool' = (pool \ {task}) \cup {n}
    BY <1>2 DEF Advanced, n
  <2>3. ASSUME NEW u \in Users PROVE NoMore(OpTasks(u)', OpTasks(u))
    <3>1. AtMostOne(OpTasks(u))
      BY DEF CollabInv, Flight
    <3>2. CASE u = task.userId
      <4>1. OpTasks(u)' = {n} /\ OpTasks(u) # {}
        BY <1>1, <2>1, <2>2, <3>1, <3>2 DEF OpTasks, AtMostOne
      <4> QED
        BY <4>1 DEF NoMore, AtMostOne
    <3>3. CASE u # task.userId
      <4>1. OpTasks(u)' = OpTasks(u)
        BY <2>1, <2>2, <3>3 DEF OpTasks
      <4> QED
        BY <3>1, <4>1 DEF NoMore
    <3> QED
      BY <3>2, <3>3
  <2>4. ASSUME NEW u \in Users
        PROVE  Leaving(u)' /\ NoMore(OpsOf(commands', u), OpsOf(commands, u))
    <3>1. \A t \in pool' : t.type = "leave" => t \in pool
      BY <2>1, <2>2
    <3>2. Leaving(u)'
      BY <1>2, <3>1 DEF CollabInv, Leaving, Reaches
    <3>3. AtMostOne(OpsOf(commands, u))
      BY DEF CollabInv, Flight
    <3> QED
      BY <1>2, <3>2, <3>3 DEF NoMore
  <2>5. \A t \in pool' : IsTask(t)
    BY <2>1, <2>2 DEF CollabInv, Shape
  <2>6. DOMAIN inbox' = Users /\ IsSeq(commands')
    BY <1>2 DEF CollabInv, Shape
  <2> QED
    BY <1>2, <2>3, <2>4, <2>5, <2>6, ServerStepKept DEF SendsPlain
<1>3. ASSUME NEW code, Refused(task, code) PROVE CollabInv'
  <2> DEFINE msgs == [u \in {task.userId} |-> Error(code)]
  <2>1. pool' \subseteq pool /\ commands' = commands /\ SendTo(msgs)
    BY <1>3 DEF Refused
  <2>2. \A u \in DOMAIN msgs : msgs[u].type \notin {"ack", "broadcast"}
    BY DEF Error
  <2> HIDE DEF msgs
  <2>3. /\ DOMAIN inbox' = Users
        /\ \A u \in Users : SendsPlain(u)
    BY <2>1, <2>2, SendToPlain
  <2>4. ASSUME NEW u \in Users
        PROVE  /\ NoMore(OpTasks(u)', OpTasks(u)) /\ Leaving(u)'
               /\ NoMore(OpsOf(commands', u), OpsOf(commands, u))
    <3>1. NoMore(OpTasks(u)', OpTasks(u))
      BY <2>1, TasksKept DEF CollabInv
    <3>2. Leaving(u)'
      BY <2>1 DEF CollabInv, Leaving, Reaches
    <3>3. AtMostOne(OpsOf(commands, u))
      BY DEF CollabInv, Flight
    <3> QED
      BY <2>1, <3>1, <3>2, <3>3 DEF NoMore
  <2>5. (\A t \in pool' : IsTask(t)) /\ IsSeq(commands')
    BY <2>1 DEF CollabInv, Shape
  <2> QED
    BY <2>3, <2>4, <2>5, ServerStepKept
<1> QED
  BY <1>2, <1>3 DEF handle_operation

LEMMA EnqueueCommandKept ==
    ASSUME CollabInv, NEW task \in pool, enqueue_command(task),
           UNCHANGED <<docVars, clientVars, linkVars, role, notices, sessionVars, boundVars>>
    PROVE  CollabInv'
<1> USE DEF docVars, clientVars, linkVars, sessionVars
<1>1. IsTask(task) /\ task.type = "operation" /\ pool' = pool \ {task} /\ inbox' = inbox
  BY DEF CollabInv, Shape, enqueue_command
<1>2. PICK c : c.type = "operation" /\ c.userId = task.userId /\ commands' = Append(commands, c)
  BY DEF enqueue_command
<1>3. /\ IsSeq(commands) /\ IsSeq(commands') /\ Len(commands) \in Nat
      /\ Len(commands') = Len(commands) + 1 /\ commands'[Len(commands) + 1] = c
      /\ \A i \in 1 .. Len(commands) : commands'[i] = commands[i]
  BY <1>2, AppendShape DEF CollabInv, Shape
<1>4. Shape'
  BY <1>1, <1>3 DEF CollabInv, Shape, IsTask
<1>5. ControllerStates'
  BY DEF CollabInv, ControllerStates
<1>6. ASSUME NEW u \in Users PROVE Flight(u)' /\ Leaving(u)' /\ Streaming(u)'
  <2>1. Streaming(u)'
    BY <1>1 DEF CollabInv, Streaming, Reaches
  <2>2. Leaving(u)'
    <3>1. \A i \in 1 .. Len(commands') : commands'[i].type = "leave" =>
              i \in 1 .. Len(commands) /\ commands'[i] = commands[i]
      BY <1>2, <1>3
    <3> QED
      BY <1>1, <3>1 DEF CollabInv, Leaving, Reaches
  <2>3. Flight(u)
    BY DEF CollabInv
  <2>4. CASE u = task.userId
    <3>1. OpTasks(u) # {} /\ OpTasks(u)' = {}
      BY <1>1, <2>3, <2>4 DEF Flight, AtMostOne, OpTasks
    <3>2. /\ OpsOf(commands, u) = {} /\ Acks(inbox[u]) = {} /\ pending[u] # << >>
      BY <2>3, <3>1 DEF Flight
    <3>3. AtMostOne(OpsOf(commands', u))
      BY <1>2, <1>3, <3>2, OpsAppend
    <3> QED
      BY <1>1, <2>1, <2>2, <3>1, <3>2, <3>3 DEF Flight, OpTasks, OpsOf, Acks, AtMostOne
  <2>5. CASE u # task.userId
    <3>1. NoMore(OpTasks(u)', OpTasks(u))
      BY <1>1, <2>3, TasksKept
    <3>2. OpsOf(commands', u) = OpsOf(commands, u)
      BY <1>2, <1>3, <2>5, OpsAppend
    <3>3. NoMore(OpsOf(commands', u), OpsOf(commands, u)) /\ NoMore(Acks(inbox'[u]), Acks(inbox[u]))
      BY <1>1, <2>3, <3>2 DEF Flight, NoMore
    <3> QED
      BY <2>1, <2>2, <2>3, <3>1, <3>3, FlightKept
  <2> QED
    BY <2>4, <2>5
<1> QED
  BY <1>4, <1>5, <1>6 DEF CollabInv

\* A leave command that is enqueued when the window has closed or the
\* connection is gone.
LEMMA LeaveEnqueued ==
    ASSUME CollabInv, NEW u \in Users, ~ open[u] \/ disconnected'[u],
           open' = open, linked' = linked,
           \A v \in Users : disconnected[v] => disconnected'[v],
           disconnected' \in [Users -> BOOLEAN],
           UNCHANGED <<state, rev, pending, buffer, connected_users, revision,
                       versions, inbox>>,
           \A t \in pool' : IsTask(t) /\ (t \in pool \/ (t.type = "leave" /\ ~ open[t.userId])),
           commands' = Append(commands, LeaveCommand(u))
    PROVE  CollabInv'
<1>1. /\ IsSeq(commands) /\ IsSeq(commands') /\ Len(commands) \in Nat
      /\ Len(commands') = Len(commands) + 1 /\ commands'[Len(commands) + 1] = LeaveCommand(u)
      /\ \A i \in 1 .. Len(commands) : commands'[i] = commands[i]
  BY AppendShape DEF CollabInv, Shape
<1>2. LeaveCommand(u).type = "leave" /\ LeaveCommand(u).userId = u
  BY DEF LeaveCommand
<1>3. Shape'
  BY <1>1 DEF CollabInv, Shape, IsTask
<1>4. ControllerStates'
  BY DEF CollabInv, ControllerStates
<1>5. ASSUME NEW v \in Users PROVE Flight(v)' /\ Leaving(v)' /\ Streaming(v)'
  <2>1. Reaches(v)' => Reaches(v)
    BY DEF Reaches, CollabInv, Shape
  <2>2. Streaming(v)'
    BY <2>1 DEF CollabInv, Streaming
  <2>3. Leaving(v)'
    <3>1. \A t \in pool' : t.userId = v /\ t.type = "leave" => ~ open[v]
      BY DEF CollabInv, Leaving
    <3>2. ASSUME NEW i \in 1 .. Len(commands'),
                 commands'[i].type = "leave", commands'[i].userId = v
          PROVE  ~ open[v] \/ disconnected'[v]
      <4>1. CASE i = Len(commands) + 1
        BY <1>1, <1>2, <3>2, <4>1
      <4>2. CASE i # Len(commands) + 1
        <5>1. i \in 1 .. Len(commands)
          BY <1>1, <4>2
        <5> QED
          BY <1>1, <3>2, <5>1 DEF CollabInv, Leaving
      <4> QED
        BY <4>1, <4>2
    <3> QED
      BY <2>1, <3>1, <3>2 DEF CollabInv, Leaving
  <2>4. Flight(v)
    BY DEF CollabInv
  <2>5. NoMore(OpTasks(v)', OpTasks(v))
    BY <2>4, TasksKept
  <2>6. OpsOf(commands', v) = OpsOf(commands, v)
    BY <1>1, <1>2, OpsAppend
  <2>7. NoMore(OpsOf(commands', v), OpsOf(commands, v)) /\ NoMore(Acks(inbox'[v]), Acks(inbox[v]))
    BY <2>4, <2>6 DEF Flight, NoMore
  <2>8. Flight(v)'
    BY <2>4, <2>5, <2>7, FlightKept
  <2> QED
    BY <2>2, <2>3, <2>8
<1> QED
  BY <1>3, <1>4, <1>5 DEF CollabInv

LEMMA HandleMessageKept ==
    ASSUME CollabInv, NEW u \in Users, handle_message(u)
    PROVE  CollabInv'
<1>1. PICK task \in pool : \/ handle_operation(task) \/ enqueue_command(task)
                           \/ handle_doc_leave(task) \/ set_current_doc(task)
  BY DEF handle_message
<1>2. UNCHANGED <<docVars, clientVars, linkVars, role, notices, sessionVars, boundVars>>
  BY DEF handle_message
<1>3. IsTask(task)
  BY DEF CollabInv, Shape
<1>4. CASE handle_doc_leave(task)
  <2> DEFINE n == [task EXCEPT !.step = "enqueued"]
  <2>1. IsTask(n) /\ n.type = "leave" /\ n.userId = task.userId /\ task.type = "leave"
    BY <1>3, <1>4 DEF IsTask, handle_doc_leave
  <2> HIDE DEF n
  <2>2. pool' = (pool \ {task}) \cup {n} /\ inbox' = inbox
        /\ commands' = Append(commands, LeaveCommand(task.userId))
    BY <1>4 DEF handle_doc_leave, Advanced, n
  <2>3. ~ open[task.userId] /\ task.userId \in Users
    BY <1>3, <2>1 DEF CollabInv, Leaving, IsTask
  <2>4. \A t \in pool' : IsTask(t) /\ (t \in pool \/ (t.type = "leave" /\ ~ open[t.userId]))
    BY <2>1, <2>2, <2>3 DEF CollabInv, Shape
  <2>5. disconnected' = disconnected /\ disconnected \in [Users -> BOOLEAN]
    BY <1>2 DEF linkVars, CollabInv, Shape
  <2>6. UNCHANGED <<open, linked, state, rev, pending, buffer, connected_users,
                    revision, versions, inbox>>
    BY <1>2, <2>2 DEF docVars, clientVars, linkVars, sessionVars
  <2> QED
    BY <2>2, <2>3, <2>4, <2>5, <2>6, LeaveEnqueued
<1>5. CASE set_current_doc(task)
  <2>1. pool' \subseteq pool /\ commands' = commands /\ inbox' = inbox
    BY <1>5 DEF set_current_doc
  <2>2. UNCHANGED <<open, linked, disconnected, state, rev, pending, buffer,
                    connected_users, revision, versions>>
    BY <1>2 DEF docVars, clientVars, linkVars, sessionVars
  <2>3. ASSUME NEW v \in Users
        PROVE  /\ NoMore(OpTasks(v)', OpTasks(v)) /\ Leaving(v)'
               /\ NoMore(OpsOf(commands', v), OpsOf(commands, v))
    <3>1. Flight(v) /\ Leaving(v)
      BY DEF CollabInv
    <3>2. NoMore(OpTasks(v)', OpTasks(v))
      BY <2>1, <3>1, TasksKept
    <3>3. Leaving(v)'
      BY <2>1, <2>2, <3>1 DEF Leaving, Reaches
    <3> QED
      BY <2>1, <3>1, <3>2, <3>3 DEF NoMore, Flight
  <2>4. (\A t \in pool' : IsTask(t)) /\ IsSeq(commands') /\ DOMAIN inbox' = Users
    BY <2>1 DEF CollabInv, Shape
  <2> QED
    BY <2>1, <2>2, <2>3, <2>4, ServerStepKept DEF SendsPlain
<1>6. CASE handle_operation(task)
  BY <1>2, <1>6, HandleOperationKept
<1>7. CASE enqueue_command(task)
  BY <1>2, <1>7, EnqueueCommandKept
<1> QED
  BY <1>1, <1>4, <1>5, <1>6, <1>7

\* Sharing and its announcement touch nothing that is in flight.
LEMMA SharingKept ==
    ASSUME CollabInv,
           \/ \E u \in Users, r \in {"editor", "viewer", "none"} : handle_doc_share(u, r)
           \/ \E n \in notices : announce_role(n)
    PROVE  CollabInv'
<1>1. UNCHANGED <<open, linked, disconnected, state, rev, pending, buffer, pool,
                  commands, connected_users, revision, versions>>
  BY DEF handle_doc_share, announce_role, docVars, clientVars, linkVars, sessionVars
<1>2. inbox' = inbox \/ \E n \in notices : SendTo([u \in {n.userId} |-> RoleChanged(n.role)])
  BY DEF handle_doc_share, announce_role
<1>3. /\ DOMAIN inbox' = Users
      /\ \A u \in Users : SendsPlain(u)
  <2>1. CASE inbox' = inbox
    BY <2>1 DEF CollabInv, Shape, SendsPlain
  <2>2. ASSUME NEW n \in notices, SendTo([u \in {n.userId} |-> RoleChanged(n.role)])
        PROVE  DOMAIN inbox' = Users /\ \A u \in Users : SendsPlain(u)
    <3> DEFINE msgs == [u \in {n.userId} |-> RoleChanged(n.role)]
    <3>1. \A u \in DOMAIN msgs : msgs[u].type \notin {"ack", "broadcast"}
      BY DEF RoleChanged
    <3> HIDE DEF msgs
    <3>2. SendTo(msgs)
      BY <2>2 DEF msgs
    <3> QED
      BY <3>1, <3>2, SendToPlain
  <2> QED
    BY <1>2, <2>1, <2>2
<1>4. ASSUME NEW v \in Users
      PROVE  /\ NoMore(OpTasks(v)', OpTasks(v)) /\ Leaving(v)'
             /\ NoMore(OpsOf(commands', v), OpsOf(commands, v))
  <2>1. Flight(v) /\ Leaving(v)
    BY DEF CollabInv
  <2>2. NoMore(OpTasks(v)', OpTasks(v))
    BY <1>1, <2>1, TasksKept
  <2>3. Leaving(v)'
    BY <1>1, <2>1 DEF Leaving, Reaches
  <2> QED
    BY <1>1, <2>1, <2>2, <2>3 DEF NoMore, Flight
<1>5. (\A t \in pool' : IsTask(t)) /\ IsSeq(commands')
  BY <1>1 DEF CollabInv, Shape
<1> QED
  BY <1>1, <1>3, <1>4, <1>5, ServerStepKept

-----------------------------------------------------------------------------
(* The document session's thread *)

\* The rest of the queue.
LEMMA RestOfCommands ==
    ASSUME CollabInv, commands # << >>, commands' = Tail(commands)
    PROVE  /\ IsSeq(commands')
           /\ \A i \in 1 .. Len(commands') :
                 i + 1 \in 1 .. Len(commands) /\ commands'[i] = commands[i + 1]
           /\ 1 \in 1 .. Len(commands) /\ Head(commands) = commands[1]
  BY TailShape DEF CollabInv, Shape

LEMMA CommitKept ==
    ASSUME CollabInv, commands # << >>, commands' = Tail(commands),
           session_handle_operation(Head(commands)),
           apply_with_ot(Head(commands).operation),
           SendTo([u \in connected_users |->
                      IF u = Head(commands).userId THEN Ack(revision')
                      ELSE Broadcast(Head(commands).userId, revision',
                                     Transformed(Head(commands).operation))]),
           UNCHANGED <<clientVars, linkVars, pool, sessionVars>>
    PROVE  CollabInv'
<1> USE DEF clientVars, linkVars, sessionVars
<1> DEFINE w == Head(commands).userId
           msg(u) == IF u = w THEN Ack(revision')
                     ELSE Broadcast(w, revision', Transformed(Head(commands).operation))
<1>1. Head(commands).type = "operation" /\ revision' = revision + 1 /\ revision \in Nat
  BY DEF session_handle_operation, apply_with_ot, CollabInv, Shape
<1>2. \A u : /\ msg(u).type \in {"ack", "broadcast"} /\ msg(u).revision = revision + 1
             /\ u # w => msg(u).type # "ack"
  BY <1>1 DEF Ack, Broadcast
<1>3. inbox' = [u \in Users |->
                  IF u \in connected_users THEN Delivered(u, msg(u)) ELSE inbox[u]]
  BY DEF SendTo
<1> HIDE DEF msg, w
<1>4. IsSeq(versions') /\ Len(versions') = revision' + 1
  <2>1. PICK x : versions' = Append(versions, x)
    BY DEF apply_with_ot
  <2>2. IsSeq(versions) /\ Len(versions) = revision + 1
    BY DEF CollabInv, Shape
  <2> QED
    BY <1>1, <2>1, <2>2, AppendShape
<1>5. ASSUME NEW u \in Users
      PROVE  \/ Reaches(u) /\ inbox'[u] = Append(inbox[u], msg(u))
             \/ ~ Reaches(u) /\ inbox'[u] = inbox[u]
  BY <1>3 DEF Delivered, CollabInv, Leaving
<1>6. ASSUME NEW u \in Users PROVE IsSeq(inbox'[u]) /\ Streaming(u)'
  <2>1. /\ IsSeq(inbox[u]) /\ rev[u] \in Nat /\ rev[u] <= revision
        /\ Stream(inbox[u], rev[u], revision)
        /\ Reaches(u) => Full(inbox[u], rev[u], revision)
        /\ rev'[u] = rev[u] /\ (Reaches(u)' <=> Reaches(u))
    BY DEF CollabInv, Shape, Streaming, Reaches
  <2>2. CASE Reaches(u) /\ inbox'[u] = Append(inbox[u], msg(u))
    <3>1. IsSeq(inbox'[u])
      BY <2>1, <2>2, AppendShape
    <3>2. Stream(inbox'[u], rev[u], revision + 1) /\ Full(inbox'[u], rev[u], revision + 1)
      BY <1>1, <1>2, <2>1, <2>2, StreamAppendNumbered
    <3> QED
      BY <1>1, <2>1, <3>1, <3>2 DEF Streaming
  <2>3. CASE ~ Reaches(u) /\ inbox'[u] = inbox[u]
    <3>1. Stream(inbox[u], rev[u], revision + 1)
      BY <1>1, <2>1, StreamHigher
    <3> QED
      BY <1>1, <2>1, <2>3, <3>1 DEF Streaming
  <2> QED
    BY <1>5, <2>2, <2>3
<1>7. Shape'
  <2>1. IsSeq(commands') /\ DOMAIN inbox' = Users /\ revision' \in Nat
    BY <1>1, <1>3, RestOfCommands
  <2>2. \A t \in pool' : IsTask(t)'
    BY DEF CollabInv, Shape, IsTask
  <2> QED
    BY <1>4, <1>6, <2>1, <2>2 DEF CollabInv, Shape
<1>8. ControllerStates'
  BY DEF CollabInv, ControllerStates
<1>9. ASSUME NEW u \in Users PROVE Leaving(u)'
  BY RestOfCommands DEF CollabInv, Leaving, Reaches
<1>10. ASSUME NEW u \in Users PROVE Flight(u)'
  <2>1. /\ Flight(u) /\ IsSeq(commands) /\ IsSeq(inbox[u]) /\ OpTasks(u)' = OpTasks(u)
        /\ pending'[u] = pending[u] /\ AtMostOne(OpsOf(commands, u))
    BY DEF CollabInv, Shape, OpTasks, Flight
  <2>2. CASE u = w
    <3>1. OpsOf(commands, u) # {} /\ OpsOf(commands', u) = {}
      BY <1>1, <2>1, <2>2, OpsTail DEF w
    <3>2. OpTasks(u) = {} /\ Acks(inbox[u]) = {} /\ pending[u] # << >>
      BY <2>1, <3>1 DEF Flight
    <3>3. AtMostOne(Acks(inbox'[u]))
      <4>1. AtMostOne(Acks(Append(inbox[u], msg(u)))) /\ AtMostOne(Acks(inbox[u]))
        BY <2>1, <3>2, AcksAppend DEF Flight
      <4> QED
        BY <1>5, <4>1
    <3> QED
      BY <2>1, <3>1, <3>2, <3>3 DEF Flight, OpTasks, OpsOf, Acks, AtMostOne
  <2>3. CASE u # w
    <3>1. NoMore(OpsOf(commands', u), OpsOf(commands, u))
      BY <2>1, OpsTail
    <3>2. Acks(inbox'[u]) = Acks(inbox[u])
      <4>1. Acks(Append(inbox[u], msg(u))) = Acks(inbox[u])
        BY <1>2, <2>1, <2>3, AcksAppend
      <4> QED
        BY <1>5, <4>1
    <3>3. NoMore(Acks(inbox'[u]), Acks(inbox[u])) /\ NoMore(OpTasks(u)', OpTasks(u))
      BY <2>1, <3>2 DEF Flight, NoMore
    <3> QED
      BY <2>1, <3>1, <3>3, FlightKept
  <2> QED
    BY <2>2, <2>3
<1> QED
  BY <1>6, <1>7, <1>8, <1>9, <1>10 DEF CollabInv

LEMMA ProcessCommandKept ==
    ASSUME CollabInv, process_command
    PROVE  CollabInv'
<1> DEFINE cmd == Head(commands)
<1>1. /\ commands # << >> /\ commands' = Tail(commands)
      /\ UNCHANGED <<clientVars, linkVars, pool>>
      /\ session_handle_operation(cmd) \/ session_handle_leave(cmd)
  BY DEF process_command
<1>2. UNCHANGED <<state, rev, pending, buffer, open, linked, disconnected>>
  BY <1>1 DEF clientVars, linkVars
<1>3. ASSUME NEW u \in Users
      PROVE  /\ NoMore(OpTasks(u)', OpTasks(u))
             /\ NoMore(OpsOf(commands', u), OpsOf(commands, u))
  <2>1. Flight(u) /\ IsSeq(commands) /\ AtMostOne(OpsOf(commands, u))
    BY DEF CollabInv, Shape, Flight
  <2> QED
    BY <1>1, <2>1, TasksKept, OpsTail
<1>4. (\A t \in pool' : IsTask(t)) /\ IsSeq(commands')
  BY <1>1, RestOfCommands DEF CollabInv, Shape
<1>5. ASSUME session_handle_operation(cmd), refuse_op(cmd.operation),
             SendTo([u \in {cmd.userId} \cap connected_users |-> Error("revision_too_old")])
      PROVE  CollabInv'
  <2> DEFINE msgs == [u \in {cmd.userId} \cap connected_users |-> Error("revision_too_old")]
  <2>1. SendTo(msgs) /\ \A u \in DOMAIN msgs : msgs[u].type \notin {"ack", "broadcast"}
    BY <1>5 DEF Error
  <2> HIDE DEF msgs
  <2>2. UNCHANGED <<revision, versions, connected_users>>
    BY <1>5 DEF session_handle_operation, refuse_op, textVars, sessionVars
  <2>3. \A u \in Users : Leaving(u)'
    BY <1>1, <1>2, <2>2, RestOfCommands DEF CollabInv, Leaving, Reaches
  <2>4. DOMAIN inbox' = Users /\ \A u \in Users : SendsPlain(u)
    BY <2>1, SendToPlain
  <2> QED
    BY <1>2, <1>3, <1>4, <2>2, <2>3, <2>4, ServerStepKept
<1>6. CASE session_handle_leave(cmd)
  <2> DEFINE msgs == [u \in connected_users' |-> UserLeft(cmd.userId)]
  <2>1. SendTo(msgs) /\ \A u \in DOMAIN msgs : msgs[u].type \notin {"ack", "broadcast"}
    BY <1>6 DEF UserLeft, session_handle_leave
  <2> HIDE DEF msgs
  <2>2. /\ cmd.type = "leave" /\ connected_users' = connected_users \ {cmd.userId}
        /\ UNCHANGED <<revision, versions>>
    BY <1>6 DEF session_handle_leave, textVars
  <2>3. ASSUME NEW u \in Users PROVE Leaving(u)'
    <3>1. Reaches(u)' => u \in connected_users'
      BY <1>1, <1>2, <2>2, RestOfCommands DEF CollabInv, Leaving, Reaches
    <3> QED
      BY <1>1, <1>2, <3>1, RestOfCommands DEF CollabInv, Leaving
  <2>4. DOMAIN inbox' = Users /\ \A u \in Users : SendsPlain(u)
    BY <2>1, SendToPlain
  <2> QED
    BY <1>2, <1>3, <1>4, <2>2, <2>3, <2>4, ServerStepKept
<1>7. CASE session_handle_operation(cmd)
  <2>1. UNCHANGED sessionVars
    BY <1>7 DEF session_handle_operation
  <2>2. \/ /\ apply_with_ot(cmd.operation)
           /\ SendTo([u \in connected_users |->
                         IF u = cmd.userId THEN Ack(revision')
                         ELSE Broadcast(cmd.userId, revision', Transformed(cmd.operation))])
        \/ /\ refuse_op(cmd.operation)
           /\ SendTo([u \in {cmd.userId} \cap connected_users |-> Error("revision_too_old")])
    BY <1>7 DEF session_handle_operation
  <2> QED
    BY <1>1, <1>5, <1>7, <2>1, <2>2, CommitKept
<1> QED
  BY <1>1, <1>6, <1>7

-----------------------------------------------------------------------------
(* Connections *)

LEMMA OnDisconnectKept ==
    ASSUME CollabInv, NEW u \in Users, on_disconnect(u)
    PROVE  CollabInv'
<1>1. /\ disconnected' = [disconnected EXCEPT ![u] = TRUE]
      /\ UNCHANGED <<open, linked, state, rev, pending, buffer, connected_users,
                     revision, versions, inbox, pool>>
      /\ commands' = commands \/ commands' = Append(commands, LeaveCommand(u))
  BY DEF on_disconnect, docVars, clientVars, sessionVars
<1>2. /\ disconnected' \in [Users -> BOOLEAN] /\ disconnected'[u]
      /\ \A v \in Users : disconnected[v] => disconnected'[v]
  BY <1>1 DEF CollabInv, Shape
<1>3. CASE commands' = Append(commands, LeaveCommand(u))
  <2>1. \A t \in pool' : IsTask(t) /\ (t \in pool \/ (t.type = "leave" /\ ~ open[t.userId]))
    BY <1>1 DEF CollabInv, Shape
  <2> QED
    BY <1>1, <1>2, <1>3, <2>1, LeaveEnqueued
<1>4. CASE commands' = commands
  <2>1. Shape'
    BY <1>1, <1>2, <1>4 DEF CollabInv, Shape, IsTask
  <2>2. ControllerStates'
    BY <1>1 DEF CollabInv, ControllerStates
  <2>3. ASSUME NEW v \in Users PROVE Flight(v)' /\ Leaving(v)' /\ Streaming(v)'
    <3>1. Reaches(v)' => Reaches(v)
      BY <1>1, <1>2 DEF Reaches
    <3>2. Flight(v)'
      BY <1>1, <1>4 DEF CollabInv, Flight, OpTasks
    <3>3. Leaving(v)'
      BY <1>1, <1>2, <1>4, <3>1 DEF CollabInv, Leaving
    <3>4. Streaming(v)'
      BY <1>1, <3>1 DEF CollabInv, Streaming
    <3> QED
      BY <3>2, <3>3, <3>4
  <2> QED
    BY <2>1, <2>2, <2>3 DEF CollabInv
<1> QED
  BY <1>1, <1>3, <1>4

LEMMA LoseConnectionKept ==
    ASSUME CollabInv, NEW u \in Users, LoseConnection(u)
    PROVE  CollabInv'
<1>1. /\ linked' = [linked EXCEPT ![u] = FALSE] /\ pool' \subseteq pool
      /\ UNCHANGED <<open, disconnected, state, rev, pending, buffer, connected_users,
                     revision, versions, commands>>
  BY DEF LoseConnection, docVars, clientVars, sessionVars
<1>2. PICK k \in 0 .. Len(inbox[u]) : inbox' = [inbox EXCEPT ![u] = SubSeq(@, 1, k)]
  BY DEF LoseConnection
<1>3. /\ linked' \in [Users -> BOOLEAN] /\ ~ linked'[u]
      /\ \A v \in Users : linked'[v] => linked[v]
      /\ DOMAIN inbox' = Users /\ inbox'[u] = SubSeq(inbox[u], 1, k)
      /\ \A v \in Users \ {u} : inbox'[v] = inbox[v]
  BY <1>1, <1>2 DEF CollabInv, Shape
<1>4. ASSUME NEW v \in Users
      PROVE  /\ IsSeq(inbox'[v]) /\ Stream(inbox'[v], rev[v], revision)
             /\ Reaches(v)' => v # u /\ Reaches(v)
             /\ NoMore(Acks(inbox'[v]), Acks(inbox[v]))
  <2>1. /\ IsSeq(inbox[v]) /\ rev[v] \in Nat /\ revision \in Nat
        /\ Stream(inbox[v], rev[v], revision) /\ AtMostOne(Acks(inbox[v]))
    BY DEF CollabInv, Shape, Streaming, Flight
  <2>2. Reaches(v)' => v # u /\ Reaches(v)
    BY <1>1, <1>3 DEF Reaches
  <2>3. CASE v = u
    BY <1>2, <1>3, <2>1, <2>2, <2>3, PrefixShape, StreamPrefix, AcksPrefix
  <2>4. CASE v # u
    BY <1>3, <2>1, <2>2, <2>4 DEF NoMore
  <2> QED
    BY <2>3, <2>4
<1>5. Shape'
  BY <1>1, <1>3, <1>4 DEF CollabInv, Shape, IsTask
<1>6. ControllerStates'
  BY <1>1 DEF CollabInv, ControllerStates
<1>7. ASSUME NEW v \in Users PROVE Flight(v)' /\ Leaving(v)' /\ Streaming(v)'
  <2>1. Flight(v) /\ AtMostOne(OpsOf(commands, v))
    BY DEF CollabInv, Flight
  <2>2. NoMore(OpTasks(v)', OpTasks(v)) /\ NoMore(OpsOf(commands', v), OpsOf(commands, v))
    BY <1>1, <2>1, TasksKept DEF NoMore
  <2>3. Flight(v)'
    BY <1>1, <1>4, <2>1, <2>2, FlightKept
  <2>4. Leaving(v)'
    BY <1>1, <1>4 DEF CollabInv, Leaving
  <2>5. Streaming(v)'
    BY <1>1, <1>3, <1>4 DEF CollabInv, Streaming
  <2> QED
    BY <2>3, <2>4, <2>5
<1> QED
  BY <1>5, <1>6, <1>7 DEF CollabInv

-----------------------------------------------------------------------------
(* The client *)

\* The window of u goes away, and perhaps a leave message is sent.
LEMMA WindowClosesKept ==
    ASSUME CollabInv, NEW u \in Users, WindowCloses(u),
           pool' = pool \/ pool' = pool \cup Sent(u, {LeaveTask(u)}),
           UNCHANGED <<linked, disconnected, state, rev, pending, buffer,
                       connected_users, revision, versions, commands>>
    PROVE  CollabInv'
<1>1. /\ open' \in [Users -> BOOLEAN] /\ ~ open'[u]
      /\ \A v \in Users : open'[v] => open[v]
      /\ DOMAIN inbox' = Users /\ inbox'[u] = << >>
      /\ \A v \in Users \ {u} : inbox'[v] = inbox[v]
  BY DEF WindowCloses, CollabInv, Shape
<1>2. \A t \in pool' : t \in pool \/ t = LeaveTask(u)
  BY DEF Sent
<1>3. IsTask(LeaveTask(u)) /\ LeaveTask(u).type = "leave" /\ LeaveTask(u).userId = u
  BY DEF LeaveTask, IsTask
<1>4. ASSUME NEW v \in Users
      PROVE  /\ IsSeq(inbox'[v]) /\ Stream(inbox'[v], rev[v], revision)
             /\ Reaches(v)' => v # u /\ Reaches(v)
             /\ NoMore(Acks(inbox'[v]), Acks(inbox[v]))
  <2>1. /\ IsSeq(inbox[v]) /\ rev[v] \in Nat /\ revision \in Nat
        /\ Stream(inbox[v], rev[v], revision) /\ AtMostOne(Acks(inbox[v]))
    BY DEF CollabInv, Shape, Streaming, Flight
  <2>2. Reaches(v)' => v # u /\ Reaches(v)
    BY <1>1 DEF Reaches
  <2>3. CASE v = u
    <3>1. IsSeq(<< >>) /\ Stream(<< >>, rev[v], revision) /\ Acks(<< >>) = {}
      BY <2>1, EmptyShape, StreamEmpty DEF Acks
    <3> QED
      BY <1>1, <2>2, <2>3, <3>1 DEF NoMore, AtMostOne
  <2>4. CASE v # u
    BY <1>1, <2>1, <2>2, <2>4 DEF NoMore
  <2> QED
    BY <2>3, <2>4
<1>5. Shape'
  BY <1>1, <1>2, <1>3, <1>4 DEF CollabInv, Shape, IsTask
<1>6. ControllerStates'
  BY DEF CollabInv, ControllerStates
<1>7. ASSUME NEW v \in Users PROVE Flight(v)' /\ Leaving(v)' /\ Streaming(v)'
  <2>1. Flight(v) /\ AtMostOne(OpsOf(commands, v))
    BY DEF CollabInv, Flight
  <2>2. NoMore(OpTasks(v)', OpTasks(v)) /\ NoMore(OpsOf(commands', v), OpsOf(commands, v))
    BY <1>2, <1>3, <2>1, TasksKept DEF NoMore
  <2>3. Flight(v)'
    BY <1>4, <2>1, <2>2, FlightKept
  <2>4. Leaving(v)'
    BY <1>1, <1>2, <1>3, <1>4 DEF CollabInv, Leaving
  <2>5. Streaming(v)'
    BY <1>1, <1>4 DEF CollabInv, Streaming
  <2> QED
    BY <2>3, <2>4, <2>5
<1> QED
  BY <1>5, <1>6, <1>7 DEF CollabInv

\* A message without a number is taken from the inbox of u.
LEMMA PlainConsumedKept ==
    ASSUME CollabInv, NEW u \in Users, inbox[u] # << >>, Consumed(u),
           Head(inbox[u]).type \notin {"ack", "broadcast"},
           UNCHANGED <<open, linked, disconnected, state, rev, pending, buffer,
                       connected_users, revision, versions, commands, pool>>
    PROVE  CollabInv'
<1>1. /\ DOMAIN inbox' = Users /\ inbox'[u] = Tail(inbox[u])
      /\ \A v \in Users \ {u} : inbox'[v] = inbox[v]
  BY DEF Consumed, CollabInv, Shape
<1>2. ASSUME NEW v \in Users
      PROVE  /\ IsSeq(inbox'[v]) /\ Stream(inbox'[v], rev[v], revision)
             /\ Full(inbox[v], rev[v], revision) => Full(inbox'[v], rev[v], revision)
             /\ NoMore(Acks(inbox'[v]), Acks(inbox[v]))
  <2>1. /\ IsSeq(inbox[v]) /\ rev[v] \in Nat /\ revision \in Nat
        /\ Stream(inbox[v], rev[v], revision) /\ AtMostOne(Acks(inbox[v]))
    BY DEF CollabInv, Shape, Streaming, Flight
  <2>2. CASE v = u
    <3>1. inbox[v] # << >> /\ Head(inbox[v]).type \notin {"ack", "broadcast"}
          /\ inbox'[v] = Tail(inbox[v])
      BY <1>1, <2>2
    <3>2. IsSeq(Tail(inbox[v])) /\ NoMore(Acks(Tail(inbox[v])), Acks(inbox[v]))
      BY <2>1, <3>1, TailShape, AcksTail
    <3>3. /\ Stream(Tail(inbox[v]), rev[v], revision)
          /\ Full(inbox[v], rev[v], revision) => Full(Tail(inbox[v]), rev[v], revision)
      BY <2>1, <3>1, StreamTailPlain
    <3> QED
      BY <3>1, <3>2, <3>3
  <2>3. CASE v # u
    BY <1>1, <2>1, <2>3 DEF NoMore
  <2> QED
    BY <2>2, <2>3
<1>3. Shape'
  BY <1>1, <1>2 DEF CollabInv, Shape, IsTask
<1>4. ControllerStates'
  BY DEF CollabInv, ControllerStates
<1>5. ASSUME NEW v \in Users PROVE Flight(v)' /\ Leaving(v)' /\ Streaming(v)'
  <2>1. Flight(v) /\ AtMostOne(OpsOf(commands, v)) /\ AtMostOne(OpTasks(v))
    BY DEF CollabInv, Flight
  <2>2. NoMore(OpTasks(v)', OpTasks(v)) /\ NoMore(OpsOf(commands', v), OpsOf(commands, v))
    BY <2>1, TasksKept DEF NoMore
  <2>3. Flight(v)'
    BY <1>2, <2>1, <2>2, FlightKept
  <2>4. Leaving(v)'
    BY DEF CollabInv, Leaving, Reaches
  <2>5. Streaming(v)'
    BY <1>2 DEF CollabInv, Streaming, Reaches
  <2> QED
    BY <2>3, <2>4, <2>5
<1> QED
  BY <1>3, <1>4, <1>5 DEF CollabInv

\* sendOp adds one task of u to the pool, if it gets there at all.
LEMMA SendOp ==
    ASSUME CollabInv, NEW u \in Users, NEW op, NEW r, OpTasks(u) = {},
           pool' = pool \cup Sent(u, {OperationTask(u, op, r)})
    PROVE  /\ AtMostOne(OpTasks(u)')
           /\ \A v \in Users \ {u} : OpTasks(v)' = OpTasks(v)
           /\ \A t \in pool' : IsTask(t) /\ (t.type = "leave" => t \in pool)
<1> DEFINE n == OperationTask(u, op, r)
<1>1. IsTask(n) /\ n.type = "operation" /\ n.userId = u
  BY DEF OperationTask, IsTask
<1>2. \A t \in pool' : t \in pool \/ t = n
  BY DEF Sent
<1>3. pool \subseteq pool'
  OBVIOUS
<1> HIDE DEF n
<1>4. \A t \in OpTasks(u)' : t = n
  BY <1>2 DEF OpTasks
<1>5. \A v \in Users \ {u} : OpTasks(v)' = OpTasks(v)
  BY <1>1, <1>2, <1>3 DEF OpTasks
<1>6. \A t \in pool' : IsTask(t) /\ (t.type = "leave" => t \in pool)
  BY <1>1, <1>2 DEF CollabInv, Shape
<1> QED
  BY <1>4, <1>5, <1>6 DEF AtMostOne

\* The controller of u changes, the others do not.
LEMMA ControllerKept ==
    ASSUME CollabInv, NEW u \in Users, NEW s, NEW p, NEW b,
           state' = [state EXCEPT ![u] = s], s \in {"SYN", "ACK", "BUF"},
           IsSeq(p), Len(p) <= 1, s = "SYN" <=> p = << >>,
           pending'[u] = p, \A v \in Users \ {u} : pending'[v] = pending[v],
           IsSeq(b), s = "BUF" <=> b # << >>,
           buffer'[u] = b, \A v \in Users \ {u} : buffer'[v] = buffer[v]
    PROVE  /\ ControllerStates' /\ state' \in [Users -> {"SYN", "ACK", "BUF"}]
           /\ \A v \in Users : IsSeq(pending'[v]) /\ IsSeq(buffer'[v])
<1>1. /\ state \in [Users -> {"SYN", "ACK", "BUF"}]
      /\ \A v \in Users : IsSeq(pending[v]) /\ IsSeq(buffer[v])
  BY DEF CollabInv, Shape
<1>2. \A v \in Users : /\ state'[v] = IF v = u THEN s ELSE state[v]
                       /\ pending'[v] = IF v = u THEN p ELSE pending[v]
                       /\ buffer'[v] = IF v = u THEN b ELSE buffer[v]
  BY <1>1
<1>3. ControllerStates'
  BY <1>2 DEF CollabInv, ControllerStates
<1>4. state' \in [Users -> {"SYN", "ACK", "BUF"}]
  BY <1>1
<1>5. \A v \in Users : IsSeq(pending'[v]) /\ IsSeq(buffer'[v])
  BY <1>1, <1>2
<1> QED
  BY <1>2, <1>3, <1>4, <1>5

LEMMA EditKept ==
    ASSUME CollabInv, NEW u \in Users, Edit(u)
    PROVE  CollabInv'
<1>1. /\ UNCHANGED <<open, linked, disconnected, rev, connected_users, revision,
                     versions, commands, inbox>>
  BY DEF Edit, onLocalOperations, docVars, linkVars, sessionVars
<1>2. PICK p \in 0 .. Len(local[u]), n \in Removals, k \in Additions :
          onLocalOperations(u, ContentsChange(u, p, n, [i \in 1 .. k |-> u]))
  BY DEF Edit
<1>3. PICK ops : ops = ContentsChange(u, p, n, [i \in 1 .. k |-> u])
  OBVIOUS
<1>4. IsSeq(ops) /\ ops # << >> /\ onLocalOperations(u, ops)
  <2>1. PICK a : a = IF n > 0 THEN <<make_delete(p, n, u, rev[u])>> ELSE << >>
    OBVIOUS
  <2>2. PICK b : b = IF [i \in 1 .. k |-> u] # << >>
                     THEN <<make_insert(p, [i \in 1 .. k |-> u], u, rev[u])>> ELSE << >>
    OBVIOUS
  <2>3. IsSeq(a) /\ IsSeq(b) /\ ops = a \o b
    BY <1>3, <2>1, <2>2, SingleShape, EmptyShape DEF ContentsChange
  <2>4. onLocalOperations(u, ops)
    BY <1>2, <1>3
  <2>5. IsSeq(ops)
    BY <2>3, ConcatShape
  <2> QED
    BY <2>4, <2>5 DEF onLocalOperations
<1>5. Flight(u) /\ IsSeq(pending[u]) /\ IsSeq(buffer[u]) /\ state[u] \in {"SYN", "ACK", "BUF"}
      /\ (state[u] = "SYN" <=> pending[u] = << >>) /\ (state[u] = "BUF" <=> buffer[u] # << >>)
      /\ Len(pending[u]) <= 1
  BY DEF CollabInv, Shape, ControllerStates
<1>6. /\ ControllerStates' /\ state' \in [Users -> {"SYN", "ACK", "BUF"}]
      /\ DOMAIN pending' = Users /\ DOMAIN buffer' = Users
      /\ \A v \in Users : IsSeq(pending'[v]) /\ IsSeq(buffer'[v])
      /\ \A t \in pool' : IsTask(t) /\ (t.type = "leave" => t \in pool)
      /\ \A v \in Users : Flight(v)'
  <2>1. CASE state[u] = "SYN"
    <3> DEFINE h == <<Head(ops)>>
               r == Tail(ops)
               s == IF r = << >> THEN "ACK" ELSE "BUF"
    <3>1. /\ pending' = [pending EXCEPT ![u] = h] /\ buffer' = [buffer EXCEPT ![u] = @ \o r]
          /\ state' = [state EXCEPT ![u] = s]
          /\ pool' = pool \cup Sent(u, {OperationTask(u, Head(ops), rev[u])})
      BY <1>4, <2>1 DEF onLocalOperations
    <3>2. IsSeq(h) /\ Len(h) = 1 /\ h # << >> /\ IsSeq(r)
      BY <1>4, SingleShape, TailShape
    <3> HIDE DEF h, r
    <3>0. s \in {"ACK", "BUF"} /\ (s = "BUF" <=> r # << >>)
      OBVIOUS
    <3> HIDE DEF s
    <3>3. buffer[u] = << >> /\ pending[u] = << >>
      BY <1>5, <2>1
    <3>4. IsSeq(buffer[u] \o r) /\ (buffer[u] \o r = << >> <=> r = << >>)
      <4>1. IsSeq(buffer[u] \o r) /\ Len(buffer[u] \o r) = Len(r)
        BY <1>5, <3>2, <3>3, ConcatShape, EmptyShape
      <4> QED
        BY <3>2, <4>1, EmptyShape
    <3>5. /\ DOMAIN pending' = Users /\ DOMAIN buffer' = Users
          /\ pending'[u] = h /\ \A v \in Users \ {u} : pending'[v] = pending[v]
          /\ buffer'[u] = buffer[u] \o r /\ \A v \in Users \ {u} : buffer'[v] = buffer[v]
      BY <3>1 DEF CollabInv, Shape
    <3>6. /\ ControllerStates' /\ state' \in [Users -> {"SYN", "ACK", "BUF"}]
          /\ \A v \in Users : IsSeq(pending'[v]) /\ IsSeq(buffer'[v])
      <4>1. /\ s \in {"SYN", "ACK", "BUF"} /\ Len(h) <= 1 /\ (s = "SYN" <=> h = << >>)
            /\ (s = "BUF" <=> buffer[u] \o r # << >>)
        BY <3>0, <3>2, <3>4
      <4> QED
        BY <3>1, <3>2, <3>4, <3>5, <4>1, ControllerKept
    <3>7. OpTasks(u) = {} /\ OpsOf(commands, u) = {} /\ Acks(inbox[u]) = {}
      BY <1>5, <3>3 DEF Flight
    <3>8. /\ AtMostOne(OpTasks(u)')
          /\ \A v \in Users \ {u} : OpTasks(v)' = OpTasks(v)
          /\ \A t \in pool' : IsTask(t) /\ (t.type = "leave" => t \in pool)
      BY <3>1, <3>7, SendOp
    <3>9. Flight(u)'
      BY <1>1, <3>2, <3>5, <3>7, <3>8 DEF Flight, AtMostOne
    <3>10. ASSUME NEW v \in Users \ {u} PROVE Flight(v)'
      BY <1>1, <3>5, <3>8 DEF CollabInv, Flight
    <3> QED
      BY <3>5, <3>6, <3>8, <3>9, <3>10
  <2>2. CASE state[u] # "SYN"
    <3>1. /\ UNCHANGED <<pending, pool>> /\ state' = [state EXCEPT ![u] = "BUF"]
          /\ buffer' = [buffer EXCEPT ![u] = buffer[u] \o ops]
      BY <1>4, <2>2 DEF onLocalOperations
    <3>2. IsSeq(buffer[u] \o ops) /\ buffer[u] \o ops # << >>
      <4>1. IsSeq(buffer[u] \o ops) /\ Len(buffer[u] \o ops) = Len(buffer[u]) + Len(ops)
        BY <1>4, <1>5, ConcatShape
      <4>2. Len(buffer[u]) \in Nat /\ Len(ops) \in Nat /\ Len(ops) # 0
        BY <1>4, <1>5, EmptyShape
      <4> QED
        BY <4>1, <4>2, EmptyShape
    <3>3. /\ DOMAIN pending' = Users /\ DOMAIN buffer' = Users
          /\ buffer'[u] = buffer[u] \o ops /\ \A v \in Users \ {u} : buffer'[v] = buffer[v]
      BY <3>1 DEF CollabInv, Shape
    <3>4. /\ ControllerStates' /\ state' \in [Users -> {"SYN", "ACK", "BUF"}]
          /\ \A v \in Users : IsSeq(pending'[v]) /\ IsSeq(buffer'[v])
      BY <1>5, <2>2, <3>1, <3>2, <3>3, ControllerKept
    <3>5. \A t \in pool' : IsTask(t) /\ (t.type = "leave" => t \in pool)
      BY <3>1 DEF CollabInv, Shape
    <3>6. ASSUME NEW v \in Users PROVE Flight(v)'
      BY <1>1, <3>1 DEF CollabInv, Flight, OpTasks
    <3> QED
      BY <3>3, <3>4, <3>5, <3>6
  <2> QED
    BY <2>1, <2>2
<1>7. Shape'
  BY <1>1, <1>6 DEF CollabInv, Shape, IsTask
<1>8. ASSUME NEW v \in Users PROVE Leaving(v)' /\ Streaming(v)'
  BY <1>1, <1>6 DEF CollabInv, Leaving, Streaming, Reaches
<1> QED
  BY <1>6, <1>7, <1>8 DEF CollabInv

\* The client of u takes the next revision from its inbox.
LEMMA NumberedConsumed ==
    ASSUME CollabInv, NEW u \in Users, inbox[u] # << >>, Consumed(u),
           Head(inbox[u]).type \in {"ack", "broadcast"},
           rev' = [rev EXCEPT ![u] = Head(inbox[u]).revision],
           UNCHANGED <<open, linked, disconnected, revision>>
    PROVE  /\ rev' = [rev EXCEPT ![u] = rev[u] + 1] /\ rev[u] < revision
           /\ rev' \in [Users -> Nat] /\ DOMAIN inbox' = Users
           /\ \A v \in Users : IsSeq(inbox'[v]) /\ Streaming(v)'
           /\ \A v \in Users : NoMore(Acks(inbox'[v]), Acks(inbox[v]))
           /\ Head(inbox[u]).type = "ack" => Acks(inbox[u]) # {} /\ Acks(inbox'[u]) = {}
<1>1. /\ DOMAIN inbox' = Users /\ inbox'[u] = Tail(inbox[u])
      /\ \A v \in Users \ {u} : inbox'[v] = inbox[v]
  BY DEF Consumed, CollabInv, Shape
<1>2. /\ IsSeq(inbox[u]) /\ rev[u] \in Nat /\ revision \in Nat /\ rev \in [Users -> Nat]
      /\ Stream(inbox[u], rev[u], revision) /\ AtMostOne(Acks(inbox[u]))
      /\ Reaches(u) => Full(inbox[u], rev[u], revision)
  BY DEF CollabInv, Shape, Streaming, Flight
<1>3. /\ Head(inbox[u]).revision = rev[u] + 1 /\ rev[u] + 1 <= revision
      /\ Stream(Tail(inbox[u]), rev[u] + 1, revision)
      /\ Full(inbox[u], rev[u], revision) => Full(Tail(inbox[u]), rev[u] + 1, revision)
  BY <1>2, StreamTailNumbered
<1>4. /\ IsSeq(Tail(inbox[u])) /\ NoMore(Acks(Tail(inbox[u])), Acks(inbox[u]))
      /\ Head(inbox[u]).type = "ack" => Acks(Tail(inbox[u])) = {}
  BY <1>2, TailShape, AcksTail
<1>5. Head(inbox[u]).type = "ack" => Acks(inbox[u]) # {}
  <2>1. 1 \in 1 .. Len(inbox[u]) /\ Head(inbox[u]) = inbox[u][1]
    BY <1>2, TailShape
  <2> QED
    BY <2>1 DEF Acks
<1>6. /\ rev' = [rev EXCEPT ![u] = rev[u] + 1] /\ rev' \in [Users -> Nat]
      /\ rev'[u] = rev[u] + 1 /\ \A v \in Users \ {u} : rev'[v] = rev[v]
  <2>1. rev' = [rev EXCEPT ![u] = rev[u] + 1]
    BY <1>3
  <2>2. rev[u] + 1 \in Nat
    BY <1>2
  <2> QED
    BY <1>2, <2>1, <2>2
<1>7. ASSUME NEW v \in Users
      PROVE  IsSeq(inbox'[v]) /\ Streaming(v)' /\ NoMore(Acks(inbox'[v]), Acks(inbox[v]))
  <2>1. CASE v = u
    <3>1. Streaming(u)'
      BY <1>1, <1>2, <1>3, <1>6 DEF Streaming, Reaches
    <3> QED
      BY <1>1, <1>4, <2>1, <3>1
  <2>2. CASE v # u
    <3>1. IsSeq(inbox[v]) /\ Streaming(v) /\ AtMostOne(Acks(inbox[v]))
      BY DEF CollabInv, Shape, Flight
    <3>2. Streaming(v)'
      BY <1>1, <1>6, <2>2, <3>1 DEF Streaming, Reaches
    <3> QED
      BY <1>1, <2>2, <3>1, <3>2 DEF NoMore
  <2> QED
    BY <2>1, <2>2
<1>8. rev[u] < revision
  BY <1>2, <1>3
<1> QED
  BY <1>1, <1>4, <1>5, <1>6, <1>7, <1>8

LEMMA HandleAckKept ==
    ASSUME CollabInv, NEW u \in Users, inbox[u] # << >>, handleAck(u, Head(inbox[u])),
           UNCHANGED <<linked, disconnected, connected_users, revision, versions, commands>>
    PROVE  CollabInv'
<1>1. /\ Head(inbox[u]).type = "ack" /\ Consumed(u) /\ open' = open
      /\ rev' = [rev EXCEPT ![u] = Head(inbox[u]).revision]
  BY DEF handleAck
<1>2. /\ rev' \in [Users -> Nat] /\ DOMAIN inbox' = Users
      /\ \A v \in Users : IsSeq(inbox'[v]) /\ Streaming(v)'
      /\ \A v \in Users : NoMore(Acks(inbox'[v]), Acks(inbox[v]))
      /\ Acks(inbox[u]) # {} /\ Acks(inbox'[u]) = {}
  BY <1>1, NumberedConsumed
<1>3. /\ IsSeq(buffer[u]) /\ (state[u] = "BUF" <=> buffer[u] # << >>) /\ Flight(u)
      /\ DOMAIN pending = Users /\ DOMAIN buffer = Users
  BY DEF CollabInv, Shape, ControllerStates
<1>4. OpTasks(u) = {} /\ OpsOf(commands, u) = {} /\ pending[u] # << >>
  BY <1>2, <1>3 DEF Flight
<1>5. /\ ControllerStates' /\ state' \in [Users -> {"SYN", "ACK", "BUF"}]
      /\ DOMAIN pending' = Users /\ DOMAIN buffer' = Users
      /\ \A v \in Users : IsSeq(pending'[v]) /\ IsSeq(buffer'[v])
      /\ \A v \in Users \ {u} : pending'[v] = pending[v]
      /\ \A t \in pool' : IsTask(t) /\ (t.type = "leave" => t \in pool)
      /\ AtMostOne(OpTasks(u)') /\ \A v \in Users \ {u} : OpTasks(v)' = OpTasks(v)
      /\ pending'[u] = << >> => OpTasks(u)' = {}
  <2>1. CASE state[u] = "BUF"
    <3> DEFINE h == <<Head(buffer[u])>>
               r == Tail(buffer[u])
               s == IF r = << >> THEN "ACK" ELSE state[u]
    <3>1. /\ pending' = [pending EXCEPT ![u] = h] /\ buffer' = [buffer EXCEPT ![u] = r]
          /\ state' = [state EXCEPT ![u] = s]
          /\ pool' = pool \cup Sent(u, {OperationTask(u, Head(buffer[u]),
                                                      Head(inbox[u]).revision)})
      BY <2>1 DEF handleAck
    <3>2. IsSeq(h) /\ Len(h) <= 1 /\ h # << >> /\ IsSeq(r)
      BY <1>3, <2>1, SingleShape, TailShape
    <3>3. s \in {"ACK", "BUF"} /\ (s = "BUF" <=> r # << >>)
      BY <2>1
    <3> HIDE DEF h, r, s
    <3>4. /\ DOMAIN pending' = Users /\ DOMAIN buffer' = Users
          /\ pending'[u] = h /\ \A v \in Users \ {u} : pending'[v] = pending[v]
          /\ buffer'[u] = r /\ \A v \in Users \ {u} : buffer'[v] = buffer[v]
      BY <1>3, <3>1
    <3>5. s \in {"SYN", "ACK", "BUF"} /\ (s = "SYN" <=> h = << >>)
      BY <3>2, <3>3
    <3>6. /\ ControllerStates' /\ state' \in [Users -> {"SYN", "ACK", "BUF"}]
          /\ \A v \in Users : IsSeq(pending'[v]) /\ IsSeq(buffer'[v])
      BY <3>1, <3>2, <3>3, <3>4, <3>5, ControllerKept
    <3>7. /\ AtMostOne(OpTasks(u)')
          /\ \A v \in Users \ {u} : OpTasks(v)' = OpTasks(v)
          /\ \A t \in pool' : IsTask(t) /\ (t.type = "leave" => t \in pool)
      BY <1>4, <3>1, SendOp
    <3> QED
      BY <3>2, <3>4, <3>6, <3>7
  <2>2. CASE state[u] # "BUF"
    <3>1. /\ pending' = [pending EXCEPT ![u] = << >>] /\ state' = [state EXCEPT ![u] = "SYN"]
          /\ buffer' = buffer /\ pool' = pool
      BY <2>2 DEF handleAck
    <3>2. /\ DOMAIN pending' = Users /\ DOMAIN buffer' = Users
          /\ pending'[u] = << >> /\ \A v \in Users \ {u} : pending'[v] = pending[v]
          /\ buffer'[u] = buffer[u] /\ buffer[u] = << >>
      BY <1>3, <2>2, <3>1
    <3>3. /\ ControllerStates' /\ state' \in [Users -> {"SYN", "ACK", "BUF"}]
          /\ \A v \in Users : IsSeq(pending'[v]) /\ IsSeq(buffer'[v])
      <4>1. IsSeq(<< >>) /\ Len(<< >>) <= 1
        BY EmptyShape
      <4> QED
        BY <1>3, <3>1, <3>2, <4>1, ControllerKept
    <3>4. \A t \in pool' : IsTask(t)
      BY <3>1 DEF CollabInv, Shape
    <3>5. \A v \in Users : OpTasks(v)' = OpTasks(v)
      BY <3>1 DEF OpTasks
    <3> QED
      BY <1>4, <3>1, <3>2, <3>3, <3>4, <3>5 DEF AtMostOne
  <2> QED
    BY <2>1, <2>2
<1>6. Shape'
  BY <1>1, <1>2, <1>5 DEF CollabInv, Shape, IsTask
<1>7. ASSUME NEW v \in Users PROVE Flight(v)' /\ Leaving(v)'
  <2>1. Leaving(v)'
    BY <1>1, <1>5 DEF CollabInv, Leaving, Reaches
  <2>2. CASE v = u
    <3>1. Flight(u)'
      BY <1>2, <1>4, <1>5 DEF Flight, AtMostOne
    <3> QED
      BY <2>1, <2>2, <3>1
  <2>3. CASE v # u
    <3>1. Flight(v) /\ AtMostOne(OpTasks(v)) /\ AtMostOne(OpsOf(commands, v))
      BY DEF CollabInv, Flight
    <3>2. NoMore(OpTasks(v)', OpTasks(v)) /\ NoMore(OpsOf(commands', v), OpsOf(commands, v))
      BY <1>5, <2>3, <3>1 DEF NoMore
    <3>3. Flight(v)'
      BY <1>2, <1>5, <2>3, <3>1, <3>2, FlightKept
    <3> QED
      BY <2>1, <3>3
  <2> QED
    BY <2>2, <2>3
<1> QED
  BY <1>2, <1>5, <1>6, <1>7 DEF CollabInv

LEMMA HandleBroadcastKept ==
    ASSUME CollabInv, NEW u \in Users, inbox[u] # << >>, handleBroadcast(u, Head(inbox[u])),
           UNCHANGED <<linked, disconnected, connected_users, revision, versions, commands>>
    PROVE  CollabInv'
<1>1. /\ Head(inbox[u]).type = "broadcast" /\ Consumed(u)
      /\ UNCHANGED <<open, state, pool>>
      /\ rev' = [rev EXCEPT ![u] = Head(inbox[u]).revision]
  BY DEF handleBroadcast
<1>2. /\ rev' \in [Users -> Nat] /\ DOMAIN inbox' = Users
      /\ \A v \in Users : IsSeq(inbox'[v]) /\ Streaming(v)'
      /\ \A v \in Users : NoMore(Acks(inbox'[v]), Acks(inbox[v]))
  BY <1>1, NumberedConsumed
<1>3. /\ DOMAIN pending = Users /\ DOMAIN buffer = Users
      /\ \A v \in Users : IsSeq(pending[v]) /\ IsSeq(buffer[v])
      /\ Len(pending[u]) \in Nat /\ Len(buffer[u]) \in Nat
  BY EmptyShape DEF CollabInv, Shape
<1>4. PICK p : p = [i \in 1 .. Len(pending[u]) |-> p[i]]
               /\ pending' = [pending EXCEPT ![u] = p]
  BY DEF handleBroadcast
<1>5. PICK b : b = [i \in 1 .. Len(buffer[u]) |-> b[i]]
               /\ buffer' = [buffer EXCEPT ![u] = b]
  BY DEF handleBroadcast
<1>6. IsSeq(p) /\ Len(p) = Len(pending[u]) /\ IsSeq(b) /\ Len(b) = Len(buffer[u])
  BY <1>3, <1>4, <1>5, FunctionShape
<1>7. (p = << >> <=> pending[u] = << >>) /\ (b = << >> <=> buffer[u] = << >>)
  BY <1>3, <1>6, EmptyShape
<1>8. /\ DOMAIN pending' = Users /\ DOMAIN buffer' = Users
      /\ \A v \in Users : /\ pending'[v] = IF v = u THEN p ELSE pending[v]
                          /\ buffer'[v] = IF v = u THEN b ELSE buffer[v]
  BY <1>3, <1>4, <1>5
<1>9. \A v \in Users : /\ IsSeq(pending'[v]) /\ IsSeq(buffer'[v])
                       /\ (pending'[v] = << >> <=> pending[v] = << >>)
                       /\ (buffer'[v] = << >> <=> buffer[v] = << >>)
                       /\ Len(pending'[v]) = Len(pending[v])
  BY <1>3, <1>6, <1>7, <1>8
<1>10. ControllerStates'
  BY <1>1, <1>9 DEF CollabInv, ControllerStates
<1>11. Shape'
  BY <1>1, <1>2, <1>8, <1>9 DEF CollabInv, Shape, IsTask
<1>12. ASSUME NEW v \in Users PROVE Flight(v)' /\ Leaving(v)'
  <2>1. Leaving(v)'
    BY <1>1 DEF CollabInv, Leaving, Reaches
  <2>2. Flight(v) /\ AtMostOne(OpTasks(v)) /\ AtMostOne(OpsOf(commands, v))
    BY DEF CollabInv, Flight
  <2>3. NoMore(OpTasks(v)', OpTasks(v)) /\ NoMore(OpsOf(commands', v), OpsOf(commands, v))
    BY <1>1, <2>2, TasksKept DEF NoMore
  <2>4. Flight(v)'
    BY <1>2, <1>9, <2>2, <2>3, FlightKept
  <2> QED
    BY <2>1, <2>4
<1> QED
  BY <1>2, <1>10, <1>11, <1>12 DEF CollabInv

LEMMA OnNetworkMessageKept ==
    ASSUME CollabInv, NEW u \in Users, onNetworkMessage(u)
    PROVE  CollabInv'
<1> DEFINE m == Head(inbox[u])
<1>1. /\ inbox[u] # << >>
      /\ \/ handleAck(u, m) \/ handleBroadcast(u, m) \/ handleError(u, m)
         \/ handleRoleChanged(u, m) \/ handleUserLeft(u, m)
      /\ UNCHANGED <<linked, disconnected, connected_users, revision, versions, commands>>
  BY DEF onNetworkMessage, docVars, linkVars, sessionVars
<1>2. CASE handleAck(u, m)
  BY <1>1, <1>2, HandleAckKept
<1>3. CASE handleBroadcast(u, m)
  BY <1>1, <1>3, HandleBroadcastKept
<1>4. CASE handleError(u, m)
  <2>1. m.type = "error" /\ UNCHANGED <<state, rev, pending, buffer>>
    BY <1>4 DEF handleError, otVars
  <2>2. CASE m.code = "revision_too_old"
    <3>1. WindowCloses(u) /\ pool' = pool \cup Sent(u, {LeaveTask(u)})
      BY <1>4, <2>2 DEF handleError
    <3> QED
      BY <1>1, <2>1, <3>1, WindowClosesKept
  <2>3. CASE m.code # "revision_too_old"
    <3>1. Consumed(u) /\ UNCHANGED <<open, pool>>
      BY <1>4, <2>3 DEF handleError
    <3> QED
      BY <1>1, <2>1, <3>1, PlainConsumedKept
  <2> QED
    BY <2>2, <2>3
<1>5. CASE handleRoleChanged(u, m) \/ handleUserLeft(u, m)
  <2>1. /\ m.type \in {"role_changed", "user_left"} /\ Consumed(u)
        /\ UNCHANGED <<open, pool, state, rev, pending, buffer>>
    BY <1>5 DEF handleRoleChanged, handleUserLeft, otVars
  <2> QED
    BY <1>1, <2>1, PlainConsumedKept
<1> QED
  BY <1>1, <1>2, <1>3, <1>4, <1>5

-----------------------------------------------------------------------------
(* The theorems *)

LEMMA StepCollab == CollabInv /\ [Next]_vars => CollabInv'
<1> SUFFICES ASSUME CollabInv, [Next]_vars PROVE CollabInv'
  OBVIOUS
<1>1. ASSUME NEW u \in Users, onDisconnected(u) \/ closeEvent(u) PROVE CollabInv'
  <2>1. /\ WindowCloses(u)
        /\ pool' = pool \/ pool' = pool \cup Sent(u, {LeaveTask(u)})
        /\ UNCHANGED <<linked, disconnected, state, rev, pending, buffer,
                       connected_users, revision, versions, commands>>
    BY <1>1 DEF onDisconnected, closeEvent, docVars, otVars, linkVars, sessionVars
  <2> QED
    BY <2>1, WindowClosesKept
<1>2. ASSUME NEW u \in Users,
             \/ onNetworkMessage(u) \/ handle_message(u) \/ on_disconnect(u)
             \/ Edit(u) \/ LoseConnection(u)
      PROVE  CollabInv'
  BY <1>2, OnNetworkMessageKept, HandleMessageKept, OnDisconnectKept, EditKept,
     LoseConnectionKept
<1>3. CASE UNCHANGED vars
  <2>1. UNCHANGED <<open, linked, disconnected, state, rev, pending, buffer, pool,
                    commands, connected_users, revision, versions, inbox>>
    BY <1>3 DEF vars, docVars, clientVars, linkVars, sessionVars
  <2>2. Shape' /\ ControllerStates'
    BY <2>1 DEF CollabInv, Shape, ControllerStates, IsTask
  <2>3. ASSUME NEW u \in Users PROVE Flight(u)' /\ Leaving(u)' /\ Streaming(u)'
    <3>1. Flight(u)'
      BY <2>1 DEF CollabInv, Flight, OpTasks
    <3>2. Leaving(u)' /\ Streaming(u)'
      BY <2>1 DEF CollabInv, Leaving, Streaming, Reaches
    <3> QED
      BY <3>1, <3>2
  <2> QED
    BY <2>2, <2>3 DEF CollabInv
<1> QED
  BY <1>1, <1>2, <1>3, SharingKept, ProcessCommandKept DEF Next, SystemStep, UserStep

LEMMA CollabInvariant == Spec => []CollabInv
  BY InitCollab, StepCollab, PTL DEF Spec

\* In every state of every client's controller the label agrees with what is
\* pending and buffered: handleAck and handleBroadcast never use an empty
\* pending_op_ or the front of an empty buffer_.
THEOREM ControllersAgree == Spec => []ControllerStates
<1>1. CollabInv => ControllerStates
  BY DEF CollabInv
<1> QED
  BY <1>1, CollabInvariant, PTL

\* A connected client is sent every revision after its own exactly once and in
\* order, whatever is committed, closed, shared or lost meanwhile.
THEOREM NoRevisionMissed == Spec => []NoGaps
<1>1. CollabInv => NoGaps
  <2> SUFFICES ASSUME CollabInv, NEW u \in Users, Reaches(u)
               PROVE  /\ \A i, j \in Numbered(inbox[u]) :
                            i < j => inbox[u][i].revision < inbox[u][j].revision
                      /\ {inbox[u][i].revision : i \in Numbered(inbox[u])} = rev[u] + 1 .. revision
    BY DEF NoGaps
  <2>1. Stream(inbox[u], rev[u], revision) /\ Full(inbox[u], rev[u], revision)
    BY DEF CollabInv, Streaming
  <2> QED
    BY <2>1 DEF Stream, Full
<1> QED
  BY <1>1, CollabInvariant, PTL

\* A client has at most one operation between sendOp and its acknowledgement,
\* and none when nothing is pending.
THEOREM AtMostOneInFlight == Spec => []OneInFlight
<1>1. ASSUME NEW S, AtMostOne(S)
      PROVE  Cardinality(S) \in 0 .. 1 /\ (S = {} <=> Cardinality(S) = 0)
  <2>1. CASE S = {}
    BY <2>1, FS_EmptySet
  <2>2. CASE S # {}
    <3>1. PICK x : S = {x}
      BY <1>1, <2>2 DEF AtMostOne
    <3>2. Cardinality({x}) = 1
      BY FS_Singleton
    <3> QED
      BY <2>2, <3>1, <3>2
  <2> QED
    BY <2>1, <2>2
<1>2. CollabInv => OneInFlight
  <2> SUFFICES ASSUME CollabInv, NEW u \in Users
               PROVE  Cardinality(OpTasks(u)) + Cardinality(OpsOf(commands, u))
                         + Cardinality(Acks(inbox[u])) <= Len(pending[u])
    BY DEF OneInFlight, OpTasks, OpsOf, Acks
  <2>1. Flight(u) /\ IsSeq(pending[u])
    BY DEF CollabInv, Shape
  <2>2. Len(pending[u]) \in Nat /\ (Len(pending[u]) = 0 <=> pending[u] = << >>)
    BY <2>1, EmptyShape
  <2>3. /\ Cardinality(OpTasks(u)) \in 0 .. 1
        /\ OpTasks(u) = {} <=> Cardinality(OpTasks(u)) = 0
    BY <1>1, <2>1 DEF Flight
  <2>4. /\ Cardinality(OpsOf(commands, u)) \in 0 .. 1
        /\ OpsOf(commands, u) = {} <=> Cardinality(OpsOf(commands, u)) = 0
    BY <1>1, <2>1 DEF Flight
  <2>5. /\ Cardinality(Acks(inbox[u])) \in 0 .. 1
        /\ Acks(inbox[u]) = {} <=> Cardinality(Acks(inbox[u])) = 0
    BY <1>1, <2>1 DEF Flight
  <2> QED
    BY <2>1, <2>2, <2>3, <2>4, <2>5 DEF Flight
<1> QED
  BY <1>2, CollabInvariant, PTL

\* The system implements SharedLog: the server's versions only grow, and every
\* acknowledgement or broadcast a client handles takes it to the next version,
\* never past the last one.
THEOREM SystemImplementsSharedLog == Spec => ImplementsSharedLog
<1>1. Init => Log!Init
  BY DEF Init, DocInit, Log!Init
<1>2. CollabInv /\ [Next]_vars => [Log!Next]_Log!vars
  <2> SUFFICES ASSUME CollabInv, [Next]_vars PROVE Log!Next \/ UNCHANGED <<versions, rev>>
    BY DEF Log!vars
  <2>1. IsSeq(versions) /\ Len(versions) = revision + 1 /\ revision \in Nat
        /\ rev \in [Users -> Nat]
    BY DEF CollabInv, Shape
  <2>2. ASSUME NEW u \in Users, onNetworkMessage(u) PROVE Log!Next \/ UNCHANGED <<versions, rev>>
    <3> DEFINE m == Head(inbox[u])
    <3>1. /\ inbox[u] # << >> /\ UNCHANGED <<linked, disconnected, revision, versions>>
          /\ \/ handleAck(u, m) \/ handleBroadcast(u, m) \/ handleError(u, m)
             \/ handleRoleChanged(u, m) \/ handleUserLeft(u, m)
      BY <2>2 DEF onNetworkMessage, docVars, linkVars
    <3>2. CASE handleAck(u, m) \/ handleBroadcast(u, m)
      <4>1. /\ m.type \in {"ack", "broadcast"} /\ Consumed(u) /\ open' = open
            /\ rev' = [rev EXCEPT ![u] = m.revision]
        BY <3>2 DEF handleAck, handleBroadcast
      <4>2. rev' = [rev EXCEPT ![u] = rev[u] + 1] /\ rev[u] < revision
        BY <3>1, <4>1, NumberedConsumed
      <4>3. Log!Observe(u)
        BY <2>1, <3>1, <4>2 DEF Log!Observe
      <4> QED
        BY <4>3 DEF Log!Next
    <3>3. CASE handleError(u, m) \/ handleRoleChanged(u, m) \/ handleUserLeft(u, m)
      BY <3>1, <3>3 DEF handleError, handleRoleChanged, handleUserLeft, otVars
    <3> QED
      BY <3>1, <3>2, <3>3
  <2>3. CASE process_command
    <3>1. rev' = rev
      BY <2>3 DEF process_command, clientVars
    <3>2. versions' = versions \/ \E x : versions' = Append(versions, x)
      BY <2>3 DEF process_command, session_handle_operation, session_handle_leave,
                  apply_with_ot, refuse_op, textVars
    <3>3. ASSUME NEW x, versions' = Append(versions, x) PROVE Log!Commit
      BY <2>1, <3>1, <3>3, AppendShape DEF Log!Commit
    <3> QED
      BY <3>1, <3>2, <3>3 DEF Log!Next
  <2>4. ASSUME NEW u \in Users,
               \/ onDisconnected(u) \/ handle_message(u) \/ on_disconnect(u) \/ Edit(u)
               \/ closeEvent(u) \/ LoseConnection(u)
               \/ \E r \in {"editor", "viewer", "none"} : handle_doc_share(u, r)
        PROVE  UNCHANGED <<versions, rev>>
    BY <2>4 DEF onDisconnected, handle_message, on_disconnect, Edit, onLocalOperations,
                closeEvent, LoseConnection, handle_doc_share, docVars, clientVars, otVars
  <2>5. ASSUME NEW n \in notices, announce_role(n) PROVE UNCHANGED <<versions, rev>>
    BY <2>5 DEF announce_role, docVars, clientVars
  <2>6. CASE UNCHANGED vars
    BY <2>6 DEF vars, docVars, clientVars
  <2> QED
    BY <2>2, <2>3, <2>4, <2>5, <2>6 DEF Next, SystemStep, UserStep
<1> QED
  BY <1>1, <1>2, CollabInvariant, PTL DEF Spec, ImplementsSharedLog, Log!Spec
=============================================================================
