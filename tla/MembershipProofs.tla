-------------------------- MODULE MembershipProofs --------------------------
(***************************************************************************)
(* OnlyHoleIsTheJoin for every number of users, documents and requests:    *)
(* what an open editor window misses of its document is what was committed *)
(* between the reading of its text and the registration of its user.       *)
(*                                                                         *)
(* The argument is about one user u and one document d at a time.  A visit *)
(* is first a request whose handler has read the text (Reading), then an   *)
(* answer on its way (Answering), then a window (Showing).  From the       *)
(* answer on, View says which revisions the text and the messages behind   *)
(* the answer hold, where the Join of the visit is and where its operation *)
(* is, of which there is one at most: its acknowledgement finds the window *)
(* waiting.  The parts of the state of u and d are parameters, so that the *)
(* lemmas about them are free of actions; the second half of the module    *)
(* says which of them each action is.                                      *)
(***************************************************************************)
EXTENDS Membership, SequenceFacts, FiniteSetTheorems, TLAPS

-----------------------------------------------------------------------------
(* The invariant *)

\* Requests of u that register or drop u for d, and operations for d.
RegTask(t, d) == t.type \in {"doc_join_request", "doc_leave_request"} /\ t.doc = d
OpTask(t, d) == t.type = "operation" /\ t.doc = d
Answer(m, d) == m.type = "doc_join_response" /\ m.doc = d
IsAck(m, d) == m.type = "operation_ack" /\ m.doc = d
RegCommand(c, u) == c.type \in {"Join", "Leave"} /\ c.user = u
OpCommand(c, u) == c.type = "Operation" /\ c.user = u

\* Where the registration of u for d is: in the task that has answered, in the
\* queue, or done with.
RegStage(u, d, stage, tsk, q) ==
    /\ \A i \in DOMAIN tsk : RegTask(tsk[i], d) =>
          /\ tsk[i].type = "doc_join_request" /\ tsk[i].pc = "answered"
          /\ stage = "task"
    /\ \A i, j \in DOMAIN tsk : RegTask(tsk[i], d) /\ RegTask(tsk[j], d) => i = j
    /\ \A k \in DOMAIN q : RegCommand(q[k], u) => q[k].type = "Join" /\ stage = "queued"
    /\ \A k, l \in DOMAIN q : RegCommand(q[k], u) /\ RegCommand(q[l], u) => k = l

\* Where the operation of u on d is: in a task, in the queue, committed and
\* about to be acknowledged, or acknowledged by a message behind the first
\* from of the box.
OpStage(u, d, stage, from, tsk, q, ann, conn, box) ==
    /\ \A i \in DOMAIN tsk : OpTask(tsk[i], d) => stage = "task"
    /\ \A i, j \in DOMAIN tsk : OpTask(tsk[i], d) /\ OpTask(tsk[j], d) => i = j
    /\ \A k \in DOMAIN q : OpCommand(q[k], u) => stage = "queued"
    /\ \A k, l \in DOMAIN q : OpCommand(q[k], u) /\ OpCommand(q[l], u) => k = l
    /\ u \in ann /\ u \in conn => stage = "announced"
    /\ \A k \in DOMAIN box : k > from /\ IsAck(box[k], d) => stage = "acked"
    /\ \A k, l \in DOMAIN box :
          k > from /\ l > from /\ IsAck(box[k], d) /\ IsAck(box[l], d) => k = l

\* The text holds the first revisions and what was sent since, in order; the
\* rest of what was committed since the registration is on its way.
Text(u, d, text, opened, from, ann, conn, rev, snc, box) ==
    /\ text \in Seq(Nat) /\ opened \in 0 .. Len(text)
    /\ \A i \in 1 .. opened : text[i] = i
    /\ \A i, j \in 1 .. Len(text) : i < j => text[i] < text[j]
    /\ \A i \in 1 .. Len(text) : text[i] <= rev
    /\ \A i \in 1 .. Len(text) : \A k \in DOMAIN box :
          k > from /\ IsOperation(box[k], d) => text[i] < box[k].rev
    /\ u \in conn =>
          /\ ann # {} => snc < rev /\ \A i \in 1 .. Len(text) : text[i] < rev
          /\ snc \in Nat /\ opened <= snc /\ snc <= rev
          /\ \A i \in opened + 1 .. Len(text) : text[i] > snc
          /\ \A k \in DOMAIN box : k > from /\ IsOperation(box[k], d) => box[k].rev > snc
          /\ \A r \in snc + 1 .. rev :
                \/ \E i \in 1 .. Len(text) : text[i] = r
                \/ \E k \in DOMAIN box : k > from /\ IsOperation(box[k], d) /\ box[k].rev = r
                \/ r = rev /\ ann # {}

\* Until the Join is handled nothing is sent.
Unregistered(u, d, text, opened, from, conn, box) ==
    /\ u \notin conn /\ Len(text) = opened
    /\ \A k \in DOMAIN box : k > from => ~ IsOperation(box[k], d)

View(u, d, text, opened, busy, from, tsk, q, ann, conn, rev, snc, box) ==
    /\ Text(u, d, text, opened, from, ann, conn, rev, snc, box)
    /\ \E stage \in {"task", "queued", "done"} :
          /\ RegStage(u, d, stage, tsk, q)
          /\ stage # "done" => Unregistered(u, d, text, opened, from, conn, box)
    /\ \E stage \in {"none", "task", "queued", "announced", "acked"} :
          /\ OpStage(u, d, stage, from, tsk, q, ann, conn, box)
          /\ ~ busy => stage = "none"

Reading(u, d, n, wins, tsk, q, conn, box) ==
    \A i \in DOMAIN tsk :
        /\ tsk[i].type = "doc_join_request" /\ tsk[i].doc = d /\ tsk[i].pc = "read"
        /\ tsk[i].fresh /\ tsk[i].n = n
        => /\ \A j \in DOMAIN tsk : RegTask(tsk[j], d) \/ OpTask(tsk[j], d) => j = i
           /\ \A k \in DOMAIN q : ~ RegCommand(q[k], u) /\ ~ OpCommand(q[k], u)
           /\ u \notin conn
           /\ \A w \in wins : w.doc # d
           /\ \A k \in DOMAIN box : ~ Answer(box[k], d)

Answering(u, d, n, wins, tsk, q, ann, conn, rev, snc, box) ==
    \A k \in DOMAIN box :
        Answer(box[k], d) /\ box[k].fresh /\ box[k].n = n =>
            /\ \A w \in wins : w.doc # d
            /\ \A l \in DOMAIN box : Answer(box[l], d) => l = k
            /\ View(u, d, box[k].text, Len(box[k].text), FALSE, k, tsk, q, ann, conn, rev, snc, box)

Showing(u, d, n, wins, tsk, q, ann, conn, rev, snc, box) ==
    \A w \in wins :
        w.doc = d /\ w.fresh /\ w.n = n =>
            /\ \A x \in wins : x.doc = d => x = w
            /\ \A k \in DOMAIN box : ~ Answer(box[k], d)
            /\ View(u, d, w.text, w.opened, w.busy, 0, tsk, q, ann, conn, rev, snc, box)

\* What is asked of a visit is numbered by the count of the client.
Numbered(d, n, wins, tsk, box) ==
    /\ n \in Nat
    /\ \A i \in DOMAIN tsk : RegTask(tsk[i], d) => tsk[i].n \in Nat /\ tsk[i].n <= n
    /\ \A k \in DOMAIN box : Answer(box[k], d) => box[k].n \in Nat /\ box[k].n <= n
    /\ \A w \in wins : w.doc = d => w.n \in Nat /\ w.n <= n

\* The operations on their way are in the order of their revisions.
Ordered(u, d, ann, rev, box) ==
    /\ rev \in Nat
    /\ \A k \in DOMAIN box : IsOperation(box[k], d) =>
          /\ box[k].rev \in Nat /\ box[k].rev <= rev /\ (ann # {} => box[k].rev < rev)
          /\ "doc" \in DOMAIN box[k]
          /\ box[k].type = "operation_broadcast" => box[k].user # u
    /\ \A k, l \in DOMAIN box :
          IsOperation(box[k], d) /\ IsOperation(box[l], d) /\ k < l => box[k].rev < box[l].rev

\* What has been read of a document is its text at some revision.
ReadTexts(d, tsk, rev, box) ==
    /\ \A i \in DOMAIN tsk :
          tsk[i].type = "doc_join_request" /\ tsk[i].doc = d /\ tsk[i].pc = "read" =>
             \E k \in 0 .. rev : tsk[i].text = Upto(k)
    /\ \A i \in DOMAIN box : Answer(box[i], d) => \E k \in 0 .. rev : box[i].text = Upto(k)

Visit(u, d, n, wins, tsk, q, ann, conn, rev, snc, box) ==
    /\ Numbered(d, n, wins, tsk, box) /\ Ordered(u, d, ann, rev, box)
    /\ ReadTexts(d, tsk, rev, box)
    /\ Reading(u, d, n, wins, tsk, q, conn, box)
    /\ Answering(u, d, n, wins, tsk, q, ann, conn, rev, snc, box)
    /\ Showing(u, d, n, wins, tsk, q, ann, conn, rev, snc, box)

VisitOf(u, d) ==
    Visit(u, d, app[u].asked[d], app[u].windows, tasks[u], queue[d], announce[d],
          connected_users[d], revision[d], since[d][u], inbox[u])

\* The fields that EXCEPT changes are there.
IsRequest(t) ==
    {"type", "doc", "target", "n", "pc", "text", "fresh", "role"} \subseteq DOMAIN t
IsWindow(w) ==
    {"doc", "text", "rev", "role", "busy", "cursor_dirty", "panel", "cursors", "opened",
     "n", "fresh"} \subseteq DOMAIN w
IsClient(c) ==
    {"list", "pending", "visible", "windows", "asked", "out"} \subseteq DOMAIN c

\* The windows, the requests and the messages of one user.
GoodWindows(wins) == IsFiniteSet(wins) /\ \A w \in wins : IsWindow(w) /\ w.doc \in Docs
GoodTasks(tsk) ==
    /\ IsSeq(tsk)
    /\ \A i \in DOMAIN tsk :
          /\ IsRequest(tsk[i])
          /\ tsk[i].type = "doc_join_request" /\ tsk[i].pc # "received" => tsk[i].doc \in Docs
GoodBox(box) ==
    /\ IsSeq(box)
    /\ \A k \in DOMAIN box :
          box[k].type = "doc_join_response" /\ box[k].success => box[k].doc \in Docs
GoodQueue(q) ==
    IsSeq(q) /\ \A k \in DOMAIN q : q[k].type \in {"Join", "Leave", "Operation", "Delete"}

UserShape(c, tsk, box) ==
    /\ IsClient(c) /\ DOMAIN c.asked = Docs /\ c.out = << >>
    /\ GoodWindows(c.windows) /\ GoodTasks(tsk) /\ GoodBox(box)

Shape ==
    /\ DOMAIN app = Users /\ DOMAIN tasks = Users /\ DOMAIN inbox = Users /\ DOMAIN link = Users
    /\ DOMAIN queue = Docs /\ DOMAIN announce = Docs /\ DOMAIN connected_users = Docs
    /\ DOMAIN revision = Docs /\ DOMAIN since = Docs
    /\ \A d \in Docs : GoodQueue(queue[d]) /\ DOMAIN since[d] = Users
    /\ \A u \in Users : UserShape(app[u], tasks[u], inbox[u])
    /\ documents \subseteq Docs

VisitsInv == \A u \in Users, d \in Docs : link[u] = "up" => VisitOf(u, d)

\* Who has lost the connection has no windows and is sent nothing.
GoneInv == \A u \in Users : link[u] # "up" => app[u].windows = {} /\ inbox[u] = << >>

IndInv == Shape /\ GoneInv /\ VisitsInv

-----------------------------------------------------------------------------
(* What does not matter to the visit of u to d: requests, commands and      *)
(* messages that come or go without touching u's registration for d or the  *)
(* operations on d, and windows of other documents.                         *)

TaskEmbeds(new, old, d) ==
    \E f : \A i \in DOMAIN new : RegTask(new[i], d) \/ OpTask(new[i], d) =>
        /\ f[i] \in DOMAIN old /\ new[i] = old[f[i]]
        /\ \A j \in DOMAIN new :
              (RegTask(new[j], d) \/ OpTask(new[j], d)) /\ f[i] = f[j] => i = j

CommandEmbeds(new, old, u) ==
    \E f : \A i \in DOMAIN new : RegCommand(new[i], u) \/ OpCommand(new[i], u) =>
        /\ f[i] \in DOMAIN old /\ new[i] = old[f[i]]
        /\ \A j \in DOMAIN new :
              (RegCommand(new[j], u) \/ OpCommand(new[j], u)) /\ f[i] = f[j] => i = j

BoxGrows(new, old, d) ==
    /\ \A k \in DOMAIN old : k \in DOMAIN new /\ new[k] = old[k]
    /\ \A k \in DOMAIN new : k \notin DOMAIN old => ~ IsOperation(new[k], d) /\ ~ Answer(new[k], d)

WindowsEmbed(new, old, d) ==
    \E f : \A w \in new : w.doc = d =>
        /\ f[w] \in old /\ f[w].doc = d /\ f[w].n = w.n /\ f[w].fresh = w.fresh
        /\ f[w].text = w.text /\ f[w].opened = w.opened /\ f[w].busy = w.busy
        /\ \A x \in new : x.doc = d /\ f[x] = f[w] => x = w

LEMMA RegStageEmbeds ==
    ASSUME NEW u, NEW d, NEW stage, NEW tsk, NEW q, RegStage(u, d, stage, tsk, q),
           NEW tsk2, NEW q2, TaskEmbeds(tsk2, tsk, d), CommandEmbeds(q2, q, u)
    PROVE  RegStage(u, d, stage, tsk2, q2)
<1>1. PICK f : \A i \in DOMAIN tsk2 : RegTask(tsk2[i], d) \/ OpTask(tsk2[i], d) =>
        /\ f[i] \in DOMAIN tsk /\ tsk2[i] = tsk[f[i]]
        /\ \A j \in DOMAIN tsk2 :
              (RegTask(tsk2[j], d) \/ OpTask(tsk2[j], d)) /\ f[i] = f[j] => i = j
  BY DEF TaskEmbeds
<1>2. PICK g : \A i \in DOMAIN q2 : RegCommand(q2[i], u) \/ OpCommand(q2[i], u) =>
        /\ g[i] \in DOMAIN q /\ q2[i] = q[g[i]]
        /\ \A j \in DOMAIN q2 :
              (RegCommand(q2[j], u) \/ OpCommand(q2[j], u)) /\ g[i] = g[j] => i = j
  BY DEF CommandEmbeds
<1> QED
  BY <1>1, <1>2 DEF RegStage

LEMMA OpStageEmbeds ==
    ASSUME NEW u, NEW d, NEW stage, NEW from, NEW tsk, NEW q, NEW ann, NEW conn, NEW box,
           OpStage(u, d, stage, from, tsk, q, ann, conn, box),
           NEW tsk2, NEW q2, NEW conn2, NEW box2,
           TaskEmbeds(tsk2, tsk, d), CommandEmbeds(q2, q, u), BoxGrows(box2, box, d),
           u \in conn2 => u \in conn
    PROVE  OpStage(u, d, stage, from, tsk2, q2, ann, conn2, box2)
<1>1. PICK f : \A i \in DOMAIN tsk2 : RegTask(tsk2[i], d) \/ OpTask(tsk2[i], d) =>
        /\ f[i] \in DOMAIN tsk /\ tsk2[i] = tsk[f[i]]
        /\ \A j \in DOMAIN tsk2 :
              (RegTask(tsk2[j], d) \/ OpTask(tsk2[j], d)) /\ f[i] = f[j] => i = j
  BY DEF TaskEmbeds
<1>2. PICK g : \A i \in DOMAIN q2 : RegCommand(q2[i], u) \/ OpCommand(q2[i], u) =>
        /\ g[i] \in DOMAIN q /\ q2[i] = q[g[i]]
        /\ \A j \in DOMAIN q2 :
              (RegCommand(q2[j], u) \/ OpCommand(q2[j], u)) /\ g[i] = g[j] => i = j
  BY DEF CommandEmbeds
<1>3. \A k \in DOMAIN box2 : IsAck(box2[k], d) => k \in DOMAIN box /\ box2[k] = box[k]
  BY DEF BoxGrows, IsAck, IsOperation
<1> QED
  BY <1>1, <1>2, <1>3 DEF OpStage

LEMMA TextEmbeds ==
    ASSUME NEW u, NEW d, NEW text, NEW opened, NEW from, NEW ann, NEW conn, NEW rev, NEW snc,
           NEW box, Text(u, d, text, opened, from, ann, conn, rev, snc, box),
           NEW conn2, NEW box2, BoxGrows(box2, box, d), u \in conn2 => u \in conn
    PROVE  Text(u, d, text, opened, from, ann, conn2, rev, snc, box2)
<1>1. /\ \A k \in DOMAIN box2 : IsOperation(box2[k], d) => k \in DOMAIN box /\ box2[k] = box[k]
      /\ \A k \in DOMAIN box : k \in DOMAIN box2 /\ box2[k] = box[k]
  BY DEF BoxGrows
<1> QED
  BY <1>1 DEF Text

LEMMA ViewEmbeds ==
    ASSUME NEW u, NEW d, NEW text, NEW opened, NEW busy, NEW from, NEW tsk, NEW q, NEW ann,
           NEW conn, NEW rev, NEW snc, NEW box,
           View(u, d, text, opened, busy, from, tsk, q, ann, conn, rev, snc, box),
           NEW tsk2, NEW q2, NEW conn2, NEW box2,
           TaskEmbeds(tsk2, tsk, d), CommandEmbeds(q2, q, u), BoxGrows(box2, box, d),
           u \in conn2 => u \in conn
    PROVE  View(u, d, text, opened, busy, from, tsk2, q2, ann, conn2, rev, snc, box2)
<1>1. Text(u, d, text, opened, from, ann, conn2, rev, snc, box2)
  BY TextEmbeds DEF View
<1>2. PICK stage \in {"task", "queued", "done"} :
        /\ RegStage(u, d, stage, tsk, q)
        /\ stage # "done" => Unregistered(u, d, text, opened, from, conn, box)
  BY DEF View
<1>3. RegStage(u, d, stage, tsk2, q2)
  BY <1>2, RegStageEmbeds
<1>4. stage # "done" => Unregistered(u, d, text, opened, from, conn2, box2)
  BY <1>2 DEF Unregistered, BoxGrows
<1>5. PICK op \in {"none", "task", "queued", "announced", "acked"} :
        OpStage(u, d, op, from, tsk, q, ann, conn, box) /\ (~ busy => op = "none")
  BY DEF View
<1>6. OpStage(u, d, op, from, tsk2, q2, ann, conn2, box2)
  BY <1>5, OpStageEmbeds
<1> QED
  BY <1>1, <1>2, <1>3, <1>4, <1>5, <1>6 DEF View

LEMMA VisitEmbeds ==
    ASSUME NEW u, NEW d, NEW n, NEW wins, NEW tsk, NEW q, NEW ann, NEW conn, NEW rev, NEW snc,
           NEW box, Visit(u, d, n, wins, tsk, q, ann, conn, rev, snc, box),
           NEW wins2, NEW tsk2, NEW q2, NEW conn2, NEW box2,
           WindowsEmbed(wins2, wins, d), TaskEmbeds(tsk2, tsk, d), CommandEmbeds(q2, q, u),
           BoxGrows(box2, box, d), u \in conn2 => u \in conn
    PROVE  Visit(u, d, n, wins2, tsk2, q2, ann, conn2, rev, snc, box2)
<1>1. PICK f : \A i \in DOMAIN tsk2 : RegTask(tsk2[i], d) \/ OpTask(tsk2[i], d) =>
        /\ f[i] \in DOMAIN tsk /\ tsk2[i] = tsk[f[i]]
        /\ \A j \in DOMAIN tsk2 :
              (RegTask(tsk2[j], d) \/ OpTask(tsk2[j], d)) /\ f[i] = f[j] => i = j
  BY DEF TaskEmbeds
<1>2. PICK g : \A i \in DOMAIN q2 : RegCommand(q2[i], u) \/ OpCommand(q2[i], u) =>
        g[i] \in DOMAIN q /\ q2[i] = q[g[i]]
  BY DEF CommandEmbeds
<1>3. PICK h : \A w \in wins2 : w.doc = d =>
        /\ h[w] \in wins /\ h[w].doc = d /\ h[w].n = w.n /\ h[w].fresh = w.fresh
        /\ h[w].text = w.text /\ h[w].opened = w.opened /\ h[w].busy = w.busy
        /\ \A x \in wins2 : x.doc = d /\ h[x] = h[w] => x = w
  BY DEF WindowsEmbed
<1>4. /\ \A k \in DOMAIN box2 : IsOperation(box2[k], d) \/ Answer(box2[k], d)
                                  => k \in DOMAIN box /\ box2[k] = box[k]
      /\ \A k \in DOMAIN box : k \in DOMAIN box2 /\ box2[k] = box[k]
  BY DEF BoxGrows
<1>5. Numbered(d, n, wins2, tsk2, box2)
  BY <1>1, <1>3, <1>4 DEF Visit, Numbered
<1>6. Ordered(u, d, ann, rev, box2)
  BY <1>4 DEF Visit, Ordered
<1>7. ReadTexts(d, tsk2, rev, box2)
  BY <1>1, <1>4 DEF Visit, ReadTexts, RegTask
<1>8. Reading(u, d, n, wins2, tsk2, q2, conn2, box2)
  BY <1>1, <1>2, <1>3, <1>4 DEF Visit, Reading, RegTask
<1>9. Answering(u, d, n, wins2, tsk2, q2, ann, conn2, rev, snc, box2)
  <2> SUFFICES ASSUME NEW k \in DOMAIN box2, Answer(box2[k], d), box2[k].fresh, box2[k].n = n
               PROVE  /\ \A w \in wins2 : w.doc # d
                      /\ \A l \in DOMAIN box2 : Answer(box2[l], d) => l = k
                      /\ View(u, d, box2[k].text, Len(box2[k].text), FALSE, k, tsk2, q2, ann,
                              conn2, rev, snc, box2)
    BY DEF Answering
  <2>1. /\ k \in DOMAIN box /\ box2[k] = box[k]
        /\ \A w \in wins : w.doc # d
        /\ \A l \in DOMAIN box : Answer(box[l], d) => l = k
        /\ View(u, d, box[k].text, Len(box[k].text), FALSE, k, tsk, q, ann, conn, rev, snc, box)
    BY <1>4 DEF Visit, Answering
  <2>2. View(u, d, box2[k].text, Len(box2[k].text), FALSE, k, tsk2, q2, ann, conn2, rev, snc, box2)
    BY <2>1, ViewEmbeds
  <2> QED
    BY <1>3, <1>4, <2>1, <2>2
<1>10. Showing(u, d, n, wins2, tsk2, q2, ann, conn2, rev, snc, box2)
  <2> SUFFICES ASSUME NEW w \in wins2, w.doc = d, w.fresh, w.n = n
               PROVE  /\ \A x \in wins2 : x.doc = d => x = w
                      /\ \A k \in DOMAIN box2 : ~ Answer(box2[k], d)
                      /\ View(u, d, w.text, w.opened, w.busy, 0, tsk2, q2, ann, conn2, rev, snc,
                              box2)
    BY DEF Showing
  <2>1. /\ \A x \in wins : x.doc = d => x = h[w]
        /\ \A k \in DOMAIN box : ~ Answer(box[k], d)
        /\ View(u, d, w.text, w.opened, w.busy, 0, tsk, q, ann, conn, rev, snc, box)
    BY <1>3 DEF Visit, Showing
  <2>2. View(u, d, w.text, w.opened, w.busy, 0, tsk2, q2, ann, conn2, rev, snc, box2)
    BY <2>1, ViewEmbeds
  <2> QED
    BY <1>3, <1>4, <2>1, <2>2
<1> QED
  BY <1>5, <1>6, <1>7, <1>8, <1>9, <1>10 DEF Visit

-----------------------------------------------------------------------------
(* How sequences change *)

\* A sequence without its element at i.
LEMMA RemoveAtShape ==
    ASSUME NEW s, IsSeq(s), NEW i \in DOMAIN s
    PROVE  /\ IsSeq(RemoveAt(s, i))
           /\ \A j \in DOMAIN RemoveAt(s, i) :
                 /\ (IF j < i THEN j ELSE j + 1) \in DOMAIN s
                 /\ RemoveAt(s, i)[j] = s[IF j < i THEN j ELSE j + 1]
                 /\ j \in Nat
<1> DEFINE l == SubSeq(s, 1, i - 1)
           r == SubSeq(s, i + 1, Len(s))
<1>1. Len(s) \in Nat /\ DOMAIN s = 1 .. Len(s) /\ i \in 1 .. Len(s)
  BY DomainShape
<1>2. i - 1 \in 0 .. Len(s) /\ i \in Nat /\ i <= Len(s)
  BY <1>1
<1>3. IsSeq(l) /\ Len(l) = i - 1 /\ \A j \in 1 .. i - 1 : l[j] = s[j]
  BY <1>2, PrefixShape
<1>4. IsSeq(r) /\ Len(r) = Len(s) - i /\ \A j \in 1 .. Len(s) - i : r[j] = s[i + j]
  BY <1>2, SuffixShape
<1> HIDE DEF l, r
<1>9. PICK c : IsConcat(c, l, r) /\ Joins(c, l, r)
  BY <1>3, <1>4, ConcatNamed
<1>5. /\ IsSeq(c) /\ Len(c) = Len(l) + Len(r)
      /\ \A j \in 1 .. Len(l) : c[j] = l[j]
      /\ \A j \in 1 .. Len(r) : c[Len(l) + j] = r[j]
  BY <1>9 DEF Joins
<1>6. DOMAIN c = 1 .. Len(s) - 1
  <2>1. IsSeq(c) /\ Len(c) = Len(s) - 1
    BY <1>1, <1>3, <1>4, <1>5
  <2> QED
    BY <2>1, DomainShape
<1>7. ASSUME NEW j \in 1 .. Len(s) - 1
      PROVE  /\ (IF j < i THEN j ELSE j + 1) \in 1 .. Len(s)
             /\ c[j] = s[IF j < i THEN j ELSE j + 1] /\ j \in Nat
  <2>1. CASE j < i
    BY <1>1, <1>3, <1>5, <2>1
  <2>2. CASE ~ (j < i)
    <3>1. j - i + 1 \in 1 .. Len(s) - i /\ i - 1 + (j - i + 1) = j /\ i + (j - i + 1) = j + 1
      BY <1>1, <2>2
    <3>2. c[i - 1 + (j - i + 1)] = r[j - i + 1] /\ r[j - i + 1] = s[i + (j - i + 1)]
      BY <1>3, <1>4, <1>5, <3>1
    <3>3. c[j] = s[j + 1]
      BY <3>1, <3>2
    <3> QED
      BY <1>1, <2>2, <3>3
  <2> QED
    BY <2>1, <2>2
<1>8. RemoveAt(s, i) = c
  BY <1>9 DEF RemoveAt, l, r, IsConcat
<1> QED
  BY <1>1, <1>5, <1>6, <1>7, <1>8

LEMMA SameTasks == ASSUME NEW s, NEW d PROVE TaskEmbeds(s, s, d)
<1>1. \A i \in DOMAIN s : [j \in DOMAIN s |-> j][i] = i
  OBVIOUS
<1> QED
  BY <1>1 DEF TaskEmbeds

LEMMA SameCommands == ASSUME NEW s, NEW u PROVE CommandEmbeds(s, s, u)
<1>1. \A i \in DOMAIN s : [j \in DOMAIN s |-> j][i] = i
  OBVIOUS
<1> QED
  BY <1>1 DEF CommandEmbeds

LEMMA SameBox == ASSUME NEW s, NEW d PROVE BoxGrows(s, s, d)
  BY DEF BoxGrows

LEMMA FewerWindows ==
    ASSUME NEW wins, NEW less, less \subseteq wins, NEW d
    PROVE  WindowsEmbed(less, wins, d)
<1> DEFINE f == [x \in less |-> x]
<1>1. \A w \in less : f[w] = w
  OBVIOUS
<1> HIDE DEF f
<1> QED
  BY <1>1 DEF WindowsEmbed

\* Requests that are not about the visit are appended.
LEMMA MoreTasks ==
    ASSUME NEW s, IsSeq(s), NEW out, IsSeq(out), NEW d,
           \A i \in DOMAIN out : ~ RegTask(out[i], d) /\ ~ OpTask(out[i], d)
    PROVE  TaskEmbeds(s \o out, s, d)
<1> DEFINE f == [j \in DOMAIN s |-> j]
<1>1. /\ Len(s) \in Nat /\ Len(out) \in Nat /\ DOMAIN s = 1 .. Len(s)
      /\ DOMAIN out = 1 .. Len(out)
  BY DomainShape
<1>8. PICK c : IsConcat(c, s, out) /\ Joins(c, s, out)
  BY ConcatNamed
<1>2. /\ IsSeq(c) /\ Len(c) = Len(s) + Len(out)
      /\ \A i \in 1 .. Len(s) : c[i] = s[i]
      /\ \A i \in 1 .. Len(out) : c[Len(s) + i] = out[i]
  BY <1>8 DEF Joins
<1>3. DOMAIN c = 1 .. Len(s) + Len(out)
  BY <1>2, DomainShape
<1>4. ASSUME NEW i \in DOMAIN c, RegTask(c[i], d) \/ OpTask(c[i], d)
      PROVE  i \in DOMAIN s /\ c[i] = s[i]
  <2>1. CASE i \in 1 .. Len(s)
    BY <1>1, <1>2, <2>1
  <2>2. CASE i \notin 1 .. Len(s)
    <3>1. i - Len(s) \in 1 .. Len(out) /\ i = Len(s) + (i - Len(s))
      BY <1>1, <1>3, <2>2
    <3>2. c[i] = out[i - Len(s)]
      BY <1>2, <3>1
    <3> QED
      BY <1>1, <1>4, <3>1, <3>2
  <2> QED
    BY <2>1, <2>2
<1>5. \A i \in DOMAIN s : f[i] = i
  OBVIOUS
<1> HIDE DEF f
<1>6. \A i \in DOMAIN c : RegTask(c[i], d) \/ OpTask(c[i], d) =>
         f[i] = i /\ i \in DOMAIN s /\ c[i] = s[i]
  BY <1>4, <1>5
<1>7. TaskEmbeds(c, s, d)
  BY <1>6 DEF TaskEmbeds
<1> QED
  BY <1>7, <1>8 DEF IsConcat

\* A task ends.
LEMMA FewerTasks ==
    ASSUME NEW s, IsSeq(s), NEW i \in DOMAIN s, NEW d
    PROVE  TaskEmbeds(RemoveAt(s, i), s, d)
<1> DEFINE r == RemoveAt(s, i)
           f == [j \in DOMAIN r |-> IF j < i THEN j ELSE j + 1]
<1>1. \A j \in DOMAIN r : f[j] \in DOMAIN s /\ r[j] = s[f[j]] /\ j \in Nat
  BY RemoveAtShape
<1>2. i \in Nat
  BY DomainShape
<1>3. \A j, k \in DOMAIN r : f[j] = f[k] => j = k
  BY <1>1, <1>2
<1> HIDE DEF r, f
<1>4. TaskEmbeds(r, s, d)
  BY <1>1, <1>3 DEF TaskEmbeds
<1> QED
  BY <1>4 DEF r

\* A task that is not about the visit goes on.
LEMMA OtherTask ==
    ASSUME NEW s, NEW i \in DOMAIN s, NEW t, NEW d, ~ RegTask(t, d), ~ OpTask(t, d)
    PROVE  TaskEmbeds([s EXCEPT ![i] = t], s, d)
<1>1. /\ DOMAIN [s EXCEPT ![i] = t] = DOMAIN s /\ [s EXCEPT ![i] = t][i] = t
      /\ \A j \in DOMAIN s : j # i => [s EXCEPT ![i] = t][j] = s[j]
  OBVIOUS
<1>2. \A j \in DOMAIN s : [k \in DOMAIN s |-> k][j] = j
  OBVIOUS
<1> QED
  BY <1>1, <1>2 DEF TaskEmbeds

LEMMA OtherCommand ==
    ASSUME NEW q, IsSeq(q), NEW c, NEW u, ~ RegCommand(c, u), ~ OpCommand(c, u)
    PROVE  CommandEmbeds(Append(q, c), q, u)
<1>1. /\ Len(q) \in Nat /\ DOMAIN q = 1 .. Len(q) /\ DOMAIN Append(q, c) = 1 .. Len(q) + 1
      /\ \A k \in DOMAIN q : Append(q, c)[k] = q[k]
      /\ Append(q, c)[Len(q) + 1] = c
  BY AppendShape, DomainShape
<1> DEFINE f == [k \in DOMAIN q |-> k]
<1>2. \A j \in DOMAIN q : f[j] = j
  OBVIOUS
<1>3. \A k \in DOMAIN Append(q, c) : k \in DOMAIN q \/ Append(q, c)[k] = c
  BY <1>1
<1> HIDE DEF f
<1>4. \A k \in DOMAIN Append(q, c) :
         RegCommand(Append(q, c)[k], u) \/ OpCommand(Append(q, c)[k], u) =>
            k \in DOMAIN q /\ f[k] = k /\ Append(q, c)[k] = q[k]
  BY <1>1, <1>2, <1>3
<1> QED
  BY <1>4 DEF CommandEmbeds

LEMMA FewerCommands ==
    ASSUME NEW q, IsSeq(q), q # << >>, NEW u
    PROVE  CommandEmbeds(Tail(q), q, u)
<1> DEFINE f == [k \in DOMAIN Tail(q) |-> k + 1]
<1>1. /\ Len(q) \in Nat /\ DOMAIN q = 1 .. Len(q) /\ DOMAIN Tail(q) = 1 .. Len(q) - 1
      /\ \A k \in 1 .. Len(q) - 1 : Tail(q)[k] = q[k + 1]
  BY TailShape, DomainShape
<1>2. \A k \in DOMAIN Tail(q) : f[k] \in DOMAIN q /\ Tail(q)[k] = q[f[k]] /\ f[k] = k + 1
  BY <1>1
<1>3. \A k, l \in DOMAIN Tail(q) : f[k] = f[l] => k = l
  BY <1>1, <1>2
<1> HIDE DEF f
<1> QED
  BY <1>2, <1>3 DEF CommandEmbeds

LEMMA OtherMessage ==
    ASSUME NEW box, IsSeq(box), NEW m, NEW d, ~ IsOperation(m, d), ~ Answer(m, d)
    PROVE  BoxGrows(Append(box, m), box, d)
<1>1. /\ Len(box) \in Nat /\ DOMAIN box = 1 .. Len(box)
      /\ DOMAIN Append(box, m) = 1 .. Len(box) + 1
      /\ \A k \in DOMAIN box : Append(box, m)[k] = box[k]
      /\ Append(box, m)[Len(box) + 1] = m
  BY AppendShape, DomainShape
<1> QED
  BY <1>1 DEF BoxGrows

-----------------------------------------------------------------------------
(* What matters to the visit, step by step *)

\* The client opens or leaves d once more: what was current no longer is.
LEMMA VisitAsked ==
    ASSUME NEW u, NEW d, NEW n \in Nat, NEW wins, NEW tsk, NEW q, NEW ann, NEW conn, NEW rev,
           NEW snc, NEW box, Ordered(u, d, ann, rev, box), ReadTexts(d, tsk, rev, box),
           \A i \in DOMAIN tsk : RegTask(tsk[i], d) =>
              /\ tsk[i].n \in Nat
              /\ tsk[i].n <= n \/ (tsk[i].n = n + 1 /\ tsk[i].pc # "read"),
           \A k \in DOMAIN box : Answer(box[k], d) => box[k].n \in Nat /\ box[k].n <= n,
           \A w \in wins : w.doc = d => w.n \in Nat /\ w.n <= n
    PROVE  Visit(u, d, n + 1, wins, tsk, q, ann, conn, rev, snc, box)
<1>1. Numbered(d, n + 1, wins, tsk, box)
  BY DEF Numbered
<1>2. Reading(u, d, n + 1, wins, tsk, q, conn, box)
  BY DEF Reading, RegTask
<1>3. Answering(u, d, n + 1, wins, tsk, q, ann, conn, rev, snc, box)
  BY DEF Answering
<1>4. Showing(u, d, n + 1, wins, tsk, q, ann, conn, rev, snc, box)
  BY DEF Showing
<1> QED
  BY <1>1, <1>2, <1>3, <1>4 DEF Visit

\* Who has a request of the visit that has not been answered has no view yet.
LEMMA NoViewYet ==
    ASSUME NEW u, NEW d, NEW text, NEW opened, NEW busy, NEW from, NEW tsk, NEW q, NEW ann,
           NEW conn, NEW rev, NEW snc, NEW box,
           View(u, d, text, opened, busy, from, tsk, q, ann, conn, rev, snc, box),
           NEW i \in DOMAIN tsk, RegTask(tsk[i], d)
    PROVE  tsk[i].type = "doc_join_request" /\ tsk[i].pc = "answered"
  BY DEF View, RegStage

\* A request to leave, or to join up to the reading of the text, goes on.
LEMMA VisitUnsettled ==
    ASSUME NEW u, NEW d, NEW n, NEW wins, NEW tsk, NEW q, NEW ann, NEW conn, NEW rev, NEW snc,
           NEW box, Visit(u, d, n, wins, tsk, q, ann, conn, rev, snc, box),
           NEW i \in DOMAIN tsk, RegTask(tsk[i], d),
           ~ (tsk[i].type = "doc_join_request" /\ tsk[i].pc \in {"read", "answered"}),
           NEW t, t.type = tsk[i].type, t.doc = d, t.n = tsk[i].n,
           ~ (t.type = "doc_join_request" /\ t.pc \in {"read", "answered"}), NEW q2
    PROVE  Visit(u, d, n, wins, [tsk EXCEPT ![i] = t], q2, ann, conn, rev, snc, box)
<1> DEFINE new == [tsk EXCEPT ![i] = t]
<1>1. /\ DOMAIN new = DOMAIN tsk /\ new[i] = t
      /\ \A j \in DOMAIN tsk : j # i => new[j] = tsk[j]
  OBVIOUS
<1> HIDE DEF new
<1>2. Numbered(d, n, wins, new, box)
  BY <1>1 DEF Visit, Numbered, RegTask
<1>3. ReadTexts(d, new, rev, box)
  BY <1>1 DEF Visit, ReadTexts
<1>4. Reading(u, d, n, wins, new, q2, conn, box)
  BY <1>1 DEF Visit, Reading, RegTask
<1>8. \A k \in DOMAIN box : ~ (Answer(box[k], d) /\ box[k].fresh /\ box[k].n = n)
  <2> SUFFICES ASSUME NEW k \in DOMAIN box, Answer(box[k], d), box[k].fresh, box[k].n = n
               PROVE  FALSE
    OBVIOUS
  <2>1. View(u, d, box[k].text, Len(box[k].text), FALSE, k, tsk, q, ann, conn, rev, snc, box)
    BY DEF Visit, Answering
  <2>2. tsk[i].type = "doc_join_request" /\ tsk[i].pc = "answered"
    BY <2>1 DEF View, RegStage
  <2> QED
    BY <2>2
<1>5. Answering(u, d, n, wins, new, q2, ann, conn, rev, snc, box)
  BY <1>8 DEF Answering
<1>6. Showing(u, d, n, wins, new, q2, ann, conn, rev, snc, box)
  BY NoViewYet DEF Visit, Showing
<1>7. Visit(u, d, n, wins, new, q2, ann, conn, rev, snc, box)
  BY <1>2, <1>3, <1>4, <1>5, <1>6 DEF Visit
<1> QED
  BY <1>7 DEF new

\* handle_doc_join reads the text.
LEMMA VisitRead ==
    ASSUME NEW u, NEW d, NEW n, NEW wins, NEW tsk, NEW q, NEW ann, NEW conn, NEW rev, NEW snc,
           NEW box, Visit(u, d, n, wins, tsk, q, ann, conn, rev, snc, box),
           NEW i \in DOMAIN tsk, RegTask(tsk[i], d), tsk[i].type = "doc_join_request",
           tsk[i].pc = "located",
           NEW t, t.type = tsk[i].type, t.doc = d, t.n = tsk[i].n, t.pc = "read",
           t.text = Upto(rev),
           t.fresh =>
              /\ u \notin conn
              /\ \A k \in DOMAIN q : q[k].user # u
              /\ \A j \in DOMAIN tsk \ {i} : ~ RegTask(tsk[j], d) /\ ~ OpTask(tsk[j], d)
              /\ \A w \in wins : w.doc # d
              /\ \A k \in DOMAIN box : ~ Answer(box[k], d)
    PROVE  Visit(u, d, n, wins, [tsk EXCEPT ![i] = t], q, ann, conn, rev, snc, box)
<1> DEFINE new == [tsk EXCEPT ![i] = t]
<1>1. /\ DOMAIN new = DOMAIN tsk /\ new[i] = t
      /\ \A j \in DOMAIN tsk : j # i => new[j] = tsk[j]
  OBVIOUS
<1> HIDE DEF new
<1>2. Numbered(d, n, wins, new, box)
  BY <1>1 DEF Visit, Numbered, RegTask
<1>3. ReadTexts(d, new, rev, box)
  <2>1. rev \in 0 .. rev
    BY DEF Visit, Ordered
  <2> QED
    BY <1>1, <2>1 DEF Visit, ReadTexts
<1>4. Reading(u, d, n, wins, new, q, conn, box)
  BY <1>1 DEF Visit, Reading, RegTask, OpTask, RegCommand, OpCommand
<1>5. Answering(u, d, n, wins, new, q, ann, conn, rev, snc, box)
  BY NoViewYet DEF Visit, Answering
<1>6. Showing(u, d, n, wins, new, q, ann, conn, rev, snc, box)
  BY NoViewYet DEF Visit, Showing
<1>7. Visit(u, d, n, wins, new, q, ann, conn, rev, snc, box)
  BY <1>2, <1>3, <1>4, <1>5, <1>6 DEF Visit
<1> QED
  BY <1>7 DEF new

\* A text that was read in full.
LEMMA UptoShape ==
    ASSUME NEW k \in Nat
    PROVE  /\ Upto(k) \in Seq(Nat) /\ Len(Upto(k)) = k
           /\ \A i \in 1 .. k : Upto(k)[i] = i
  BY DEF Upto

\* handle_doc_join answers.
LEMMA VisitAnswered ==
    ASSUME NEW u, NEW d, NEW n, NEW wins, NEW tsk, NEW q, NEW ann, NEW conn, NEW rev, NEW snc,
           NEW box, Visit(u, d, n, wins, tsk, q, ann, conn, rev, snc, box), IsSeq(box),
           NEW i \in DOMAIN tsk, RegTask(tsk[i], d), tsk[i].type = "doc_join_request",
           tsk[i].pc = "read",
           NEW t, t.type = tsk[i].type, t.doc = d, t.n = tsk[i].n, t.pc = "answered",
           NEW m, Answer(m, d), m.text = tsk[i].text, m.n = tsk[i].n, m.fresh = tsk[i].fresh
    PROVE  Visit(u, d, n, wins, [tsk EXCEPT ![i] = t], q, ann, conn, rev, snc, Append(box, m))
<1> DEFINE new == [tsk EXCEPT ![i] = t]
           all == Append(box, m)
           last == Len(box) + 1
<1>1. /\ DOMAIN new = DOMAIN tsk /\ new[i] = t
      /\ \A j \in DOMAIN tsk : j # i => new[j] = tsk[j]
  OBVIOUS
<1>2. /\ Len(box) \in Nat /\ DOMAIN box = 1 .. Len(box) /\ DOMAIN all = 1 .. last
      /\ \A k \in DOMAIN box : all[k] = box[k]
      /\ all[last] = m
  BY AppendShape, DomainShape
<1> HIDE DEF new, all
<1>3. /\ \A k \in DOMAIN all : k # last => k \in DOMAIN box /\ all[k] = box[k]
      /\ \A k \in DOMAIN box : k \in DOMAIN all /\ k < last /\ k # last
      /\ last \in DOMAIN all /\ last \in Nat /\ \A k \in DOMAIN all : ~ (k > last) /\ k \in Nat
  BY <1>2
<1>4. ~ IsOperation(m, d)
  BY DEF Answer, IsOperation
<1>5. PICK len \in 0 .. rev : m.text = Upto(len)
  BY DEF Visit, ReadTexts, RegTask
<1>6. rev \in Nat /\ len \in Nat /\ len <= rev
  BY <1>5 DEF Visit, Ordered
<1> HIDE DEF last
<1>7. Numbered(d, n, wins, new, all)
  BY <1>1, <1>2, <1>3 DEF Visit, Numbered, RegTask
<1>8. Ordered(u, d, ann, rev, all)
  BY <1>2, <1>3, <1>4 DEF Visit, Ordered
<1>9. ReadTexts(d, new, rev, all)
  BY <1>1, <1>2, <1>3, <1>5 DEF Visit, ReadTexts
<1>10. Reading(u, d, n, wins, new, q, conn, all)
  BY <1>1, <1>2, <1>3 DEF Visit, Reading, RegTask
<1>11. \A k \in DOMAIN box : ~ (Answer(box[k], d) /\ box[k].fresh /\ box[k].n = n)
  BY NoViewYet DEF Visit, Answering
<1>12. ASSUME tsk[i].fresh, tsk[i].n = n
       PROVE  View(u, d, m.text, Len(m.text), FALSE, last, new, q, ann, conn, rev, snc, all)
  <2>1. /\ \A j \in DOMAIN tsk : RegTask(tsk[j], d) \/ OpTask(tsk[j], d) => j = i
        /\ \A k \in DOMAIN q : ~ RegCommand(q[k], u) /\ ~ OpCommand(q[k], u)
        /\ u \notin conn
    BY <1>12 DEF Visit, Reading, RegTask
  <2>2. m.text \in Seq(Nat) /\ Len(m.text) = len /\ \A j \in 1 .. len : m.text[j] = j
    BY <1>5, <1>6, UptoShape
  <2>3. Text(u, d, m.text, Len(m.text), last, ann, conn, rev, snc, all)
    BY <1>3, <1>6, <2>1, <2>2 DEF Text
  <2>4. RegStage(u, d, "task", new, q)
    BY <1>1, <2>1 DEF RegStage, RegTask
  <2>5. Unregistered(u, d, m.text, Len(m.text), last, conn, all)
    BY <1>3, <2>1 DEF Unregistered
  <2>6. OpStage(u, d, "none", last, new, q, ann, conn, all)
    BY <1>1, <1>3, <2>1 DEF OpStage, OpTask, RegTask
  <2> QED
    BY <2>3, <2>4, <2>5, <2>6 DEF View
<1>13. Answering(u, d, n, wins, new, q, ann, conn, rev, snc, all)
  <2> SUFFICES ASSUME NEW k \in DOMAIN all, Answer(all[k], d), all[k].fresh, all[k].n = n
               PROVE  /\ \A w \in wins : w.doc # d
                      /\ \A l \in DOMAIN all : Answer(all[l], d) => l = k
                      /\ View(u, d, all[k].text, Len(all[k].text), FALSE, k, new, q, ann, conn,
                              rev, snc, all)
    BY DEF Answering
  <2>1. k = last /\ all[k] = m
    BY <1>2, <1>3, <1>11
  <2>2. /\ \A w \in wins : w.doc # d
        /\ \A l \in DOMAIN box : ~ Answer(box[l], d)
    BY <2>1 DEF Visit, Reading, RegTask
  <2> QED
    BY <1>2, <1>3, <1>12, <2>1, <2>2
<1>14. Showing(u, d, n, wins, new, q, ann, conn, rev, snc, all)
  BY NoViewYet DEF Visit, Showing
<1>15. Visit(u, d, n, wins, new, q, ann, conn, rev, snc, all)
  BY <1>7, <1>8, <1>9, <1>10, <1>13, <1>14 DEF Visit
<1> QED
  BY <1>15 DEF new, all

\* Of two tasks of the visit, one has read the text and one has answered:
\* there is no such pair.
LEMMA NotReading ==
    ASSUME NEW u, NEW d, NEW n, NEW wins, NEW tsk, NEW q, NEW conn, NEW box,
           Reading(u, d, n, wins, tsk, q, conn, box),
           NEW i \in DOMAIN tsk, RegTask(tsk[i], d) \/ OpTask(tsk[i], d),
           ~ (tsk[i].type = "doc_join_request" /\ tsk[i].pc = "read")
    PROVE  \A j \in DOMAIN tsk :
              ~ (/\ tsk[j].type = "doc_join_request" /\ tsk[j].doc = d /\ tsk[j].pc = "read"
                 /\ tsk[j].fresh /\ tsk[j].n = n)
  BY DEF Reading

\* handle_doc_join ends with the Join in the queue of the session.
LEMMA ViewQueuesJoin ==
    ASSUME NEW u, NEW d, NEW text, NEW opened, NEW busy, NEW from, NEW tsk, NEW q, NEW ann,
           NEW conn, NEW rev, NEW snc, NEW box, IsSeq(tsk), IsSeq(q),
           View(u, d, text, opened, busy, from, tsk, q, ann, conn, rev, snc, box),
           NEW i \in DOMAIN tsk, RegTask(tsk[i], d),
           NEW c, c.type = "Join", c.user = u
    PROVE  View(u, d, text, opened, busy, from, RemoveAt(tsk, i), Append(q, c), ann, conn, rev,
                snc, box)
<1> DEFINE rest == RemoveAt(tsk, i)
           all == Append(q, c)
           last == Len(q) + 1
<1>1. TaskEmbeds(rest, tsk, d) /\ CommandEmbeds(q, q, u) /\ BoxGrows(box, box, d)
  BY FewerTasks, SameCommands, SameBox
<1>2. \A j \in DOMAIN rest : j \in Nat /\ rest[j] = tsk[IF j < i THEN j ELSE j + 1]
                             /\ (IF j < i THEN j ELSE j + 1) \in DOMAIN tsk
  BY RemoveAtShape
<1>3. /\ Len(q) \in Nat /\ DOMAIN q = 1 .. Len(q) /\ DOMAIN all = 1 .. last
      /\ \A k \in DOMAIN q : all[k] = q[k]
      /\ all[last] = c
  BY AppendShape, DomainShape
<1> HIDE DEF rest, all
<1>4. /\ \A k \in DOMAIN all : k # last => k \in DOMAIN q /\ all[k] = q[k]
      /\ last \in DOMAIN all
  BY <1>3
<1> HIDE DEF last
<1>5. i \in Nat
  BY DomainShape
<1>6. RegStage(u, d, "task", tsk, q) /\ Unregistered(u, d, text, opened, from, conn, box)
  BY DEF View, RegStage
<1>7. \A k \in DOMAIN q : ~ RegCommand(q[k], u)
  BY <1>6 DEF RegStage
<1>8. \A j \in DOMAIN rest : ~ RegTask(rest[j], d)
  <2> SUFFICES ASSUME NEW j \in DOMAIN rest, RegTask(rest[j], d) PROVE FALSE
    OBVIOUS
  <2>1. (IF j < i THEN j ELSE j + 1) = i
    BY <1>2, <1>6 DEF RegStage
  <2> QED
    BY <1>2, <1>5, <2>1
<1>9. RegStage(u, d, "queued", rest, all)
  BY <1>3, <1>4, <1>7, <1>8 DEF RegStage, RegCommand
<1>10. PICK op \in {"none", "task", "queued", "announced", "acked"} :
         OpStage(u, d, op, from, tsk, q, ann, conn, box) /\ (~ busy => op = "none")
  BY DEF View
<1>11. OpStage(u, d, op, from, rest, q, ann, conn, box)
  BY <1>1, <1>10, OpStageEmbeds
<1>12. OpStage(u, d, op, from, rest, all, ann, conn, box)
  BY <1>3, <1>4, <1>11 DEF OpStage, OpCommand
<1>13. View(u, d, text, opened, busy, from, rest, all, ann, conn, rev, snc, box)
  BY <1>6, <1>9, <1>10, <1>12 DEF View
<1> QED
  BY <1>13 DEF rest, all

LEMMA VisitQueuesJoin ==
    ASSUME NEW u, NEW d, NEW n, NEW wins, NEW tsk, NEW q, NEW ann, NEW conn, NEW rev, NEW snc,
           NEW box, Visit(u, d, n, wins, tsk, q, ann, conn, rev, snc, box),
           IsSeq(tsk), IsSeq(q),
           NEW i \in DOMAIN tsk, RegTask(tsk[i], d), tsk[i].pc = "answered",
           NEW c, c.type = "Join", c.user = u
    PROVE  Visit(u, d, n, wins, RemoveAt(tsk, i), Append(q, c), ann, conn, rev, snc, box)
<1> DEFINE rest == RemoveAt(tsk, i)
<1>1. Visit(u, d, n, wins, rest, q, ann, conn, rev, snc, box)
  BY FewerTasks, SameCommands, SameBox, FewerWindows, VisitEmbeds
<1>2. \A j \in DOMAIN tsk :
         ~ (/\ tsk[j].type = "doc_join_request" /\ tsk[j].doc = d /\ tsk[j].pc = "read"
            /\ tsk[j].fresh /\ tsk[j].n = n)
  BY NotReading DEF Visit
<1>3. \A j \in DOMAIN rest : \E k \in DOMAIN tsk : rest[j] = tsk[k]
  BY RemoveAtShape
<1>4. Reading(u, d, n, wins, rest, Append(q, c), conn, box)
  <2> HIDE DEF rest
  <2> QED
    BY <1>2, <1>3 DEF Reading
<1>5. Answering(u, d, n, wins, rest, Append(q, c), ann, conn, rev, snc, box)
  BY ViewQueuesJoin DEF Visit, Answering
<1>6. Showing(u, d, n, wins, rest, Append(q, c), ann, conn, rev, snc, box)
  BY ViewQueuesJoin DEF Visit, Showing
<1> QED
  BY <1>1, <1>4, <1>5, <1>6 DEF Visit

\* handle_operation hands the operation to the session.
LEMMA ViewQueuesOp ==
    ASSUME NEW u, NEW d, NEW text, NEW opened, NEW busy, NEW from, NEW tsk, NEW q, NEW ann,
           NEW conn, NEW rev, NEW snc, NEW box, IsSeq(tsk), IsSeq(q),
           View(u, d, text, opened, busy, from, tsk, q, ann, conn, rev, snc, box),
           NEW i \in DOMAIN tsk, OpTask(tsk[i], d),
           NEW c, c.type = "Operation", c.user = u
    PROVE  View(u, d, text, opened, busy, from, RemoveAt(tsk, i), Append(q, c), ann, conn, rev,
                snc, box)
<1> DEFINE rest == RemoveAt(tsk, i)
           all == Append(q, c)
           last == Len(q) + 1
<1>1. TaskEmbeds(rest, tsk, d) /\ CommandEmbeds(q, q, u)
  BY FewerTasks, SameCommands
<1>2. \A j \in DOMAIN rest : j \in Nat /\ rest[j] = tsk[IF j < i THEN j ELSE j + 1]
                             /\ (IF j < i THEN j ELSE j + 1) \in DOMAIN tsk
  BY RemoveAtShape
<1>3. /\ Len(q) \in Nat /\ DOMAIN q = 1 .. Len(q) /\ DOMAIN all = 1 .. last
      /\ \A k \in DOMAIN q : all[k] = q[k]
      /\ all[last] = c
  BY AppendShape, DomainShape
<1> HIDE DEF rest, all
<1>4. /\ \A k \in DOMAIN all : k # last => k \in DOMAIN q /\ all[k] = q[k]
      /\ last \in DOMAIN all
  BY <1>3
<1> HIDE DEF last
<1>5. i \in Nat
  BY DomainShape
<1>6. OpStage(u, d, "task", from, tsk, q, ann, conn, box) /\ busy
  BY DEF View, OpStage
<1>7. \A j \in DOMAIN rest : ~ OpTask(rest[j], d)
  <2> SUFFICES ASSUME NEW j \in DOMAIN rest, OpTask(rest[j], d) PROVE FALSE
    OBVIOUS
  <2>1. (IF j < i THEN j ELSE j + 1) = i
    BY <1>2, <1>6 DEF OpStage
  <2> QED
    BY <1>2, <1>5, <2>1
<1>8. OpStage(u, d, "queued", from, rest, all, ann, conn, box)
  BY <1>3, <1>4, <1>6, <1>7 DEF OpStage
<1>9. PICK stage \in {"task", "queued", "done"} :
        /\ RegStage(u, d, stage, tsk, q)
        /\ stage # "done" => Unregistered(u, d, text, opened, from, conn, box)
  BY DEF View
<1>10. RegStage(u, d, stage, rest, q)
  BY <1>1, <1>9, RegStageEmbeds
<1>11. RegStage(u, d, stage, rest, all)
  BY <1>3, <1>4, <1>10 DEF RegStage, RegCommand
<1>12. View(u, d, text, opened, busy, from, rest, all, ann, conn, rev, snc, box)
  BY <1>6, <1>8, <1>9, <1>11 DEF View
<1> QED
  BY <1>12 DEF rest, all

LEMMA VisitQueuesOp ==
    ASSUME NEW u, NEW d, NEW n, NEW wins, NEW tsk, NEW q, NEW ann, NEW conn, NEW rev, NEW snc,
           NEW box, Visit(u, d, n, wins, tsk, q, ann, conn, rev, snc, box),
           IsSeq(tsk), IsSeq(q), NEW i \in DOMAIN tsk, OpTask(tsk[i], d),
           NEW c, c.type = "Operation", c.user = u
    PROVE  Visit(u, d, n, wins, RemoveAt(tsk, i), Append(q, c), ann, conn, rev, snc, box)
<1> DEFINE rest == RemoveAt(tsk, i)
<1>1. Visit(u, d, n, wins, rest, q, ann, conn, rev, snc, box)
  BY FewerTasks, SameCommands, SameBox, FewerWindows, VisitEmbeds
<1>2. \A j \in DOMAIN tsk :
         ~ (/\ tsk[j].type = "doc_join_request" /\ tsk[j].doc = d /\ tsk[j].pc = "read"
            /\ tsk[j].fresh /\ tsk[j].n = n)
  <2>1. ~ (tsk[i].type = "doc_join_request")
    BY DEF OpTask
  <2> QED
    BY <2>1, NotReading DEF Visit
<1>3. \A j \in DOMAIN rest : \E k \in DOMAIN tsk : rest[j] = tsk[k]
  BY RemoveAtShape
<1>4. Reading(u, d, n, wins, rest, Append(q, c), conn, box)
  <2> HIDE DEF rest
  <2> QED
    BY <1>2, <1>3 DEF Reading
<1>5. Answering(u, d, n, wins, rest, Append(q, c), ann, conn, rev, snc, box)
  BY ViewQueuesOp DEF Visit, Answering
<1>6. Showing(u, d, n, wins, rest, Append(q, c), ann, conn, rev, snc, box)
  BY ViewQueuesOp DEF Visit, Showing
<1> QED
  BY <1>1, <1>4, <1>5, <1>6 DEF Visit

\* handle_join: the session registers u.
LEMMA ViewJoined ==
    ASSUME NEW u, NEW d, NEW text, NEW opened, NEW busy, NEW from, NEW tsk, NEW q, NEW conn,
           NEW rev \in Nat, NEW snc, NEW box, IsSeq(q), q # << >>, RegCommand(Head(q), u),
           View(u, d, text, opened, busy, from, tsk, q, {}, conn, rev, snc, box)
    PROVE  View(u, d, text, opened, busy, from, tsk, Tail(q), {}, conn \cup {u}, rev, rev, box)
<1>1. /\ Len(q) \in Nat /\ DOMAIN q = 1 .. Len(q) /\ DOMAIN Tail(q) = 1 .. Len(q) - 1
      /\ \A k \in 1 .. Len(q) - 1 : Tail(q)[k] = q[k + 1]
      /\ Head(q) = q[1] /\ Len(q) > 0
  BY TailShape, DomainShape
<1>2. /\ TaskEmbeds(tsk, tsk, d) /\ CommandEmbeds(Tail(q), q, u) /\ BoxGrows(box, box, d)
  BY SameTasks, FewerCommands, SameBox
<1>3. RegStage(u, d, "queued", tsk, q) /\ Unregistered(u, d, text, opened, from, conn, box)
  BY <1>1 DEF View, RegStage
<1>4. \A i \in DOMAIN tsk : ~ RegTask(tsk[i], d)
  BY <1>3 DEF RegStage
<1>5. \A k \in DOMAIN Tail(q) : ~ RegCommand(Tail(q)[k], u)
  <2> SUFFICES ASSUME NEW k \in 1 .. Len(q) - 1, RegCommand(q[k + 1], u) PROVE FALSE
    BY <1>1
  <2>1. k + 1 \in DOMAIN q /\ 1 \in DOMAIN q /\ k + 1 # 1
    BY <1>1
  <2> QED
    BY <1>1, <1>3, <2>1 DEF RegStage
<1>6. RegStage(u, d, "done", tsk, Tail(q))
  BY <1>4, <1>5 DEF RegStage
<1>7. PICK op \in {"none", "task", "queued", "announced", "acked"} :
        OpStage(u, d, op, from, tsk, q, {}, conn, box) /\ (~ busy => op = "none")
  BY DEF View
<1>8. OpStage(u, d, op, from, tsk, Tail(q), {}, conn, box)
  BY <1>2, <1>7, OpStageEmbeds
<1>9. OpStage(u, d, op, from, tsk, Tail(q), {}, conn \cup {u}, box)
  BY <1>8 DEF OpStage
<1>10. Text(u, d, text, opened, from, {}, conn, rev, snc, box)
  BY DEF View
<1>11. /\ text \in Seq(Nat) /\ Len(text) = opened /\ opened \in Nat
       /\ \A i \in 1 .. opened : text[i] = i /\ text[i] <= rev
  BY <1>3, <1>10 DEF Text, Unregistered
<1>12. opened <= rev
  <2>1. CASE opened = 0
    BY <2>1
  <2>2. CASE opened # 0
    <3>1. opened \in 1 .. opened
      BY <1>11, <2>2
    <3> QED
      BY <1>11, <3>1
  <2> QED
    BY <2>1, <2>2
<1>13. \A k \in DOMAIN box : ~ (k > from /\ IsOperation(box[k], d))
  BY <1>3 DEF Unregistered
<1>14. Text(u, d, text, opened, from, {}, conn \cup {u}, rev, rev, box)
  BY <1>10, <1>11, <1>12, <1>13 DEF Text
<1> QED
  BY <1>6, <1>7, <1>9, <1>14 DEF View

LEMMA VisitJoined ==
    ASSUME NEW u, NEW d, NEW n, NEW wins, NEW tsk, NEW q, NEW conn, NEW rev, NEW snc,
           NEW box, Visit(u, d, n, wins, tsk, q, {}, conn, rev, snc, box),
           IsSeq(q), q # << >>, RegCommand(Head(q), u)
    PROVE  Visit(u, d, n, wins, tsk, Tail(q), {}, conn \cup {u}, rev, rev, box)
<1>1. rev \in Nat
  BY DEF Visit, Ordered
<1>2. 1 \in DOMAIN q /\ RegCommand(q[1], u)
  BY TailShape, DomainShape
<1>3. Reading(u, d, n, wins, tsk, Tail(q), conn \cup {u}, box)
  BY <1>2 DEF Visit, Reading
<1>4. Answering(u, d, n, wins, tsk, Tail(q), {}, conn \cup {u}, rev, rev, box)
  BY <1>1, ViewJoined DEF Visit, Answering
<1>5. Showing(u, d, n, wins, tsk, Tail(q), {}, conn \cup {u}, rev, rev, box)
  BY <1>1, ViewJoined DEF Visit, Showing
<1> QED
  BY <1>3, <1>4, <1>5 DEF Visit

\* The session commits an operation of x.
LEMMA ViewCommitted ==
    ASSUME NEW u, NEW d, NEW text, NEW opened, NEW busy, NEW from, NEW tsk, NEW q, NEW conn,
           NEW rev \in Nat, NEW snc, NEW box, IsSeq(q), q # << >>, NEW x,
           OpCommand(Head(q), x), Ordered(u, d, {}, rev, box),
           View(u, d, text, opened, busy, from, tsk, q, {}, conn, rev, snc, box)
    PROVE  View(u, d, text, opened, busy, from, tsk, Tail(q), {x}, conn, rev + 1, snc, box)
<1>1. /\ Len(q) \in Nat /\ DOMAIN q = 1 .. Len(q) /\ DOMAIN Tail(q) = 1 .. Len(q) - 1
      /\ \A k \in 1 .. Len(q) - 1 : Tail(q)[k] = q[k + 1]
      /\ Head(q) = q[1] /\ Len(q) > 0
  BY TailShape, DomainShape
<1>2. /\ TaskEmbeds(tsk, tsk, d) /\ CommandEmbeds(Tail(q), q, u) /\ BoxGrows(box, box, d)
  BY SameTasks, FewerCommands, SameBox
<1>3. \E stage \in {"task", "queued", "done"} :
        /\ RegStage(u, d, stage, tsk, Tail(q))
        /\ stage # "done" => Unregistered(u, d, text, opened, from, conn, box)
  BY <1>2, RegStageEmbeds DEF View
<1>4. PICK op \in {"none", "task", "queued", "announced", "acked"} :
        OpStage(u, d, op, from, tsk, q, {}, conn, box) /\ (~ busy => op = "none")
  BY DEF View
<1>5. OpStage(u, d, op, from, tsk, Tail(q), {}, conn, box)
  BY <1>2, <1>4, OpStageEmbeds
<1>7. Text(u, d, text, opened, from, {x}, conn, rev + 1, snc, box)
  <2>1. Text(u, d, text, opened, from, {}, conn, rev, snc, box)
    BY DEF View
  <2>2. \A i \in 1 .. Len(text) : text[i] \in Nat /\ text[i] <= rev
    BY <2>1 DEF Text
  <2>3. \A i \in 1 .. Len(text) : text[i] <= rev + 1 /\ text[i] < rev + 1
    BY <2>2
  <2>4. ASSUME u \in conn
        PROVE  /\ snc < rev + 1 /\ snc <= rev + 1
               /\ \A r \in snc + 1 .. rev + 1 :
                     \/ \E i \in 1 .. Len(text) : text[i] = r
                     \/ \E k \in DOMAIN box :
                           k > from /\ IsOperation(box[k], d) /\ box[k].rev = r
                     \/ r = rev + 1 /\ {x} # {}
    <3>1. /\ snc \in Nat /\ snc <= rev
          /\ \A r \in snc + 1 .. rev :
                \/ \E i \in 1 .. Len(text) : text[i] = r
                \/ \E k \in DOMAIN box : k > from /\ IsOperation(box[k], d) /\ box[k].rev = r
                \/ r = rev /\ {} # {}
      BY <2>1, <2>4 DEF Text
    <3>2. \A r \in snc + 1 .. rev + 1 : r \in snc + 1 .. rev \/ r = rev + 1
      BY <3>1
    <3> QED
      BY <3>1, <3>2
  <2> QED
    BY <2>1, <2>3, <2>4 DEF Text
<1>6. CASE x # u
  <2>1. OpStage(u, d, op, from, tsk, Tail(q), {x}, conn, box)
    BY <1>5, <1>6 DEF OpStage
  <2> QED
    BY <1>3, <1>4, <2>1, <1>7 DEF View
<1>8. CASE x = u
  <2>1. op = "queued" /\ busy
    BY <1>1, <1>4, <1>8 DEF OpStage
  <2>2. \A k \in DOMAIN Tail(q) : ~ OpCommand(Tail(q)[k], u)
    <3> SUFFICES ASSUME NEW k \in 1 .. Len(q) - 1, OpCommand(q[k + 1], u) PROVE FALSE
      BY <1>1
    <3>1. k + 1 \in DOMAIN q /\ 1 \in DOMAIN q /\ k + 1 # 1
      BY <1>1
    <3> QED
      BY <1>1, <1>4, <1>8, <3>1 DEF OpStage
  <2>3. OpStage(u, d, "announced", from, tsk, Tail(q), {x}, conn, box)
    BY <1>4, <2>1, <2>2 DEF OpStage
  <2> QED
    BY <1>3, <2>1, <2>3, <1>7 DEF View
<1> QED
  BY <1>6, <1>8

LEMMA VisitCommitted ==
    ASSUME NEW u, NEW d, NEW n, NEW wins, NEW tsk, NEW q, NEW conn, NEW rev, NEW snc,
           NEW box, Visit(u, d, n, wins, tsk, q, {}, conn, rev, snc, box),
           IsSeq(q), q # << >>, NEW x, OpCommand(Head(q), x)
    PROVE  Visit(u, d, n, wins, tsk, Tail(q), {x}, conn, rev + 1, snc, box)
<1>1. rev \in Nat /\ Ordered(u, d, {}, rev, box)
  BY DEF Visit, Ordered
<1>2. Visit(u, d, n, wins, tsk, Tail(q), {}, conn, rev, snc, box)
  BY SameTasks, FewerCommands, SameBox, FewerWindows, VisitEmbeds
<1>3. Ordered(u, d, {x}, rev + 1, box)
  <2>1. \A k \in DOMAIN box : IsOperation(box[k], d) =>
           box[k].rev \in Nat /\ box[k].rev <= rev + 1 /\ box[k].rev < rev + 1
    BY <1>1 DEF Ordered
  <2> QED
    BY <1>1, <2>1 DEF Ordered
<1>4. ReadTexts(d, tsk, rev + 1, box)
  <2>1. 0 .. rev \subseteq 0 .. rev + 1
    BY <1>1
  <2> QED
    BY <1>2, <2>1 DEF Visit, ReadTexts
<1>5. Answering(u, d, n, wins, tsk, Tail(q), {x}, conn, rev + 1, snc, box)
  BY <1>1, ViewCommitted DEF Visit, Answering
<1>6. Showing(u, d, n, wins, tsk, Tail(q), {x}, conn, rev + 1, snc, box)
  BY <1>1, ViewCommitted DEF Visit, Showing
<1> QED
  BY <1>2, <1>3, <1>4, <1>5, <1>6 DEF Visit

\* The session announces what it has committed, to u if it is registered.
LEMMA ViewAnnounced ==
    ASSUME NEW u, NEW d, NEW text, NEW opened, NEW busy, NEW from \in Nat, NEW tsk, NEW q,
           NEW ann, NEW conn, NEW rev \in Nat, NEW snc, NEW box, IsSeq(box), ann # {}, u \in conn,
           from <= Len(box),
           View(u, d, text, opened, busy, from, tsk, q, ann, conn, rev, snc, box),
           NEW m, IsOperation(m, d), m.rev = rev, IsAck(m, d) => u \in ann
    PROVE  View(u, d, text, opened, busy, from, tsk, q, {}, conn, rev, snc, Append(box, m))
<1> DEFINE all == Append(box, m)
           last == Len(box) + 1
<1>1. /\ Len(box) \in Nat /\ DOMAIN box = 1 .. Len(box) /\ DOMAIN all = 1 .. last
      /\ \A k \in DOMAIN box : all[k] = box[k]
      /\ all[last] = m
  BY AppendShape, DomainShape
<1> HIDE DEF all
<1>2. /\ \A k \in DOMAIN all : k # last => k \in DOMAIN box /\ all[k] = box[k]
      /\ \A k \in DOMAIN box : k \in DOMAIN all /\ all[k] = box[k]
      /\ last \in DOMAIN all /\ last > from
  BY <1>1
<1> HIDE DEF last
<1>3. RegStage(u, d, "done", tsk, q)
  BY DEF View, Unregistered
<1>4. PICK op \in {"none", "task", "queued", "announced", "acked"} :
        OpStage(u, d, op, from, tsk, q, ann, conn, box) /\ (~ busy => op = "none")
  BY DEF View
<1>6. Text(u, d, text, opened, from, {}, conn, rev, snc, all)
  <2>1. Text(u, d, text, opened, from, ann, conn, rev, snc, box)
    BY DEF View
  <2>2. /\ snc \in Nat /\ snc < rev /\ \A i \in 1 .. Len(text) : text[i] < rev
        /\ \A r \in snc + 1 .. rev :
              \/ \E i \in 1 .. Len(text) : text[i] = r
              \/ \E k \in DOMAIN box : k > from /\ IsOperation(box[k], d) /\ box[k].rev = r
              \/ r = rev
    BY <2>1 DEF Text
  <2>3. \A k \in DOMAIN all : k > from /\ IsOperation(all[k], d) =>
           all[k].rev > snc /\ \A i \in 1 .. Len(text) : text[i] < all[k].rev
    BY <1>1, <1>2, <2>1, <2>2 DEF Text
  <2>4. \A r \in snc + 1 .. rev :
              \/ \E i \in 1 .. Len(text) : text[i] = r
              \/ \E k \in DOMAIN all : k > from /\ IsOperation(all[k], d) /\ all[k].rev = r
    BY <1>1, <1>2, <2>2
  <2> QED
    BY <2>1, <2>3, <2>4 DEF Text
<1>5. CASE IsAck(m, d)
  <2>1. op = "announced" /\ busy
    BY <1>4, <1>5 DEF OpStage
  <2>2. OpStage(u, d, "acked", from, tsk, q, {}, conn, all)
    BY <1>1, <1>2, <1>4, <1>5, <2>1 DEF OpStage
  <2> QED
    BY <1>3, <1>6, <2>1, <2>2 DEF View, all
<1>7. CASE ~ IsAck(m, d)
  <2>1. OpStage(u, d, op, from, tsk, q, {}, conn, all)
    BY <1>1, <1>2, <1>4, <1>7 DEF OpStage
  <2> QED
    BY <1>3, <1>4, <1>6, <2>1 DEF View, all
<1> QED
  BY <1>5, <1>7

LEMMA ViewUnannounced ==
    ASSUME NEW u, NEW d, NEW text, NEW opened, NEW busy, NEW from, NEW tsk, NEW q,
           NEW ann, NEW conn, NEW rev, NEW snc, NEW box, u \notin conn,
           View(u, d, text, opened, busy, from, tsk, q, ann, conn, rev, snc, box)
    PROVE  View(u, d, text, opened, busy, from, tsk, q, {}, conn, rev, snc, box)
<1>1. Text(u, d, text, opened, from, {}, conn, rev, snc, box)
  BY DEF View, Text
<1>2. \E stage \in {"none", "task", "queued", "announced", "acked"} :
        /\ OpStage(u, d, stage, from, tsk, q, {}, conn, box)
        /\ ~ busy => stage = "none"
  BY DEF View, OpStage
<1> QED
  BY <1>1, <1>2 DEF View

LEMMA VisitUnannounced ==
    ASSUME NEW u, NEW d, NEW n, NEW wins, NEW tsk, NEW q, NEW ann, NEW conn, NEW rev, NEW snc,
           NEW box, Visit(u, d, n, wins, tsk, q, ann, conn, rev, snc, box), u \notin conn
    PROVE  Visit(u, d, n, wins, tsk, q, {}, conn, rev, snc, box)
<1>1. Ordered(u, d, {}, rev, box)
  BY DEF Visit, Ordered
<1>2. Answering(u, d, n, wins, tsk, q, {}, conn, rev, snc, box)
  BY ViewUnannounced DEF Visit, Answering
<1>3. Showing(u, d, n, wins, tsk, q, {}, conn, rev, snc, box)
  BY ViewUnannounced DEF Visit, Showing
<1> QED
  BY <1>1, <1>2, <1>3 DEF Visit

LEMMA VisitAnnounced ==
    ASSUME NEW u, NEW d, NEW n, NEW wins, NEW tsk, NEW q, NEW ann, NEW conn, NEW rev, NEW snc,
           NEW box, Visit(u, d, n, wins, tsk, q, ann, conn, rev, snc, box),
           IsSeq(box), ann # {}, u \in conn,
           NEW m, IsOperation(m, d), m.rev = rev, IsAck(m, d) => u \in ann,
           "doc" \in DOMAIN m, m.type = "operation_broadcast" => m.user # u
    PROVE  Visit(u, d, n, wins, tsk, q, {}, conn, rev, snc, Append(box, m))
<1> DEFINE all == Append(box, m)
           last == Len(box) + 1
<1>1. /\ Len(box) \in Nat /\ DOMAIN box = 1 .. Len(box) /\ DOMAIN all = 1 .. last
      /\ \A k \in DOMAIN box : all[k] = box[k]
      /\ all[last] = m
  BY AppendShape, DomainShape
<1>2. ~ Answer(m, d)
  BY DEF Answer, IsOperation
<1>3. rev \in Nat
  BY DEF Visit, Ordered
<1> HIDE DEF all
<1>4. /\ \A k \in DOMAIN all : k # last => k \in DOMAIN box /\ all[k] = box[k] /\ k < last
      /\ \A k \in DOMAIN box : k \in DOMAIN all /\ all[k] = box[k] /\ k \in Nat /\ k <= Len(box)
      /\ last \in DOMAIN all /\ \A k \in DOMAIN all : ~ (last < k)
  BY <1>1
<1> HIDE DEF last
<1>5. Numbered(d, n, wins, tsk, all) /\ ReadTexts(d, tsk, rev, all)
  BY <1>1, <1>2, <1>4 DEF Visit, Numbered, ReadTexts
<1>6. Ordered(u, d, {}, rev, all)
  BY <1>1, <1>3, <1>4 DEF Visit, Ordered
<1>7. Reading(u, d, n, wins, tsk, q, conn, all)
  BY DEF Visit, Reading
<1>8. Answering(u, d, n, wins, tsk, q, {}, conn, rev, snc, all)
  <2> SUFFICES ASSUME NEW k \in DOMAIN all, Answer(all[k], d), all[k].fresh, all[k].n = n
               PROVE  /\ \A w \in wins : w.doc # d
                      /\ \A l \in DOMAIN all : Answer(all[l], d) => l = k
                      /\ View(u, d, all[k].text, Len(all[k].text), FALSE, k, tsk, q, {}, conn,
                              rev, snc, all)
    BY DEF Answering
  <2>1. k \in DOMAIN box /\ all[k] = box[k]
    BY <1>1, <1>2, <1>4
  <2>2. /\ \A w \in wins : w.doc # d
        /\ \A l \in DOMAIN box : Answer(box[l], d) => l = k
        /\ View(u, d, box[k].text, Len(box[k].text), FALSE, k, tsk, q, ann, conn, rev, snc, box)
    BY <2>1 DEF Visit, Answering
  <2>3. View(u, d, box[k].text, Len(box[k].text), FALSE, k, tsk, q, {}, conn, rev, snc, all)
    BY <1>3, <1>4, <2>1, <2>2, ViewAnnounced DEF all
  <2> QED
    BY <1>1, <1>2, <1>4, <2>1, <2>2, <2>3
<1>9. Showing(u, d, n, wins, tsk, q, {}, conn, rev, snc, all)
  <2> SUFFICES ASSUME NEW w \in wins, w.doc = d, w.fresh, w.n = n
               PROVE  /\ \A x \in wins : x.doc = d => x = w
                      /\ \A k \in DOMAIN all : ~ Answer(all[k], d)
                      /\ View(u, d, w.text, w.opened, w.busy, 0, tsk, q, {}, conn, rev, snc, all)
    BY DEF Showing
  <2>1. /\ \A x \in wins : x.doc = d => x = w
        /\ \A k \in DOMAIN box : ~ Answer(box[k], d)
        /\ View(u, d, w.text, w.opened, w.busy, 0, tsk, q, ann, conn, rev, snc, box)
    BY DEF Visit, Showing
  <2>2. View(u, d, w.text, w.opened, w.busy, 0, tsk, q, {}, conn, rev, snc, all)
    <3>1. 0 \in Nat /\ 0 <= Len(box)
      BY <1>1
    <3> QED
      BY <1>3, <2>1, <3>1, ViewAnnounced DEF all
  <2> QED
    BY <1>1, <1>2, <1>4, <2>1, <2>2
<1>10. Visit(u, d, n, wins, tsk, q, {}, conn, rev, snc, all)
  BY <1>5, <1>6, <1>7, <1>8, <1>9 DEF Visit
<1> QED
  BY <1>10 DEF all

\* A window of d that waits for nothing sends an operation.
LEMMA VisitEdits ==
    ASSUME NEW u, NEW d, NEW n, NEW wins, NEW tsk, NEW q, NEW ann, NEW conn, NEW rev, NEW snc,
           NEW box, Visit(u, d, n, wins, tsk, q, ann, conn, rev, snc, box),
           NEW w \in wins, w.doc = d, ~ w.busy,
           NEW x, x.doc = d, x.n = w.n, x.fresh = w.fresh, x.text = w.text,
           x.opened = w.opened, x.busy,
           NEW tsk2, NEW last, last \notin DOMAIN tsk, OpTask(tsk2[last], d),
           \A i \in DOMAIN tsk2 : i = last \/ (i \in DOMAIN tsk /\ tsk2[i] = tsk[i])
    PROVE  Visit(u, d, n, (wins \ {w}) \cup {x}, tsk2, q, ann, conn, rev, snc, box)
<1> DEFINE new == (wins \ {w}) \cup {x}
<1>1. \A y \in new : y = x \/ y \in wins \ {w}
  OBVIOUS
<1> HIDE DEF new
<1>2. tsk2[last].type = "operation" /\ ~ RegTask(tsk2[last], d)
  BY DEF OpTask, RegTask
<1>3. Numbered(d, n, new, tsk2, box)
  BY <1>1, <1>2 DEF Visit, Numbered
<1>4. ReadTexts(d, tsk2, rev, box)
  BY <1>2 DEF Visit, ReadTexts
<1>5. Reading(u, d, n, new, tsk2, q, conn, box)
  BY <1>2 DEF Visit, Reading
<1>6. Answering(u, d, n, new, tsk2, q, ann, conn, rev, snc, box)
  BY DEF Visit, Answering
<1>7. Showing(u, d, n, new, tsk2, q, ann, conn, rev, snc, box)
  <2> SUFFICES ASSUME NEW y \in new, y.doc = d, y.fresh, y.n = n
               PROVE  /\ \A z \in new : z.doc = d => z = y
                      /\ \A k \in DOMAIN box : ~ Answer(box[k], d)
                      /\ View(u, d, y.text, y.opened, y.busy, 0, tsk2, q, ann, conn, rev, snc, box)
    BY DEF Showing
  <2>1. y = x
    BY <1>1 DEF Visit, Showing
  <2>2. /\ \A z \in wins : z.doc = d => z = w
        /\ \A k \in DOMAIN box : ~ Answer(box[k], d)
        /\ View(u, d, w.text, w.opened, w.busy, 0, tsk, q, ann, conn, rev, snc, box)
    BY <2>1 DEF Visit, Showing
  <2>3. OpStage(u, d, "none", 0, tsk, q, ann, conn, box)
    BY <2>2 DEF View
  <2>4. OpStage(u, d, "task", 0, tsk2, q, ann, conn, box)
    BY <2>3 DEF OpStage
  <2>5. PICK stage \in {"task", "queued", "done"} :
          /\ RegStage(u, d, stage, tsk, q)
          /\ stage # "done" => Unregistered(u, d, w.text, w.opened, 0, conn, box)
    BY <2>2 DEF View
  <2>6. RegStage(u, d, stage, tsk2, q)
    BY <1>2, <2>5 DEF RegStage
  <2>7. View(u, d, x.text, x.opened, x.busy, 0, tsk2, q, ann, conn, rev, snc, box)
    BY <2>2, <2>4, <2>5, <2>6 DEF View
  <2> QED
    BY <1>1, <2>1, <2>2, <2>7
<1>8. Visit(u, d, n, new, tsk2, q, ann, conn, rev, snc, box)
  BY <1>3, <1>4, <1>5, <1>6, <1>7 DEF Visit
<1> QED
  BY <1>8 DEF new

-----------------------------------------------------------------------------
(* The client receives the first message of its box. *)

\* The view does not change by a message that is not an operation behind from.
LEMMA ViewTail ==
    ASSUME NEW u, NEW d, NEW text, NEW opened, NEW busy, NEW from \in Nat, NEW to \in Nat,
           NEW tsk, NEW q, NEW ann, NEW conn, NEW rev, NEW snc, NEW box, IsSeq(box),
           box # << >>, from <= to + 1,
           \A k \in DOMAIN box : k > from /\ IsOperation(box[k], d) => k - 1 > to,
           View(u, d, text, opened, busy, from, tsk, q, ann, conn, rev, snc, box)
    PROVE  View(u, d, text, opened, busy, to, tsk, q, ann, conn, rev, snc, Tail(box))
<1> DEFINE rest == Tail(box)
<1>1. /\ Len(box) \in Nat /\ DOMAIN box = 1 .. Len(box) /\ DOMAIN rest = 1 .. Len(box) - 1
      /\ \A k \in 1 .. Len(box) - 1 : rest[k] = box[k + 1]
  BY TailShape, DomainShape
<1> HIDE DEF rest
<1>2. \A k \in DOMAIN rest : k > to =>
         /\ k + 1 \in DOMAIN box /\ k + 1 > from /\ rest[k] = box[k + 1] /\ k \in Nat
  BY <1>1
<1>3. \A k \in DOMAIN box : k > from /\ IsOperation(box[k], d) =>
         k - 1 \in DOMAIN rest /\ k - 1 > to /\ rest[k - 1] = box[k]
  BY <1>1
<1>4. Text(u, d, text, opened, from, ann, conn, rev, snc, box)
  BY DEF View
<1>5. Text(u, d, text, opened, to, ann, conn, rev, snc, rest)
  <2>1. \A k \in DOMAIN rest : k > to /\ IsOperation(rest[k], d) =>
           /\ \A i \in 1 .. Len(text) : text[i] < rest[k].rev
           /\ u \in conn => rest[k].rev > snc
    BY <1>2, <1>4 DEF Text
  <2>2. ASSUME u \in conn
        PROVE  \A r \in snc + 1 .. rev :
                  \/ \E i \in 1 .. Len(text) : text[i] = r
                  \/ \E k \in DOMAIN rest : k > to /\ IsOperation(rest[k], d) /\ rest[k].rev = r
                  \/ r = rev /\ ann # {}
    <3> TAKE r \in snc + 1 .. rev
    <3>1. \/ \E i \in 1 .. Len(text) : text[i] = r
          \/ \E k \in DOMAIN box : k > from /\ IsOperation(box[k], d) /\ box[k].rev = r
          \/ r = rev /\ ann # {}
      BY <1>4, <2>2 DEF Text
    <3> QED
      BY <1>3, <3>1
  <2> QED
    BY <1>4, <2>1, <2>2 DEF Text
<1>6. PICK stage \in {"task", "queued", "done"} :
        /\ RegStage(u, d, stage, tsk, q)
        /\ stage # "done" => Unregistered(u, d, text, opened, from, conn, box)
  BY DEF View
<1>7. stage # "done" => Unregistered(u, d, text, opened, to, conn, rest)
  BY <1>2, <1>6 DEF Unregistered
<1>8. PICK op \in {"none", "task", "queued", "announced", "acked"} :
        OpStage(u, d, op, from, tsk, q, ann, conn, box) /\ (~ busy => op = "none")
  BY DEF View
<1>9. OpStage(u, d, op, to, tsk, q, ann, conn, rest)
  <2>1. \A k, l \in DOMAIN rest :
           k > to /\ l > to /\ IsAck(rest[k], d) /\ IsAck(rest[l], d) => k = l
    <3> SUFFICES ASSUME NEW k \in DOMAIN rest, NEW l \in DOMAIN rest, k > to, l > to,
                        IsAck(rest[k], d), IsAck(rest[l], d)
                 PROVE  k = l
      OBVIOUS
    <3>1. k + 1 = l + 1
      BY <1>2, <1>8 DEF OpStage
    <3> QED
      BY <1>1, <3>1
  <2>2. \A k \in DOMAIN rest : k > to /\ IsAck(rest[k], d) => op = "acked"
    BY <1>2, <1>8 DEF OpStage
  <2> QED
    BY <1>8, <2>1, <2>2 DEF OpStage
<1>10. View(u, d, text, opened, busy, to, tsk, q, ann, conn, rev, snc, rest)
  BY <1>5, <1>6, <1>7, <1>8, <1>9 DEF View
<1> QED
  BY <1>10 DEF rest

\* The view takes in an operation; an acknowledgement finds it waiting.
LEMMA ViewReceives ==
    ASSUME NEW u, NEW d, NEW text, NEW opened, NEW busy, NEW tsk, NEW q, NEW ann, NEW conn,
           NEW rev, NEW snc, NEW box, IsSeq(box), box # << >>, IsOperation(Head(box), d),
           Ordered(u, d, ann, rev, box), NEW busy2, busy => busy2 \/ IsAck(Head(box), d),
           View(u, d, text, opened, busy, 0, tsk, q, ann, conn, rev, snc, box)
    PROVE  /\ IsAck(Head(box), d) => busy
           /\ View(u, d, Append(text, Head(box).rev), opened, busy2, 0, tsk, q, ann, conn, rev,
                   snc, Tail(box))
<1> DEFINE rest == Tail(box)
           m == Head(box)
           txt == Append(text, m.rev)
<1>1. /\ Len(box) \in Nat /\ DOMAIN box = 1 .. Len(box) /\ DOMAIN rest = 1 .. Len(box) - 1
      /\ \A k \in 1 .. Len(box) - 1 : rest[k] = box[k + 1]
      /\ m = box[1] /\ Len(box) > 0
  BY TailShape, DomainShape
<1> HIDE DEF rest, m
<1>2. \A k \in DOMAIN rest : k + 1 \in DOMAIN box /\ k + 1 > 0 /\ rest[k] = box[k + 1] /\ k \in Nat
                             /\ 1 < k + 1
  BY <1>1
<1>3. \A k \in DOMAIN box : k = 1 \/ (k - 1 \in DOMAIN rest /\ k - 1 > 0 /\ rest[k - 1] = box[k])
  BY <1>1
<1>4. Text(u, d, text, opened, 0, ann, conn, rev, snc, box)
  BY DEF View
<1>5. 1 \in DOMAIN box /\ IsOperation(box[1], d) /\ 1 > 0
  BY <1>1 DEF m
<1>6. m.rev \in Nat /\ m.rev <= rev /\ (ann # {} => m.rev < rev) /\ rev \in Nat
  BY <1>1, <1>5 DEF Ordered
<1>7. /\ txt \in Seq(Nat) /\ Len(txt) = Len(text) + 1 /\ Len(text) \in Nat
      /\ \A i \in 1 .. Len(text) : txt[i] = text[i]
      /\ txt[Len(text) + 1] = m.rev
      /\ \A i \in 1 .. Len(text) : text[i] \in Nat
  BY <1>4, <1>6 DEF Text
<1> HIDE DEF txt
<1>8. Text(u, d, txt, opened, 0, ann, conn, rev, snc, rest)
  <2>1. \A i \in 1 .. Len(text) : text[i] < m.rev
    BY <1>1, <1>4, <1>5 DEF Text
  <2>2. opened \in 0 .. Len(txt) /\ \A i \in 1 .. opened : txt[i] = i
    <3>1. opened \in 0 .. Len(text) /\ \A i \in 1 .. opened : text[i] = i
      BY <1>4 DEF Text
    <3> QED
      BY <1>7, <3>1
  <2>3. \A i \in 1 .. Len(txt) : i \in 1 .. Len(text) \/ (i = Len(text) + 1 /\ txt[i] = m.rev)
    BY <1>7
  <2>4. \A i, j \in 1 .. Len(txt) : i < j => txt[i] < txt[j]
    <3> SUFFICES ASSUME NEW i \in 1 .. Len(txt), NEW j \in 1 .. Len(txt), i < j
                 PROVE  txt[i] < txt[j]
      OBVIOUS
    <3>1. i \in 1 .. Len(text)
      BY <1>7
    <3> QED
      BY <1>4, <1>7, <2>1, <2>3, <3>1 DEF Text
  <2>5. \A i \in 1 .. Len(txt) : txt[i] <= rev /\ (u \in conn /\ ann # {} => txt[i] < rev)
    BY <1>4, <1>6, <1>7, <2>3 DEF Text
  <2>6. \A k \in DOMAIN rest : IsOperation(rest[k], d) =>
           /\ m.rev < rest[k].rev /\ \A i \in 1 .. Len(text) : text[i] < rest[k].rev
           /\ u \in conn => rest[k].rev > snc
    BY <1>1, <1>2, <1>4, <1>5 DEF Text, Ordered
  <2>7. \A i \in 1 .. Len(txt) : \A k \in DOMAIN rest :
           IsOperation(rest[k], d) => txt[i] < rest[k].rev
    BY <1>7, <2>3, <2>6
  <2>8. ASSUME u \in conn
        PROVE  /\ \A i \in opened + 1 .. Len(txt) : txt[i] > snc
               /\ \A r \in snc + 1 .. rev :
                     \/ \E i \in 1 .. Len(txt) : txt[i] = r
                     \/ \E k \in DOMAIN rest : k > 0 /\ IsOperation(rest[k], d) /\ rest[k].rev = r
                     \/ r = rev /\ ann # {}
    <3>1. m.rev > snc
      BY <1>1, <1>4, <1>5, <2>8 DEF Text
    <3>2. ASSUME NEW i \in opened + 1 .. Len(txt) PROVE txt[i] > snc
      <4>1. i \in opened + 1 .. Len(text) \/ i = Len(text) + 1
        BY <1>7, <2>2
      <4> QED
        BY <1>4, <1>7, <2>2, <2>8, <3>1, <4>1 DEF Text
    <3>3. ASSUME NEW r \in snc + 1 .. rev
          PROVE  \/ \E i \in 1 .. Len(txt) : txt[i] = r
                 \/ \E k \in DOMAIN rest : k > 0 /\ IsOperation(rest[k], d) /\ rest[k].rev = r
                 \/ r = rev /\ ann # {}
      <4>1. \/ \E i \in 1 .. Len(text) : text[i] = r
            \/ \E k \in DOMAIN box : k > 0 /\ IsOperation(box[k], d) /\ box[k].rev = r
            \/ r = rev /\ ann # {}
        BY <1>4, <2>8 DEF Text
      <4>2. CASE \E i \in 1 .. Len(text) : text[i] = r
        BY <1>7, <4>2
      <4>3. CASE \E k \in DOMAIN box : k > 0 /\ IsOperation(box[k], d) /\ box[k].rev = r
        <5>1. PICK k \in DOMAIN box : IsOperation(box[k], d) /\ box[k].rev = r
          BY <4>3
        <5>2. CASE k = 1
          <6>1. Len(text) + 1 \in 1 .. Len(txt) /\ txt[Len(text) + 1] = r
            BY <1>1, <1>7, <5>1, <5>2
          <6> QED
            BY <6>1
        <5>3. CASE k # 1
          BY <1>3, <5>1, <5>3
        <5> QED
          BY <5>2, <5>3
      <4> QED
        BY <4>1, <4>2, <4>3
    <3> QED
      BY <3>2, <3>3
  <2> QED
    BY <1>4, <1>7, <2>2, <2>4, <2>5, <2>6, <2>7, <2>8 DEF Text
<1>9. RegStage(u, d, "done", tsk, q)
  BY <1>5 DEF View, Unregistered
<1>10. PICK op \in {"none", "task", "queued", "announced", "acked"} :
         OpStage(u, d, op, 0, tsk, q, ann, conn, box) /\ (~ busy => op = "none")
  BY DEF View
<1>11. CASE IsAck(m, d)
  <2>1. op = "acked" /\ busy
    BY <1>1, <1>5, <1>10, <1>11 DEF OpStage
  <2>2. \A k \in DOMAIN rest : ~ IsAck(rest[k], d)
    BY <1>1, <1>2, <1>5, <1>10, <1>11 DEF OpStage
  <2>3. OpStage(u, d, "none", 0, tsk, q, ann, conn, rest)
    BY <1>10, <2>1, <2>2 DEF OpStage
  <2> QED
    BY <1>8, <1>9, <2>1, <2>3 DEF View, rest, m, txt
<1>12. CASE ~ IsAck(m, d)
  <2>1. \A k \in DOMAIN rest : IsAck(rest[k], d) => op = "acked"
    BY <1>2, <1>10 DEF OpStage
  <2>2. \A k, l \in DOMAIN rest : IsAck(rest[k], d) /\ IsAck(rest[l], d) => k = l
    <3> SUFFICES ASSUME NEW k \in DOMAIN rest, NEW l \in DOMAIN rest,
                        IsAck(rest[k], d), IsAck(rest[l], d)
                 PROVE  k = l
      OBVIOUS
    <3>1. k + 1 = l + 1
      BY <1>2, <1>10 DEF OpStage
    <3> QED
      BY <1>2, <3>1
  <2>3. OpStage(u, d, op, 0, tsk, q, ann, conn, rest)
    BY <1>10, <2>1, <2>2 DEF OpStage
  <2>4. ~ busy2 => op = "none"
    BY <1>10, <1>12 DEF m
  <2> QED
    BY <1>8, <1>9, <1>12, <2>3, <2>4 DEF View, rest, m, txt
<1> QED
  BY <1>11, <1>12

\* The box without its first message, as far as d goes.
LEMMA TailParts ==
    ASSUME NEW u, NEW d, NEW n, NEW wins, NEW tsk, NEW q, NEW ann, NEW conn, NEW rev, NEW snc,
           NEW box, Visit(u, d, n, wins, tsk, q, ann, conn, rev, snc, box), IsSeq(box),
           box # << >>
    PROVE  /\ \A k \in DOMAIN Tail(box) : /\ k + 1 \in DOMAIN box /\ Tail(box)[k] = box[k + 1]
                                          /\ k \in Nat /\ k + 1 # 1
           /\ 1 \in DOMAIN box /\ box[1] = Head(box)
           /\ Numbered(d, n, wins, tsk, Tail(box)) /\ Ordered(u, d, ann, rev, Tail(box))
           /\ ReadTexts(d, tsk, rev, Tail(box))
           /\ Reading(u, d, n, wins, tsk, q, conn, Tail(box))
<1> DEFINE rest == Tail(box)
<1>1. /\ Len(box) \in Nat /\ DOMAIN box = 1 .. Len(box) /\ DOMAIN rest = 1 .. Len(box) - 1
      /\ \A k \in 1 .. Len(box) - 1 : rest[k] = box[k + 1]
      /\ Len(box) > 0 /\ Head(box) = box[1]
  BY TailShape, DomainShape
<1> HIDE DEF rest
<1>2. \A k \in DOMAIN rest : k + 1 \in DOMAIN box /\ rest[k] = box[k + 1] /\ k \in Nat /\ k + 1 # 1
  BY <1>1
<1>3. 1 \in DOMAIN box
  BY <1>1
<1>4. Numbered(d, n, wins, tsk, rest)
  BY <1>2 DEF Visit, Numbered
<1>5. Ordered(u, d, ann, rev, rest)
  <2>1. \A k, l \in DOMAIN rest : k < l => k + 1 < l + 1
    BY <1>2
  <2> QED
    BY <1>2, <2>1 DEF Visit, Ordered
<1>6. ReadTexts(d, tsk, rev, rest)
  BY <1>2 DEF Visit, ReadTexts
<1>7. Reading(u, d, n, wins, tsk, q, conn, rest)
  BY <1>2 DEF Visit, Reading
<1> QED
  BY <1>1, <1>2, <1>3, <1>4, <1>5, <1>6, <1>7 DEF rest

\* A message that is neither an operation on d nor an answer about d.
LEMMA VisitOtherArrives ==
    ASSUME NEW u, NEW d, NEW n, NEW wins, NEW tsk, NEW q, NEW ann, NEW conn, NEW rev, NEW snc,
           NEW box, Visit(u, d, n, wins, tsk, q, ann, conn, rev, snc, box), IsSeq(box),
           box # << >>, ~ IsOperation(Head(box), d), ~ Answer(Head(box), d)
    PROVE  Visit(u, d, n, wins, tsk, q, ann, conn, rev, snc, Tail(box))
<1> DEFINE rest == Tail(box)
<1>1. /\ \A k \in DOMAIN rest : k + 1 \in DOMAIN box /\ rest[k] = box[k + 1] /\ k \in Nat /\ k + 1 # 1
      /\ 1 \in DOMAIN box /\ box[1] = Head(box)
      /\ Numbered(d, n, wins, tsk, rest) /\ Ordered(u, d, ann, rev, rest)
      /\ ReadTexts(d, tsk, rev, rest) /\ Reading(u, d, n, wins, tsk, q, conn, rest)
  BY TailParts
<1>2. \A k \in DOMAIN box : k \in Nat /\ k > 0
  BY DomainShape
<1>3. Answering(u, d, n, wins, tsk, q, ann, conn, rev, snc, rest)
  <2> HIDE DEF rest
  <2> SUFFICES ASSUME NEW k \in DOMAIN rest, Answer(rest[k], d), rest[k].fresh, rest[k].n = n
               PROVE  /\ \A w \in wins : w.doc # d
                      /\ \A l \in DOMAIN rest : Answer(rest[l], d) => l = k
                      /\ View(u, d, rest[k].text, Len(rest[k].text), FALSE, k, tsk, q, ann, conn,
                              rev, snc, rest)
    BY DEF Answering
  <2>1. /\ \A w \in wins : w.doc # d
        /\ \A l \in DOMAIN box : Answer(box[l], d) => l = k + 1
        /\ View(u, d, rest[k].text, Len(rest[k].text), FALSE, k + 1, tsk, q, ann, conn, rev, snc,
                box)
    BY <1>1 DEF Visit, Answering
  <2>2. \A l \in DOMAIN rest : Answer(rest[l], d) => l + 1 = k + 1
    BY <1>1, <2>1
  <2>3. \A l \in DOMAIN rest : Answer(rest[l], d) => l = k
    BY <1>1, <2>2
  <2>4. /\ k \in Nat /\ k + 1 \in Nat /\ k + 1 <= k + 1
        /\ \A l \in DOMAIN box : l > k + 1 /\ IsOperation(box[l], d) => l - 1 > k
    BY <1>1, <1>2
  <2>5. View(u, d, rest[k].text, Len(rest[k].text), FALSE, k, tsk, q, ann, conn, rev, snc, Tail(box))
    BY <2>1, <2>4, ViewTail
  <2> QED
    BY <2>1, <2>3, <2>5 DEF rest
<1>4. Showing(u, d, n, wins, tsk, q, ann, conn, rev, snc, rest)
  <2> SUFFICES ASSUME NEW w \in wins, w.doc = d, w.fresh, w.n = n
               PROVE  /\ \A x \in wins : x.doc = d => x = w
                      /\ \A k \in DOMAIN rest : ~ Answer(rest[k], d)
                      /\ View(u, d, w.text, w.opened, w.busy, 0, tsk, q, ann, conn, rev, snc, rest)
    BY DEF Showing
  <2>1. /\ \A x \in wins : x.doc = d => x = w
        /\ \A k \in DOMAIN box : ~ Answer(box[k], d)
        /\ View(u, d, w.text, w.opened, w.busy, 0, tsk, q, ann, conn, rev, snc, box)
    BY DEF Visit, Showing
  <2>2. /\ 0 \in Nat /\ 0 <= 0 + 1
        /\ \A l \in DOMAIN box : l > 0 /\ IsOperation(box[l], d) => l - 1 > 0
    BY <1>1, <1>2
  <2>3. View(u, d, w.text, w.opened, w.busy, 0, tsk, q, ann, conn, rev, snc, Tail(box))
    BY <2>1, <2>2, ViewTail
  <2> QED
    BY <1>1, <2>1, <2>3
<1> QED
  BY <1>1, <1>3, <1>4 DEF Visit

\* The answer to a request arrives: it opens a window x or is ignored.
LEMMA VisitAnswerArrives ==
    ASSUME NEW u, NEW d, NEW n, NEW wins, NEW tsk, NEW q, NEW ann, NEW conn, NEW rev, NEW snc,
           NEW box, Visit(u, d, n, wins, tsk, q, ann, conn, rev, snc, box), IsSeq(box),
           box # << >>, Answer(Head(box), d),
           NEW x, x.doc = d, x.n = Head(box).n, x.fresh = Head(box).fresh,
           x.text = Head(box).text, x.opened = Len(Head(box).text), x.busy = FALSE,
           NEW wins2, \A y \in wins2 : y = x \/ y \in wins
    PROVE  Visit(u, d, n, wins2, tsk, q, ann, conn, rev, snc, Tail(box))
<1> DEFINE rest == Tail(box)
<1>1. /\ \A k \in DOMAIN rest : k + 1 \in DOMAIN box /\ rest[k] = box[k + 1] /\ k \in Nat /\ k + 1 # 1
      /\ 1 \in DOMAIN box /\ box[1] = Head(box)
      /\ Numbered(d, n, wins, tsk, rest) /\ Ordered(u, d, ann, rev, rest)
      /\ ReadTexts(d, tsk, rev, rest)
  BY TailParts
<1>2. \A k \in DOMAIN box : k \in Nat /\ k > 0
  BY DomainShape
<1>3. View(u, d, x.text, x.opened, FALSE, 1, tsk, q, ann, conn, rev, snc, box)
      => View(u, d, x.text, x.opened, FALSE, 0, tsk, q, ann, conn, rev, snc, rest)
  <2>1. /\ 0 \in Nat /\ 1 \in Nat /\ 1 <= 0 + 1
        /\ \A l \in DOMAIN box : l > 1 /\ IsOperation(box[l], d) => l - 1 > 0
    BY <1>2
  <2> QED
    BY <2>1, ViewTail
<1> HIDE DEF rest
<1>4. Numbered(d, n, wins2, tsk, rest)
  BY <1>1 DEF Visit, Numbered
<1>5. Reading(u, d, n, wins2, tsk, q, conn, rest)
  BY <1>1 DEF Visit, Reading
<1>6. Answering(u, d, n, wins2, tsk, q, ann, conn, rev, snc, rest)
  BY <1>1 DEF Visit, Answering
<1>7. Showing(u, d, n, wins2, tsk, q, ann, conn, rev, snc, rest)
  <2> SUFFICES ASSUME NEW w \in wins2, w.doc = d, w.fresh, w.n = n
               PROVE  /\ \A y \in wins2 : y.doc = d => y = w
                      /\ \A k \in DOMAIN rest : ~ Answer(rest[k], d)
                      /\ View(u, d, w.text, w.opened, w.busy, 0, tsk, q, ann, conn, rev, snc, rest)
    BY DEF Showing
  <2>1. w = x
    BY <1>1 DEF Visit, Showing
  <2>2. /\ \A y \in wins : y.doc # d
        /\ \A l \in DOMAIN box : Answer(box[l], d) => l = 1
        /\ View(u, d, box[1].text, Len(box[1].text), FALSE, 1, tsk, q, ann, conn, rev, snc, box)
    BY <1>1, <2>1 DEF Visit, Answering
  <2>3. View(u, d, w.text, w.opened, w.busy, 0, tsk, q, ann, conn, rev, snc, rest)
    BY <1>1, <1>3, <2>1, <2>2
  <2> QED
    BY <1>1, <2>1, <2>2, <2>3
<1>8. Visit(u, d, n, wins2, tsk, q, ann, conn, rev, snc, rest)
  BY <1>1, <1>4, <1>5, <1>6, <1>7 DEF Visit
<1> QED
  BY <1>8 DEF rest

\* An operation on d arrives: g says what it makes of the windows.
LEMMA VisitOperationArrives ==
    ASSUME NEW u, NEW d, NEW n, NEW wins, NEW tsk, NEW q, NEW ann, NEW conn, NEW rev, NEW snc,
           NEW box, Visit(u, d, n, wins, tsk, q, ann, conn, rev, snc, box), IsSeq(box),
           box # << >>, IsOperation(Head(box), d),
           NEW g, NEW wins2, \A y \in wins2 : \E w \in wins : y = g[w],
           \A w \in wins : /\ g[w].doc = w.doc /\ g[w].n = w.n /\ g[w].fresh = w.fresh
                           /\ g[w].opened = w.opened,
           \A w \in wins : w.doc = d =>
              /\ IsAck(Head(box), d) =>
                    (w.busy => g[w].text = Append(w.text, Head(box).rev))
              /\ ~ IsAck(Head(box), d) =>
                    g[w].text = Append(w.text, Head(box).rev) /\ g[w].busy = w.busy
    PROVE  Visit(u, d, n, wins2, tsk, q, ann, conn, rev, snc, Tail(box))
<1> DEFINE rest == Tail(box)
<1>1. /\ \A k \in DOMAIN rest : k + 1 \in DOMAIN box /\ rest[k] = box[k + 1] /\ k \in Nat /\ k + 1 # 1
      /\ 1 \in DOMAIN box /\ box[1] = Head(box)
      /\ Numbered(d, n, wins, tsk, rest) /\ Ordered(u, d, ann, rev, rest)
      /\ ReadTexts(d, tsk, rev, rest) /\ Reading(u, d, n, wins, tsk, q, conn, rest)
  BY TailParts
<1>2. \A k \in DOMAIN box : k \in Nat /\ k > 0
  BY DomainShape
<1>3. ASSUME NEW w \in wins, w.doc = d,
             View(u, d, w.text, w.opened, w.busy, 0, tsk, q, ann, conn, rev, snc, box)
      PROVE  View(u, d, g[w].text, w.opened, g[w].busy, 0, tsk, q, ann, conn, rev, snc, rest)
  <2>0. Ordered(u, d, ann, rev, box)
    BY DEF Visit
  <2>1. w.busy => g[w].busy \/ IsAck(Head(box), d)
    BY <1>3
  <2>2. /\ IsAck(Head(box), d) => w.busy
        /\ View(u, d, Append(w.text, Head(box).rev), w.opened, g[w].busy, 0, tsk, q, ann, conn,
                rev, snc, Tail(box))
    BY <1>3, <2>0, <2>1, ViewReceives
  <2>3. g[w].text = Append(w.text, Head(box).rev)
    BY <1>3, <2>2
  <2> QED
    BY <2>2, <2>3
<1>9. ASSUME NEW k \in DOMAIN rest, Answer(rest[k], d), rest[k].fresh, rest[k].n = n
      PROVE  /\ \A w \in wins : w.doc # d
             /\ \A l \in DOMAIN rest : Answer(rest[l], d) => l = k
             /\ View(u, d, rest[k].text, Len(rest[k].text), FALSE, k, tsk, q, ann, conn, rev, snc,
                     rest)
  <2>1. /\ \A w \in wins : w.doc # d
        /\ \A l \in DOMAIN box : Answer(box[l], d) => l = k + 1
        /\ View(u, d, rest[k].text, Len(rest[k].text), FALSE, k + 1, tsk, q, ann, conn, rev, snc,
                box)
    BY <1>1, <1>9 DEF Visit, Answering
  <2>2. \A l \in DOMAIN rest : Answer(rest[l], d) => l + 1 = k + 1
    BY <1>1, <2>1
  <2>3. \A l \in DOMAIN rest : Answer(rest[l], d) => l = k
    BY <1>1, <2>2
  <2>4. /\ k \in Nat /\ k + 1 \in Nat /\ k + 1 <= k + 1
        /\ \A l \in DOMAIN box : l > k + 1 /\ IsOperation(box[l], d) => l - 1 > k
    BY <1>1, <1>2
  <2>5. View(u, d, rest[k].text, Len(rest[k].text), FALSE, k, tsk, q, ann, conn, rev, snc, Tail(box))
    BY <2>1, <2>4, ViewTail
  <2> QED
    BY <2>1, <2>3, <2>5
<1> HIDE DEF rest
<1>4. Numbered(d, n, wins2, tsk, rest)
  BY <1>1 DEF Numbered
<1>5. Reading(u, d, n, wins2, tsk, q, conn, rest)
  BY <1>1 DEF Reading
<1>6. Answering(u, d, n, wins2, tsk, q, ann, conn, rev, snc, rest)
  <2>1. (\A w \in wins : w.doc # d) => \A w \in wins2 : w.doc # d
    OBVIOUS
  <2> QED
    BY <1>9, <2>1 DEF Answering
<1>7. Showing(u, d, n, wins2, tsk, q, ann, conn, rev, snc, rest)
  <2> SUFFICES ASSUME NEW y \in wins2, y.doc = d, y.fresh, y.n = n
               PROVE  /\ \A z \in wins2 : z.doc = d => z = y
                      /\ \A k \in DOMAIN rest : ~ Answer(rest[k], d)
                      /\ View(u, d, y.text, y.opened, y.busy, 0, tsk, q, ann, conn, rev, snc, rest)
    BY DEF Showing
  <2>1. PICK w \in wins : y = g[w] /\ w.doc = d /\ w.fresh /\ w.n = n
    OBVIOUS
  <2>2. /\ \A z \in wins : z.doc = d => z = w
        /\ \A k \in DOMAIN box : ~ Answer(box[k], d)
        /\ View(u, d, w.text, w.opened, w.busy, 0, tsk, q, ann, conn, rev, snc, box)
    BY <2>1 DEF Visit, Showing
  <2>3. View(u, d, y.text, y.opened, y.busy, 0, tsk, q, ann, conn, rev, snc, rest)
    BY <1>3, <2>1, <2>2
  <2> QED
    BY <1>1, <2>1, <2>2, <2>3
<1>8. Visit(u, d, n, wins2, tsk, q, ann, conn, rev, snc, rest)
  BY <1>1, <1>4, <1>5, <1>6, <1>7 DEF Visit
<1> QED
  BY <1>8 DEF rest

\* The windows are what g makes of them, which is nothing the visit is about.
LEMMA MappedWindows ==
    ASSUME NEW wins, NEW d, NEW g, NEW wins2,
           \A y \in wins2 : y.doc = d => \E w \in wins : y = g[w],
           \A w \in wins : /\ g[w].doc = w.doc /\ g[w].n = w.n /\ g[w].fresh = w.fresh
                           /\ g[w].opened = w.opened,
           \A w \in wins : w.doc = d => g[w].text = w.text /\ g[w].busy = w.busy
    PROVE  WindowsEmbed(wins2, wins, d)
<1> DEFINE f == [y \in wins2 |-> CHOOSE w \in wins : y = g[w]]
<1>1. \A y \in wins2 : y.doc = d => f[y] \in wins /\ y = g[f[y]]
  OBVIOUS
<1> HIDE DEF f
<1>2. ASSUME NEW y \in wins2, y.doc = d
      PROVE  /\ f[y] \in wins /\ f[y].doc = d /\ f[y].n = y.n /\ f[y].fresh = y.fresh
             /\ f[y].text = y.text /\ f[y].opened = y.opened /\ f[y].busy = y.busy
             /\ \A z \in wins2 : z.doc = d /\ f[z] = f[y] => z = y
  BY <1>1, <1>2
<1> QED
  BY <1>2 DEF WindowsEmbed

\* One window is replaced by another of the same visit.
LEMMA SwappedWindow ==
    ASSUME NEW wins, NEW d, NEW w \in wins, NEW x, x.doc = w.doc, x.n = w.n, x.fresh = w.fresh,
           x.opened = w.opened, x.text = w.text, x.busy = w.busy
    PROVE  WindowsEmbed((wins \ {w}) \cup {x}, wins, d)
<1> DEFINE f == [y \in (wins \ {w}) \cup {x} |-> IF y = x THEN w ELSE y]
<1>1. \A y \in (wins \ {w}) \cup {x} : (y = x /\ f[y] = w) \/ (y # x /\ y # w /\ y \in wins /\ f[y] = y)
  OBVIOUS
<1> HIDE DEF f
<1>2. ASSUME NEW y \in (wins \ {w}) \cup {x}, y.doc = d
      PROVE  /\ f[y] \in wins /\ f[y].doc = d /\ f[y].n = y.n /\ f[y].fresh = y.fresh
             /\ f[y].text = y.text /\ f[y].opened = y.opened /\ f[y].busy = y.busy
             /\ \A z \in (wins \ {w}) \cup {x} : z.doc = d /\ f[z] = f[y] => z = y
  BY <1>1, <1>2
<1> QED
  BY <1>2 DEF WindowsEmbed

-----------------------------------------------------------------------------
(* The client: what the requests are that it sends on the way from c to r. *)

Asked(c, r) ==
    /\ IsClient(r) /\ DOMAIN r.asked = Docs /\ IsSeq(r.out)
    /\ \A i \in DOMAIN r.out :
          IsRequest(r.out[i]) /\ r.out[i].pc = "received" /\ r.out[i].type # "operation"
    /\ \A d \in Docs :
          \/ /\ r.asked[d] = c.asked[d]
             /\ \A i \in DOMAIN r.out : ~ RegTask(r.out[i], d)
          \/ /\ r.asked[d] = c.asked[d] + 1
             /\ \A i \in DOMAIN r.out : RegTask(r.out[i], d) => r.out[i].n = c.asked[d] + 1

\* No document is opened or left on the way.
Unasked(c, r) ==
    /\ Asked(c, r) /\ r.asked = c.asked
    /\ \A i \in DOMAIN r.out : r.out[i].type \notin {"doc_join_request", "doc_leave_request"}

LEMMA RequestShape ==
    ASSUME NEW type, NEW doc, NEW target, NEW n
    PROVE  LET t == Request(type, doc, target, n)
           IN  /\ IsRequest(t) /\ t.type = type /\ t.doc = doc /\ t.n = n
               /\ t.pc = "received" /\ t.target = target /\ ~ t.fresh
  BY DEF Request, IsRequest

LEMMA NothingAsked ==
    ASSUME NEW c, IsClient(c), DOMAIN c.asked = Docs, c.out = << >>
    PROVE  Unasked(c, c)
<1>1. IsSeq(c.out) /\ DOMAIN c.out = {}
  BY EmptyShape, DomainShape
<1> QED
  BY <1>1 DEF Unasked, Asked

\* The other parts of the client do not matter.
LEMMA AskedElsewhere ==
    ASSUME NEW c, NEW r, NEW x, IsClient(x), x.asked = r.asked, x.out = r.out
    PROVE  (Asked(c, r) => Asked(c, x)) /\ (Unasked(c, r) => Unasked(c, x))
  BY DEF Asked, Unasked

LEMMA AsksOther ==
    ASSUME NEW c, NEW r, Asked(c, r), NEW type, NEW d, NEW target,
           type \notin {"doc_join_request", "doc_leave_request", "operation"}
    PROVE  LET x == Ask(r, type, d, target)
           IN  /\ Asked(c, x) /\ (Unasked(c, r) => Unasked(c, x))
               /\ x.windows = r.windows /\ x.pending = r.pending
<1> DEFINE t == Request(type, d, target, 0)
           all == Append(r.out, t)
           x == Ask(r, type, d, target)
<1>1. IsRequest(t) /\ t.type = type /\ t.pc = "received"
  BY RequestShape
<1>2. /\ IsSeq(all) /\ Len(r.out) \in Nat /\ DOMAIN r.out = 1 .. Len(r.out)
      /\ DOMAIN all = 1 .. Len(r.out) + 1
      /\ \A i \in DOMAIN r.out : all[i] = r.out[i]
      /\ all[Len(r.out) + 1] = t
  BY AppendShape, DomainShape DEF Asked
<1>3. /\ IsClient(x) /\ x.windows = r.windows /\ x.pending = r.pending /\ x.asked = r.asked
      /\ x.out = all
  BY DEF Ask, IsClient, Asked
<1> HIDE DEF t, all, x
<1>4. \A i \in DOMAIN all : (i \in DOMAIN r.out /\ all[i] = r.out[i]) \/ all[i] = t
  BY <1>2
<1>5. \A i \in DOMAIN all : all[i] = t \/ \E j \in DOMAIN r.out : all[i] = r.out[j]
  BY <1>4
<1>6. \A e : ~ RegTask(t, e)
  BY <1>1 DEF RegTask
<1>7. Asked(c, x)
  BY <1>1, <1>2, <1>3, <1>5, <1>6 DEF Asked
<1>8. Unasked(c, r) => Unasked(c, x)
  BY <1>1, <1>3, <1>5, <1>7 DEF Unasked
<1> QED
  BY <1>3, <1>7, <1>8 DEF x

LEMMA AsksOnce ==
    ASSUME NEW c, NEW r, Unasked(c, r), NEW type, NEW d, NEW target,
           type \in {"doc_join_request", "doc_leave_request"}
    PROVE  LET x == Ask(r, type, d, target)
           IN  Asked(c, x) /\ x.windows = r.windows /\ x.pending = r.pending
<1> DEFINE t == Request(type, d, target, r.asked[d] + 1)
           all == Append(r.out, t)
           x == Ask(r, type, d, target)
<1>1. IsRequest(t) /\ t.type = type /\ t.doc = d /\ t.n = r.asked[d] + 1 /\ t.pc = "received"
  BY RequestShape
<1>2. /\ IsSeq(all) /\ Len(r.out) \in Nat /\ DOMAIN r.out = 1 .. Len(r.out)
      /\ DOMAIN all = 1 .. Len(r.out) + 1
      /\ \A i \in DOMAIN r.out : all[i] = r.out[i]
      /\ all[Len(r.out) + 1] = t
  BY AppendShape, DomainShape DEF Asked, Unasked
<1>3. /\ IsClient(x) /\ x.windows = r.windows /\ x.pending = r.pending
      /\ x.asked = [r.asked EXCEPT ![d] = @ + 1] /\ x.out = all
  BY DEF Ask, IsClient, Asked, Unasked
<1> HIDE DEF t, all, x
<1>4. \A i \in DOMAIN all : (i \in DOMAIN r.out /\ all[i] = r.out[i]) \/ all[i] = t
  BY <1>2
<1>5. \A i \in DOMAIN all : all[i] = t \/ \E j \in DOMAIN r.out : all[i] = r.out[j]
  BY <1>4
<1>6. \A j \in DOMAIN r.out : \A e : ~ RegTask(r.out[j], e)
  BY DEF Unasked, RegTask
<1>7. \A e : RegTask(t, e) => e = d
  BY <1>1 DEF RegTask
<1>8. /\ DOMAIN x.asked = Docs
      /\ \A e \in Docs : x.asked[e] = IF e = d THEN c.asked[d] + 1 ELSE c.asked[e]
  BY <1>3 DEF Unasked, Asked
<1>9. \A i \in DOMAIN all :
         IsRequest(all[i]) /\ all[i].pc = "received" /\ all[i].type # "operation"
  BY <1>1, <1>5 DEF Unasked, Asked
<1>10. \A i \in DOMAIN all : \A e : RegTask(all[i], e) => e = d /\ all[i].n = c.asked[d] + 1
  BY <1>1, <1>5, <1>6, <1>7 DEF Unasked
<1>12. ASSUME NEW e \in Docs
       PROVE  \/ /\ x.asked[e] = c.asked[e]
                 /\ \A i \in DOMAIN all : ~ RegTask(all[i], e)
              \/ /\ x.asked[e] = c.asked[e] + 1
                 /\ \A i \in DOMAIN all : RegTask(all[i], e) => all[i].n = c.asked[e] + 1
  <2>1. CASE e = d
    BY <1>8, <1>10, <2>1
  <2>2. CASE e # d
    BY <1>8, <1>10, <2>2
  <2> QED
    BY <2>1, <2>2
<1>11. Asked(c, x)
  BY <1>2, <1>3, <1>8, <1>9, <1>12 DEF Asked
<1> QED
  BY <1>3, <1>11 DEF x

\* The windows of the client as it takes in a message.
Heard(u, w, m) ==
    IF "doc" \in DOMAIN m /\ m.doc = w.doc THEN onNetworkMessage(u, w, m) ELSE w

LEMMA HeardShape ==
    ASSUME NEW u, NEW w, NEW m, IsWindow(w), NEW x, x = Heard(u, w, m)
    PROVE  /\ IsWindow(x) /\ x.doc = w.doc /\ x.n = w.n /\ x.fresh = w.fresh
           /\ x.opened = w.opened
           /\ ~ IsOperation(m, w.doc) => x.text = w.text /\ x.busy = w.busy
           /\ "doc" \in DOMAIN m /\ IsOperation(m, w.doc) =>
                 /\ IsAck(m, w.doc) => (w.busy => x.text = Append(w.text, m.rev))
                 /\ ~ IsAck(m, w.doc) /\ m.user # u =>
                       x.text = Append(w.text, m.rev) /\ x.busy = w.busy
<1>1. CASE ~ ("doc" \in DOMAIN m /\ m.doc = w.doc)
  BY <1>1 DEF Heard, IsOperation
<1>2. CASE "doc" \in DOMAIN m /\ m.doc = w.doc
  <2>0. x = onNetworkMessage(u, w, m)
    BY <1>2 DEF Heard
  <2>1. CASE m.type = "operation_ack"
    <3>1. x = handleAck(w, m)
      BY <2>0, <2>1 DEF onNetworkMessage
    <3> QED
      BY <1>2, <2>1, <3>1 DEF handleAck, IsWindow, IsOperation, IsAck
  <2>2. CASE m.type = "operation_broadcast"
    <3>1. x = handleBroadcast(u, w, m)
      BY <2>0, <2>2 DEF onNetworkMessage
    <3> QED
      BY <1>2, <2>2, <3>1 DEF handleBroadcast, IsWindow, IsOperation, IsAck
  <2>3. CASE m.type \notin {"operation_ack", "operation_broadcast"}
    <3>1. \A d : ~ IsOperation(m, d)
      BY <2>3 DEF IsOperation
    <3>2. IsWindow(x) /\ x.doc = w.doc /\ x.n = w.n /\ x.fresh = w.fresh
          /\ x.opened = w.opened /\ x.text = w.text /\ x.busy = w.busy
      <4>1. CASE m.type = "user_joined"
        BY <2>0, <4>1 DEF onNetworkMessage, handleUserJoined, IsWindow
      <4>2. CASE m.type = "user_left"
        BY <2>0, <4>2 DEF onNetworkMessage, handleUserLeft, IsWindow
      <4>3. CASE m.type = "cursor_broadcast"
        BY <2>0, <4>3 DEF onNetworkMessage, handleCursorBroadcast, onRemoteCursorsChanged, IsWindow
      <4>4. CASE m.type = "role_changed"
        BY <2>0, <4>4 DEF onNetworkMessage, handleRoleChanged, IsWindow
      <4>5. CASE m.type \notin {"user_joined", "user_left", "cursor_broadcast", "role_changed"}
        BY <2>0, <2>3, <4>5 DEF onNetworkMessage
      <4> QED
        BY <4>1, <4>2, <4>3, <4>4, <4>5
    <3> QED
      BY <3>1, <3>2
  <2> QED
    BY <2>1, <2>2, <2>3
<1> QED
  BY <1>1, <1>2

\* The list is asked for.
LEMMA Refreshes ==
    ASSUME NEW c, NEW r, Asked(c, r)
    PROVE  /\ Asked(c, refresh(r)) /\ (Unasked(c, r) => Unasked(c, refresh(r)))
           /\ refresh(r).windows = r.windows /\ refresh(r).pending = r.pending
<1>1. ASSUME NEW type, NEW d, NEW target, type = "doc_list_request"
      PROVE  /\ Asked(c, Ask(r, type, d, target))
             /\ (Unasked(c, r) => Unasked(c, Ask(r, type, d, target)))
             /\ Ask(r, type, d, target).windows = r.windows
             /\ Ask(r, type, d, target).pending = r.pending
  <2>1. type \notin {"doc_join_request", "doc_leave_request", "operation"}
    BY <1>1
  <2> QED
    BY <2>1, AsksOther
<1> QED
  BY <1>1 DEF refresh

LEMMA FiniteImage ==
    ASSUME NEW f, IsFiniteSet(DOMAIN f)
    PROVE  IsFiniteSet({f[x] : x \in DOMAIN f})
<1> DEFINE S == DOMAIN f
           T == {f[x] : x \in S}
           g == [x \in S |-> f[x]]
<1>1. g \in Surjection(S, T)
  BY DEF Surjection
<1> HIDE DEF g, T
<1>2. IsFiniteSet(T)
  BY <1>1, FS_Surjection
<1> QED
  BY <1>2 DEF T

\* The list window takes in a message first.
LEMMA ListReceives ==
    ASSUME NEW u, NEW c, NEW m, IsClient(c), DOMAIN c.asked = Docs, c.out = << >>
    PROVE  LET r == onMessageReceived(u, c, m)
           IN  /\ Asked(c, r) /\ (m.type # "doc_create_response" => Unasked(c, r))
               /\ \/ r.windows = c.windows
                  \/ /\ m.type = "doc_join_response" /\ m.success
                     /\ r.windows = c.windows \cup {EditorWindow(u, m)}
<1> DEFINE r == onMessageReceived(u, c, m)
<1>1. Unasked(c, c)
  BY NothingAsked
<1>2. Asked(c, c) /\ (\A x : Unasked(c, x) => Asked(c, x))
  BY <1>1 DEF Unasked
<1>3. CASE m.type = "doc_list_response"
  <2>1. r = [c EXCEPT !.list = m.docs]
    BY <1>3 DEF onMessageReceived
  <2>2. IsClient(r) /\ r.asked = c.asked /\ r.out = c.out /\ r.windows = c.windows
    BY <2>1 DEF IsClient
  <2> QED
    BY <1>1, <1>2, <2>2, AskedElsewhere
<1>4. CASE m.type = "doc_create_response"
  <2>1. r = requestJoin(refresh(c), m.doc)
    BY <1>4 DEF onMessageReceived, handleDocCreateResponse
  <2> DEFINE s == refresh(c)
             p == [s EXCEPT !.pending = m.doc]
  <2>2. Unasked(c, s) /\ s.windows = c.windows
    BY <1>1, <1>2, Refreshes
  <2>3. r = IF s.pending # 0 THEN s ELSE Ask(p, "doc_join_request", m.doc, "")
    BY <2>1 DEF requestJoin
  <2> HIDE DEF s
  <2>4. IsClient(p) /\ p.asked = s.asked /\ p.out = s.out /\ p.windows = s.windows
    BY <2>2 DEF IsClient, Unasked, Asked
  <2> HIDE DEF p
  <2>5. Unasked(c, p)
    BY <2>2, <2>4, AskedElsewhere
  <2>6. CASE s.pending # 0
    BY <1>2, <1>4, <2>2, <2>3, <2>6
  <2>7. CASE ~ (s.pending # 0)
    <3>1. r = Ask(p, "doc_join_request", m.doc, "")
      BY <2>3, <2>7
    <3>2. Asked(c, r) /\ r.windows = p.windows
      <4>1. ASSUME NEW type, NEW d, NEW target, type = "doc_join_request"
            PROVE  LET x == Ask(p, type, d, target) IN Asked(c, x) /\ x.windows = p.windows
        BY <2>5, <4>1, AsksOnce
      <4> QED
        BY <3>1, <4>1
    <3> QED
      BY <1>4, <2>2, <2>4, <3>2
  <2> QED
    BY <2>6, <2>7
<1>5. CASE m.type = "doc_join_response"
  <2>1. r = handleDocJoinResponse(u, c, m)
    BY <1>5 DEF onMessageReceived
  <2>2. IsClient(r) /\ r.asked = c.asked /\ r.out = c.out
    BY <2>1 DEF handleDocJoinResponse, openEditor, IsClient
  <2>3. \/ r.windows = c.windows
        \/ m.success /\ r.windows = c.windows \cup {EditorWindow(u, m)}
    BY <2>1 DEF handleDocJoinResponse, openEditor, IsClient
  <2> QED
    BY <1>1, <1>2, <1>5, <2>2, <2>3, AskedElsewhere
<1>6. CASE m.type = "error"
  <2>1. r = [c EXCEPT !.pending = 0]
    BY <1>6 DEF onMessageReceived, handleErrorMessage
  <2>2. IsClient(r) /\ r.asked = c.asked /\ r.out = c.out /\ r.windows = c.windows
    BY <2>1 DEF IsClient
  <2> QED
    BY <1>1, <1>2, <2>2, AskedElsewhere
<1>7. CASE m.type \in {"doc_delete_response", "doc_share_response", "role_changed",
                       "doc_deleted", "user_joined", "user_left"}
  <2>1. r = refresh(c)
    BY <1>7 DEF onMessageReceived
  <2>2. Unasked(c, r) /\ r.windows = c.windows
    BY <1>1, <1>2, <2>1, Refreshes
  <2> QED
    BY <1>2, <2>2
<1>8. CASE m.type \notin {"doc_list_response", "doc_create_response", "doc_join_response", "error",
                          "doc_delete_response", "doc_share_response", "role_changed",
                          "doc_deleted", "user_joined", "user_left"}
  <2>1. r = c
    BY <1>8 DEF onMessageReceived
  <2> QED
    BY <1>1, <1>2, <2>1
<1> QED
  BY <1>3, <1>4, <1>5, <1>6, <1>7, <1>8

LEMMA ReceivedShape ==
    ASSUME NEW u, NEW c, NEW m, IsClient(c), DOMAIN c.asked = Docs, c.out = << >>,
           GoodWindows(c.windows),
           m.type = "doc_join_response" /\ m.success => m.doc \in Docs
    PROVE  LET r == Received(u, c, m)
           IN  /\ Asked(c, r) /\ GoodWindows(r.windows)
               /\ (m.type # "doc_create_response" => Unasked(c, r))
               /\ \A x \in r.windows :
                     \/ \E w \in c.windows : x = Heard(u, w, m)
                     \/ /\ m.type = "doc_join_response" /\ m.success
                        /\ x = EditorWindow(u, m)
<1> DEFINE r == Received(u, c, m)
           listed == onMessageReceived(u, c, m)
           old == Editors(u, c, m)
           new == listed.windows \ c.windows
           all == [listed EXCEPT !.windows = old \cup new]
<1>1. /\ Asked(c, listed) /\ (m.type # "doc_create_response" => Unasked(c, listed))
      /\ \/ listed.windows = c.windows
         \/ /\ m.type = "doc_join_response" /\ m.success
            /\ listed.windows = c.windows \cup {EditorWindow(u, m)}
  BY ListReceives
<1>2. r = IF m.type = "doc_deleted" THEN handleDocDeleted(all, m) ELSE all
  BY DEF Received
<1>3. old = {Heard(u, w, m) : w \in c.windows}
  BY DEF Editors, Heard
<1>4. /\ IsFiniteSet(old)
      /\ \A x \in old : \E w \in c.windows : x = Heard(u, w, m)
      /\ \A x \in old : IsWindow(x) /\ x.doc \in Docs
  <2> DEFINE f == [w \in c.windows |-> Heard(u, w, m)]
  <2>2. IsFiniteSet(DOMAIN f)
    BY DEF GoodWindows
  <2>3. {f[w] : w \in DOMAIN f} = {Heard(u, w, m) : w \in c.windows}
    OBVIOUS
  <2> HIDE DEF f
  <2>1. IsFiniteSet({Heard(u, w, m) : w \in c.windows})
    BY <2>2, <2>3, FiniteImage
  <2> QED
    BY <1>3, <2>1, HeardShape DEF GoodWindows
<1>5. new = {} \/ (m.type = "doc_join_response" /\ m.success /\ new \subseteq {EditorWindow(u, m)})
  BY <1>1
<1>6. IsFiniteSet(new)
  <2>1. new \in SUBSET {EditorWindow(u, m)}
    BY <1>5
  <2>2. IsFiniteSet({EditorWindow(u, m)})
    BY FS_Singleton
  <2> QED
    BY <2>1, <2>2, FS_Subset
<1>7. new # {} => IsWindow(EditorWindow(u, m)) /\ EditorWindow(u, m).doc \in Docs
  BY <1>5 DEF EditorWindow, IsWindow
<1>8. /\ IsClient(all) /\ all.asked = listed.asked /\ all.out = listed.out
      /\ all.windows = old \cup new
  BY <1>1 DEF Asked, IsClient
<1> HIDE DEF listed, old, new, all
<1>9. Asked(c, all) /\ (m.type # "doc_create_response" => Unasked(c, all))
  BY <1>1, <1>8, AskedElsewhere
<1>10. GoodWindows(all.windows)
  <2>1. IsFiniteSet(old \cup new)
    BY <1>4, <1>6, FS_Union
  <2> QED
    BY <1>4, <1>5, <1>7, <1>8, <2>1 DEF GoodWindows
<1>11. \A x \in all.windows :
          \/ \E w \in c.windows : x = Heard(u, w, m)
          \/ m.type = "doc_join_response" /\ m.success /\ x = EditorWindow(u, m)
  BY <1>4, <1>5, <1>8
<1>12. CASE m.type # "doc_deleted"
  BY <1>2, <1>9, <1>10, <1>11, <1>12 DEF r
<1>13. CASE m.type = "doc_deleted"
  <2> DEFINE closed == {w \in all.windows : w.doc = m.doc}
             number == Cardinality(closed)
             t == Request("doc_list_request", 0, "", 0)
             refreshes == [i \in 1 .. number |-> t]
  <2>1. r = [all EXCEPT !.windows = @ \ closed, !.visible = @ \/ closed # {},
                        !.out = @ \o refreshes]
    BY <1>2, <1>13 DEF handleDocDeleted
  <2>2. number \in Nat
    <3>1. IsFiniteSet(closed)
      BY <1>10, FS_Subset DEF GoodWindows
    <3> QED
      BY <3>1, FS_CardinalityType
  <2>3. IsRequest(t) /\ t.type = "doc_list_request" /\ t.pc = "received"
    BY DEF Request, IsRequest
  <2> HIDE DEF number, t
  <2>4. /\ IsSeq(refreshes) /\ DOMAIN refreshes = 1 .. number /\ Len(refreshes) = number
        /\ \A i \in 1 .. number : refreshes[i] = t
    <3>1. refreshes \in [1 .. number -> {t}]
      OBVIOUS
    <3>2. refreshes \in Seq({t})
      BY <2>2, <3>1
    <3>3. Len(refreshes) = number
      BY <2>2
    <3> QED
      BY <3>2, <3>3 DEF IsSeq
  <2> HIDE DEF refreshes
  <2>5. IsSeq(all.out)
    BY <1>9 DEF Asked
  <2>6. PICK out : IsConcat(out, all.out, refreshes) /\ Joins(out, all.out, refreshes)
    BY <2>4, <2>5, ConcatNamed
  <2>7. /\ IsClient(r) /\ r.windows = all.windows \ closed /\ r.asked = all.asked
        /\ r.out = out
    BY <1>8, <2>1, <2>6 DEF IsClient, IsConcat
  <2>8. /\ IsSeq(out) /\ DOMAIN out = 1 .. Len(all.out) + number
        /\ Len(all.out) \in Nat /\ DOMAIN all.out = 1 .. Len(all.out)
        /\ \A i \in 1 .. Len(all.out) : out[i] = all.out[i]
        /\ \A i \in 1 .. number : out[Len(all.out) + i] = t
    BY <2>4, <2>5, <2>6, DomainShape DEF Joins
  <2>9. \A i \in DOMAIN out : out[i] = t \/ \E j \in DOMAIN all.out : out[i] = all.out[j]
    <3> SUFFICES ASSUME NEW i \in 1 .. Len(all.out) + number
                 PROVE  out[i] = t \/ \E j \in DOMAIN all.out : out[i] = all.out[j]
      BY <2>8
    <3>1. CASE i \in 1 .. Len(all.out)
      BY <2>8, <3>1
    <3>2. CASE i \notin 1 .. Len(all.out)
      <4>1. i - Len(all.out) \in 1 .. number /\ i = Len(all.out) + (i - Len(all.out))
        BY <2>2, <2>8, <3>2
      <4> QED
        BY <2>8, <4>1
    <3> QED
      BY <3>1, <3>2
  <2>10. \A d : ~ RegTask(t, d)
    BY <2>3 DEF RegTask
  <2>11. Asked(c, r)
    BY <1>9, <2>3, <2>7, <2>8, <2>9, <2>10 DEF Asked
  <2>12. Unasked(c, r)
    BY <1>9, <1>13, <2>3, <2>7, <2>9, <2>11 DEF Unasked
  <2>13. GoodWindows(r.windows)
    <3>1. IsFiniteSet(r.windows)
      BY <1>10, <2>7, FS_Subset DEF GoodWindows
    <3> QED
      BY <1>10, <2>7, <3>1 DEF GoodWindows
  <2> QED
    BY <1>11, <2>7, <2>11, <2>12, <2>13
<1> QED
  BY <1>12, <1>13

\* The client of a visit sends its requests.
LEMMA VisitAsks ==
    ASSUME NEW u, NEW d \in Docs, NEW c, NEW r, NEW wins, NEW tsk, NEW q, NEW ann, NEW conn,
           NEW rev, NEW snc, NEW box,
           Visit(u, d, c.asked[d], wins, tsk, q, ann, conn, rev, snc, box), Asked(c, r), IsSeq(tsk)
    PROVE  Visit(u, d, r.asked[d], wins, tsk \o r.out, q, ann, conn, rev, snc, box)
<1> DEFINE out == r.out
           n == c.asked[d]
<1>1. /\ IsSeq(out) /\ \A i \in DOMAIN out : out[i].pc = "received" /\ out[i].type # "operation"
      /\ \/ r.asked[d] = n /\ \A i \in DOMAIN out : ~ RegTask(out[i], d)
         \/ r.asked[d] = n + 1 /\ \A i \in DOMAIN out : RegTask(out[i], d) => out[i].n = n + 1
  BY DEF Asked
<1>2. Visit(u, d, n, wins, tsk, q, ann, conn, rev, snc, box)
  OBVIOUS
<1> HIDE DEF out, n
<1>3. CASE r.asked[d] = n /\ \A i \in DOMAIN out : ~ RegTask(out[i], d)
  <2>1. \A i \in DOMAIN out : ~ RegTask(out[i], d) /\ ~ OpTask(out[i], d)
    BY <1>1, <1>3 DEF OpTask
  <2>2. TaskEmbeds(tsk \o out, tsk, d)
    BY <1>1, <2>1, MoreTasks
  <2>3. Visit(u, d, n, wins, tsk \o out, q, ann, conn, rev, snc, box)
    BY <1>2, <2>2, SameCommands, SameBox, FewerWindows, VisitEmbeds
  <2> QED
    BY <1>3, <2>3 DEF out
<1>4. CASE r.asked[d] = n + 1 /\ \A i \in DOMAIN out : RegTask(out[i], d) => out[i].n = n + 1
  <2>1. PICK all : IsConcat(all, tsk, out) /\ Joins(all, tsk, out)
    BY <1>1, ConcatNamed
  <2>2. /\ IsSeq(all) /\ Len(all) = Len(tsk) + Len(out)
        /\ \A i \in 1 .. Len(tsk) : all[i] = tsk[i]
        /\ \A i \in 1 .. Len(out) : all[Len(tsk) + i] = out[i]
    BY <2>1 DEF Joins
  <2>3. /\ DOMAIN all = 1 .. Len(tsk) + Len(out) /\ Len(tsk) \in Nat /\ Len(out) \in Nat
        /\ DOMAIN tsk = 1 .. Len(tsk) /\ DOMAIN out = 1 .. Len(out)
    BY <1>1, <2>2, DomainShape
  <2>4. \A i \in DOMAIN all : \/ i \in DOMAIN tsk /\ all[i] = tsk[i]
                              \/ \E j \in DOMAIN out : all[i] = out[j]
    <3> SUFFICES ASSUME NEW i \in 1 .. Len(tsk) + Len(out), i \notin DOMAIN tsk
                 PROVE  \E j \in DOMAIN out : all[i] = out[j]
      BY <2>2, <2>3
    <3>1. i - Len(tsk) \in 1 .. Len(out) /\ i = Len(tsk) + (i - Len(tsk))
      BY <2>3
    <3> QED
      BY <2>2, <2>3, <3>1
  <2>5. n \in Nat /\ Ordered(u, d, ann, rev, box)
    BY <1>2 DEF Visit, Numbered
  <2>6. ReadTexts(d, all, rev, box)
    BY <1>1, <1>2, <2>4 DEF Visit, ReadTexts
  <2>7. \A i \in DOMAIN all : RegTask(all[i], d) =>
           /\ all[i].n \in Nat
           /\ all[i].n <= n \/ (all[i].n = n + 1 /\ all[i].pc # "read")
    <3> SUFFICES ASSUME NEW i \in DOMAIN all, RegTask(all[i], d)
                 PROVE  /\ all[i].n \in Nat
                        /\ all[i].n <= n \/ (all[i].n = n + 1 /\ all[i].pc # "read")
      OBVIOUS
    <3>1. CASE i \in DOMAIN tsk /\ all[i] = tsk[i]
      BY <1>2, <3>1 DEF Visit, Numbered
    <3>2. CASE \E j \in DOMAIN out : all[i] = out[j]
      BY <1>1, <1>4, <2>5, <3>2
    <3> QED
      BY <2>4, <3>1, <3>2
  <2>8. /\ \A k \in DOMAIN box : Answer(box[k], d) => box[k].n \in Nat /\ box[k].n <= n
        /\ \A w \in wins : w.doc = d => w.n \in Nat /\ w.n <= n
    BY <1>2 DEF Visit, Numbered
  <2>9. Visit(u, d, n + 1, wins, all, q, ann, conn, rev, snc, box)
    BY <2>5, <2>6, <2>7, <2>8, VisitAsked
  <2> QED
    BY <1>4, <2>1, <2>9 DEF IsConcat, out
<1> QED
  BY <1>1, <1>3, <1>4

\* The client of a visit takes in the first message of its box.
LEMMA VisitReceives ==
    ASSUME NEW u, NEW d \in Docs, NEW c, NEW tsk, NEW q, NEW ann, NEW conn, NEW rev, NEW snc,
           NEW box, Visit(u, d, c.asked[d], c.windows, tsk, q, ann, conn, rev, snc, box),
           IsClient(c), DOMAIN c.asked = Docs, c.out = << >>, GoodWindows(c.windows),
           IsSeq(tsk), IsSeq(box), box # << >>,
           Head(box).type = "doc_join_response" /\ Head(box).success => Head(box).doc \in Docs
    PROVE  LET r == Received(u, c, Head(box))
           IN  Visit(u, d, r.asked[d], r.windows, tsk \o r.out, q, ann, conn, rev, snc, Tail(box))
<1> DEFINE m == Head(box)
           r == Received(u, c, m)
           n == c.asked[d]
           g == [w \in c.windows |-> Heard(u, w, m)]
<1>1. /\ Asked(c, r)
      /\ \A x \in r.windows :
            \/ \E w \in c.windows : x = Heard(u, w, m)
            \/ m.type = "doc_join_response" /\ m.success /\ x = EditorWindow(u, m)
  BY ReceivedShape
<1> HIDE DEF r
<1>2. \A w \in c.windows : g[w] = Heard(u, w, m) /\ IsWindow(w)
  BY DEF GoodWindows
<1> HIDE DEF g, m
<1>3. \A w \in c.windows : /\ g[w].doc = w.doc /\ g[w].n = w.n /\ g[w].fresh = w.fresh
                           /\ g[w].opened = w.opened
  BY <1>2, HeardShape
<1>7. \A w \in c.windows :
         /\ ~ IsOperation(m, w.doc) => g[w].text = w.text /\ g[w].busy = w.busy
         /\ "doc" \in DOMAIN m /\ IsOperation(m, w.doc) =>
               /\ IsAck(m, w.doc) => (w.busy => g[w].text = Append(w.text, m.rev))
               /\ ~ IsAck(m, w.doc) /\ m.user # u =>
                     g[w].text = Append(w.text, m.rev) /\ g[w].busy = w.busy
  BY <1>2, HeardShape
<1> SUFFICES Visit(u, d, n, r.windows, tsk, q, ann, conn, rev, snc, Tail(box))
  BY <1>1, VisitAsks DEF r, m
<1>4. CASE IsOperation(m, d)
  <2>1. "doc" \in DOMAIN m /\ (m.type = "operation_broadcast" => m.user # u)
    <3>1. 1 \in DOMAIN box /\ box[1] = m
      BY TailShape, DomainShape DEF m
    <3> QED
      BY <1>4, <3>1 DEF Visit, Ordered
  <2>2. \A y \in r.windows : \E w \in c.windows : y = g[w]
    BY <1>1, <1>2, <1>4 DEF IsOperation
  <2>3. ~ IsAck(m, d) => m.user # u
    BY <1>4, <2>1 DEF IsAck, IsOperation
  <2>4. \A w \in c.windows : w.doc = d =>
              /\ IsAck(m, d) => (w.busy => g[w].text = Append(w.text, m.rev))
              /\ ~ IsAck(m, d) => g[w].text = Append(w.text, m.rev) /\ g[w].busy = w.busy
    BY <1>4, <1>7, <2>1, <2>3
  <2> QED
    BY <1>3, <1>4, <2>2, <2>4, VisitOperationArrives DEF m
<1>5. CASE Answer(m, d)
  <2> DEFINE x == EditorWindow(u, m)
  <2>1. /\ x.doc = d /\ x.n = m.n /\ x.fresh = m.fresh /\ x.text = m.text
        /\ x.opened = Len(m.text) /\ x.busy = FALSE
    BY <1>5 DEF EditorWindow, Answer
  <2>2. \A w \in c.windows : Heard(u, w, m) = w
    BY <1>5 DEF Heard, onNetworkMessage, Answer
  <2>3. \A y \in r.windows : y = x \/ y \in c.windows
    BY <1>1, <2>2
  <2> HIDE DEF x
  <2> QED
    BY <1>5, <2>1, <2>3, VisitAnswerArrives DEF m
<1>6. CASE ~ IsOperation(m, d) /\ ~ Answer(m, d)
  <2>1. Visit(u, d, n, c.windows, tsk, q, ann, conn, rev, snc, Tail(box))
    BY <1>6, VisitOtherArrives DEF m
  <2>2. \A y \in r.windows : y.doc = d => \E w \in c.windows : y = g[w]
    BY <1>1, <1>2, <1>6 DEF EditorWindow, Answer
  <2>3. \A w \in c.windows : w.doc = d => g[w].text = w.text /\ g[w].busy = w.busy
    BY <1>6, <1>7
  <2>4. WindowsEmbed(r.windows, c.windows, d)
    BY <1>3, <2>2, <2>3, MappedWindows
  <2> QED
    BY <2>1, <2>4, SameTasks, SameCommands, SameBox, VisitEmbeds
<1> QED
  BY <1>4, <1>5, <1>6

-----------------------------------------------------------------------------
(* The steps *)

\* The client of u takes a step.
LEMMA ClientStep ==
    ASSUME IndInv, NEW u \in Users, NEW c, Becomes(u, c),
           IsClient(c), DOMAIN c.asked = Docs, GoodWindows(c.windows), IsSeq(c.out),
           \A i \in DOMAIN c.out : IsRequest(c.out[i]) /\ c.out[i].pc = "received",
           DOMAIN inbox' = Users, GoodBox(inbox'[u]), \A v \in Users : v # u => inbox'[v] = inbox[v],
           \A d \in Docs : Visit(u, d, c.asked[d], c.windows, tasks[u] \o c.out, queue[d],
                                 announce[d], connected_users[d], revision[d], since[d][u], inbox'[u])
    PROVE  IndInv'
<1> DEFINE e == [c EXCEPT !.out = << >>]
           all == tasks[u] \o c.out
<1>1. /\ link[u] = "up" /\ app' = [app EXCEPT ![u] = e] /\ tasks' = [tasks EXCEPT ![u] = all]
      /\ link' = link /\ UNCHANGED sessionVars /\ documents' = documents
  BY DEF Becomes, serverVars, managerVars
<1>2. /\ IsClient(e) /\ e.asked = c.asked /\ e.windows = c.windows /\ e.out = << >>
  BY DEF IsClient
<1>3. /\ DOMAIN app = Users /\ DOMAIN tasks = Users /\ UserShape(app[u], tasks[u], inbox[u])
      /\ \A v \in Users : UserShape(app[v], tasks[v], inbox[v])
  BY DEF IndInv, Shape
<1>4. GoodTasks(all)
  <2>1. IsSeq(tasks[u]) /\ GoodTasks(tasks[u])
    BY <1>3 DEF UserShape, GoodTasks
  <2> DEFINE s == tasks[u]
             out == c.out
  <2> HIDE DEF s, out
  <2>2. PICK both : IsConcat(both, s, out) /\ Joins(both, s, out)
    BY <2>1, ConcatNamed DEF s, out
  <2>3. /\ IsSeq(both) /\ Len(both) = Len(s) + Len(out)
        /\ \A i \in 1 .. Len(s) : both[i] = s[i]
        /\ \A i \in 1 .. Len(out) : both[Len(s) + i] = out[i]
    BY <2>2 DEF Joins
  <2>4. /\ DOMAIN both = 1 .. Len(s) + Len(out) /\ Len(s) \in Nat /\ Len(out) \in Nat
        /\ DOMAIN s = 1 .. Len(s) /\ DOMAIN out = 1 .. Len(out)
    BY <2>1, <2>3, DomainShape DEF s, out
  <2>5. ASSUME NEW i \in DOMAIN both
        PROVE  (\E j \in DOMAIN s : both[i] = s[j]) \/ (\E j \in DOMAIN out : both[i] = out[j])
    <3>1. CASE i \in 1 .. Len(s)
      BY <2>3, <2>4, <3>1
    <3>2. CASE i \notin 1 .. Len(s)
      <4>1. i - Len(s) \in 1 .. Len(out) /\ i = Len(s) + (i - Len(s))
        BY <2>4, <2>5, <3>2
      <4> QED
        BY <2>3, <2>4, <4>1
    <3> QED
      BY <3>1, <3>2
  <2>6. GoodTasks(s) /\ \A i \in DOMAIN out : IsRequest(out[i]) /\ out[i].pc = "received"
    BY <2>1 DEF s, out
  <2>7. GoodTasks(both)
    BY <2>3, <2>5, <2>6 DEF GoodTasks
  <2> QED
    BY <2>2, <2>7 DEF IsConcat, s, out
<1> HIDE DEF e, all
<1>5. /\ DOMAIN app' = Users /\ DOMAIN tasks' = Users /\ app'[u] = e /\ tasks'[u] = all
      /\ \A v \in Users : v # u => app'[v] = app[v] /\ tasks'[v] = tasks[v]
  BY <1>1, <1>3
<1>6. /\ queue' = queue /\ announce' = announce /\ connected_users' = connected_users
      /\ revision' = revision /\ since' = since
  BY <1>1 DEF sessionVars
<1>7. \A v \in Users : UserShape(app'[v], tasks'[v], inbox'[v])
  <2>1. UserShape(e, all, inbox'[u])
    BY <1>2, <1>4 DEF UserShape
  <2> QED
    BY <1>3, <1>5, <2>1
<1>8. Shape'
  BY <1>1, <1>5, <1>6, <1>7 DEF IndInv, Shape
<1>9. GoneInv'
  BY <1>1, <1>5 DEF IndInv, GoneInv
<1>10. VisitsInv'
  <2> SUFFICES ASSUME NEW v \in Users, NEW d \in Docs, link[v] = "up"
               PROVE  Visit(v, d, app'[v].asked[d], app'[v].windows, tasks'[v], queue[d],
                            announce[d], connected_users[d], revision[d], since[d][v], inbox'[v])
    BY <1>1, <1>6 DEF VisitsInv, VisitOf
  <2>1. CASE v = u
    BY <1>2, <1>5, <2>1 DEF all
  <2>2. CASE v # u
    BY <1>5, <2>2 DEF IndInv, VisitsInv, VisitOf
  <2> QED
    BY <2>1, <2>2
<1> QED
  BY <1>8, <1>9, <1>10 DEF IndInv

LEMMA DeliverStep ==
    ASSUME IndInv, NEW u \in Users, Deliver(u)
    PROVE  IndInv'
<1> DEFINE m == Head(inbox[u])
           c == Received(u, app[u], m)
           box == Tail(inbox[u])
<1>1. /\ inbox[u] # << >> /\ Becomes(u, c) /\ inbox' = [inbox EXCEPT ![u] = box]
  BY DEF Deliver
<1>2. UserShape(app[u], tasks[u], inbox[u]) /\ DOMAIN inbox = Users
  BY DEF IndInv, Shape
<1>3. /\ IsClient(app[u]) /\ DOMAIN app[u].asked = Docs /\ app[u].out = << >>
      /\ GoodWindows(app[u].windows) /\ IsSeq(tasks[u]) /\ GoodBox(inbox[u])
  BY <1>2 DEF UserShape, GoodTasks
<1>4. /\ IsSeq(inbox[u]) /\ Len(inbox[u]) \in Nat /\ DOMAIN inbox[u] = 1 .. Len(inbox[u])
      /\ m = inbox[u][1] /\ 1 \in DOMAIN inbox[u]
      /\ IsSeq(box) /\ DOMAIN box = 1 .. Len(inbox[u]) - 1
      /\ \A k \in 1 .. Len(inbox[u]) - 1 : box[k] = inbox[u][k + 1]
  BY <1>1, <1>3, TailShape, DomainShape DEF GoodBox
<1>5. m.type = "doc_join_response" /\ m.success => m.doc \in Docs
  BY <1>3, <1>4 DEF GoodBox
<1>6. Asked(app[u], c) /\ GoodWindows(c.windows)
  BY <1>3, <1>5, ReceivedShape
<1>7. link[u] = "up"
  BY <1>1 DEF Becomes
<1>8. ASSUME NEW d \in Docs
      PROVE  Visit(u, d, c.asked[d], c.windows, tasks[u] \o c.out, queue[d],
                   announce[d], connected_users[d], revision[d], since[d][u], box)
  <2>1. Visit(u, d, app[u].asked[d], app[u].windows, tasks[u], queue[d], announce[d],
              connected_users[d], revision[d], since[d][u], inbox[u])
    BY <1>7 DEF IndInv, VisitsInv, VisitOf
  <2> QED
    BY <1>1, <1>3, <1>4, <1>5, <2>1, VisitReceives
<1>9. GoodBox(box)
  <2>1. \A k \in DOMAIN box : k + 1 \in DOMAIN inbox[u] /\ box[k] = inbox[u][k + 1]
    BY <1>4
  <2> QED
    BY <1>3, <1>4, <2>1 DEF GoodBox
<1> HIDE DEF m, c, box
<1>10. /\ DOMAIN inbox' = Users /\ inbox'[u] = box
       /\ \A v \in Users : v # u => inbox'[v] = inbox[v]
  BY <1>1, <1>2
<1>11. /\ IsClient(c) /\ DOMAIN c.asked = Docs /\ IsSeq(c.out)
       /\ \A i \in DOMAIN c.out : IsRequest(c.out[i]) /\ c.out[i].pc = "received"
  BY <1>6 DEF Asked
<1> QED
  BY <1>1, <1>6, <1>8, <1>9, <1>10, <1>11, ClientStep

\* A step of the user that sends no operation and leaves the visits as they are.
LEMMA UserStep ==
    ASSUME IndInv, NEW u \in Users, NEW c, Becomes(u, c), inbox' = inbox,
           Asked(app[u], c), GoodWindows(c.windows),
           \A d \in Docs : WindowsEmbed(c.windows, app[u].windows, d)
    PROVE  IndInv'
<1>1. /\ UserShape(app[u], tasks[u], inbox[u]) /\ DOMAIN inbox = Users /\ link[u] = "up"
  BY DEF IndInv, Shape, Becomes
<1>2. IsSeq(tasks[u]) /\ GoodBox(inbox[u])
  BY <1>1 DEF UserShape, GoodTasks
<1>3. ASSUME NEW d \in Docs
      PROVE  Visit(u, d, c.asked[d], c.windows, tasks[u] \o c.out, queue[d],
                   announce[d], connected_users[d], revision[d], since[d][u], inbox[u])
  <2>1. Visit(u, d, app[u].asked[d], app[u].windows, tasks[u], queue[d], announce[d],
              connected_users[d], revision[d], since[d][u], inbox[u])
    BY <1>1 DEF IndInv, VisitsInv, VisitOf
  <2>2. Visit(u, d, app[u].asked[d], c.windows, tasks[u], queue[d], announce[d],
              connected_users[d], revision[d], since[d][u], inbox[u])
    BY <2>1, SameTasks, SameCommands, SameBox, VisitEmbeds
  <2> QED
    BY <1>2, <2>2, VisitAsks
<1>4. /\ IsClient(c) /\ DOMAIN c.asked = Docs /\ IsSeq(c.out)
      /\ \A i \in DOMAIN c.out : IsRequest(c.out[i]) /\ c.out[i].pc = "received"
  BY DEF Asked
<1> QED
  BY <1>1, <1>2, <1>3, <1>4, ClientStep

\* What a user may ask for without touching a window.
LEMMA AskingStep ==
    ASSUME IndInv, NEW u \in Users, NEW act, NEW type, NEW d, NEW target,
           type \notin {"doc_join_request", "doc_leave_request", "operation"},
           User(u, act, Ask(app[u], type, d, target))
    PROVE  IndInv'
<1> DEFINE c == Ask(app[u], type, d, target)
<1>1. UserShape(app[u], tasks[u], inbox[u])
  BY DEF IndInv, Shape
<1>2. Unasked(app[u], app[u])
  BY <1>1, NothingAsked DEF UserShape
<1>3. Asked(app[u], app[u])
  BY <1>2 DEF Unasked
<1>4. Asked(app[u], c) /\ c.windows = app[u].windows
  BY <1>3, AsksOther
<1>5. Becomes(u, c) /\ inbox' = inbox
  BY DEF User
<1> HIDE DEF c
<1>6. GoodWindows(c.windows) /\ \A e \in Docs : WindowsEmbed(c.windows, app[u].windows, e)
  BY <1>1, <1>4, FewerWindows DEF UserShape
<1> QED
  BY <1>4, <1>5, <1>6, UserStep

LEMMA OpenStep ==
    ASSUME IndInv, NEW u \in Users, onOpenClicked(u)
    PROVE  IndInv'
<1>1. PICK d : app[u].pending = 0 /\ User(u, "open", requestJoin(app[u], d))
  BY DEF onOpenClicked
<1> DEFINE p == [app[u] EXCEPT !.pending = d]
           c == requestJoin(app[u], d)
<1>2. UserShape(app[u], tasks[u], inbox[u])
  BY DEF IndInv, Shape
<1>3. IsClient(app[u])
  BY <1>2 DEF UserShape
<1>4. IsClient(p) /\ p.asked = app[u].asked /\ p.out = app[u].out /\ p.windows = app[u].windows
  BY <1>3 DEF IsClient
<1>5. Unasked(app[u], app[u])
  BY <1>2, NothingAsked DEF UserShape
<1> HIDE DEF p
<1>6. Unasked(app[u], p)
  BY <1>4, <1>5, AskedElsewhere
<1>7. c = Ask(p, "doc_join_request", d, "")
  BY <1>1 DEF requestJoin, p
<1>8. Asked(app[u], c) /\ c.windows = p.windows
  <2>1. ASSUME NEW type, NEW e, NEW target, type = "doc_join_request"
        PROVE  LET x == Ask(p, type, e, target) IN Asked(app[u], x) /\ x.windows = p.windows
    BY <1>6, <2>1, AsksOnce
  <2>2. LET x == Ask(p, "doc_join_request", d, "")
        IN  Asked(app[u], x) /\ x.windows = p.windows
    BY <2>1
  <2> HIDE DEF c
  <2> QED
    BY <1>7, <2>2
<1>9. Becomes(u, c) /\ inbox' = inbox
  BY <1>1 DEF User
<1> HIDE DEF c
<1>10. GoodWindows(c.windows) /\ \A e \in Docs : WindowsEmbed(c.windows, app[u].windows, e)
  BY <1>2, <1>4, <1>8, FewerWindows DEF UserShape
<1> QED
  BY <1>8, <1>9, <1>10, UserStep

LEMMA CloseStep ==
    ASSUME IndInv, NEW u \in Users, closeEvent(u)
    PROVE  IndInv'
<1>1. PICK w \in app[u].windows :
        User(u, "leave", leftDocument(Ask([app[u] EXCEPT !.windows = @ \ {w}],
                                          "doc_leave_request", w.doc, "")))
  BY DEF closeEvent
<1> DEFINE left == [app[u] EXCEPT !.windows = @ \ {w}]
           asks == Ask(left, "doc_leave_request", w.doc, "")
           shown == [asks EXCEPT !.visible = TRUE]
           c == leftDocument(asks)
<1>2. UserShape(app[u], tasks[u], inbox[u])
  BY DEF IndInv, Shape
<1>3. IsClient(app[u]) /\ GoodWindows(app[u].windows)
  BY <1>2 DEF UserShape
<1>4. /\ IsClient(left) /\ left.asked = app[u].asked /\ left.out = app[u].out
      /\ left.windows = app[u].windows \ {w}
  BY <1>3 DEF IsClient
<1>5. Unasked(app[u], app[u])
  BY <1>2, NothingAsked DEF UserShape
<1> HIDE DEF left
<1>6. Unasked(app[u], left)
  BY <1>4, <1>5, AskedElsewhere
<1>7. Asked(app[u], asks) /\ asks.windows = left.windows
  <2>1. ASSUME NEW type, NEW d, NEW target, type = "doc_leave_request"
        PROVE  LET x == Ask(left, type, d, target)
               IN  Asked(app[u], x) /\ x.windows = left.windows
    BY <1>6, <2>1, AsksOnce
  <2> QED
    BY <2>1
<1> HIDE DEF asks
<1>8. /\ IsClient(shown) /\ shown.asked = asks.asked /\ shown.out = asks.out
      /\ shown.windows = asks.windows
  BY <1>7 DEF IsClient, Asked
<1>9. c = refresh(shown)
  BY DEF leftDocument
<1> HIDE DEF shown
<1>10. Asked(app[u], shown)
  BY <1>7, <1>8, AskedElsewhere
<1>11. Asked(app[u], c) /\ c.windows = app[u].windows \ {w}
  BY <1>4, <1>7, <1>8, <1>9, <1>10, Refreshes
<1>12. Becomes(u, c) /\ inbox' = inbox
  BY <1>1 DEF User, left, asks
<1> HIDE DEF c
<1>13. GoodWindows(c.windows)
  <2>1. c.windows \in SUBSET app[u].windows
    BY <1>11
  <2>2. IsFiniteSet(c.windows)
    BY <1>3, <2>1, FS_Subset DEF GoodWindows
  <2> QED
    BY <1>3, <2>1, <2>2 DEF GoodWindows
<1>14. \A e \in Docs : WindowsEmbed(c.windows, app[u].windows, e)
  BY <1>11, FewerWindows
<1> QED
  BY <1>11, <1>12, <1>13, <1>14, UserStep

\* The windows when w becomes x.
LEMMA SwappedGood ==
    ASSUME NEW wins, GoodWindows(wins), NEW w \in wins, NEW x, IsWindow(x), x.doc = w.doc
    PROVE  GoodWindows((wins \ {w}) \cup {x})
<1>1. IsFiniteSet(wins \ {w}) /\ IsFiniteSet({x})
  <2>1. wins \ {w} \in SUBSET wins
    OBVIOUS
  <2> QED
    BY <2>1, FS_Subset, FS_Singleton DEF GoodWindows
<1>2. IsFiniteSet((wins \ {w}) \cup {x})
  BY <1>1, FS_Union
<1> QED
  BY <1>2 DEF GoodWindows

LEMMA CursorStep ==
    ASSUME IndInv, NEW u \in Users, onCursorBroadcastTimeout(u)
    PROVE  IndInv'
<1>1. PICK w \in app[u].windows :
        Sends(u, "cursor", w, [w EXCEPT !.cursor_dirty = FALSE], "cursor_update")
  BY DEF onCursorBroadcastTimeout
<1> DEFINE x == [w EXCEPT !.cursor_dirty = FALSE]
           r == [app[u] EXCEPT !.windows = (@ \ {w}) \cup {x}]
           c == Ask(r, "cursor_update", w.doc, "")
<1>2. UserShape(app[u], tasks[u], inbox[u])
  BY DEF IndInv, Shape
<1>3. IsClient(app[u]) /\ GoodWindows(app[u].windows) /\ IsWindow(w)
  BY <1>2 DEF UserShape, GoodWindows
<1>4. /\ x.doc = w.doc /\ x.n = w.n /\ x.fresh = w.fresh /\ x.opened = w.opened
      /\ x.text = w.text /\ x.busy = w.busy /\ IsWindow(x)
  BY <1>3 DEF IsWindow
<1>5. Becomes(u, c) /\ inbox' = inbox
  BY <1>1 DEF Sends, User
<1> HIDE DEF x
<1>6. /\ IsClient(r) /\ r.asked = app[u].asked /\ r.out = app[u].out
      /\ r.windows = (app[u].windows \ {w}) \cup {x}
  BY <1>3 DEF IsClient
<1> HIDE DEF r
<1>7. Unasked(app[u], app[u])
  BY <1>2, NothingAsked DEF UserShape
<1>8. Asked(app[u], r)
  BY <1>6, <1>7, AskedElsewhere DEF Unasked
<1>9. Asked(app[u], c) /\ c.windows = r.windows
  <2>1. ASSUME NEW type, NEW e, NEW target, type = "cursor_update"
        PROVE  LET y == Ask(r, type, e, target) IN Asked(app[u], y) /\ y.windows = r.windows
    <3>1. type \notin {"doc_join_request", "doc_leave_request", "operation"}
      BY <2>1
    <3> QED
      BY <1>8, <3>1, AsksOther
  <2> QED
    BY <2>1
<1> HIDE DEF c
<1>10. GoodWindows(c.windows)
  BY <1>3, <1>4, <1>6, <1>9, SwappedGood
<1>11. \A e \in Docs : WindowsEmbed(c.windows, app[u].windows, e)
  BY <1>4, <1>6, <1>9, SwappedWindow
<1> QED
  BY <1>5, <1>9, <1>10, <1>11, UserStep

LEMMA EditStep ==
    ASSUME IndInv, NEW u \in Users, Edit(u)
    PROVE  IndInv'
<1>1. PICK w \in app[u].windows :
        ~ w.busy /\ Sends(u, "edit", w, [w EXCEPT !.busy = TRUE, !.cursor_dirty = TRUE], "operation")
  BY DEF Edit
<1> DEFINE x == [w EXCEPT !.busy = TRUE, !.cursor_dirty = TRUE]
           r == [app[u] EXCEPT !.windows = (@ \ {w}) \cup {x}]
           c == Ask(r, "operation", w.doc, "")
           t == Request("operation", w.doc, "", 0)
           wins == (app[u].windows \ {w}) \cup {x}
           out == <<t>>
<1>2. UserShape(app[u], tasks[u], inbox[u]) /\ DOMAIN inbox = Users
  BY DEF IndInv, Shape
<1>3. /\ IsClient(app[u]) /\ GoodWindows(app[u].windows) /\ IsWindow(w) /\ IsSeq(tasks[u])
      /\ GoodBox(inbox[u]) /\ DOMAIN app[u].asked = Docs /\ app[u].out = << >>
  BY <1>2 DEF UserShape, GoodWindows, GoodTasks
<1>4. /\ x.doc = w.doc /\ x.n = w.n /\ x.fresh = w.fresh /\ x.opened = w.opened
      /\ x.text = w.text /\ x.busy /\ IsWindow(x)
  BY <1>3 DEF IsWindow
<1>5. Becomes(u, c) /\ inbox' = inbox
  BY <1>1 DEF Sends, User
<1>6. IsRequest(t) /\ t.type = "operation" /\ t.doc = w.doc /\ t.pc = "received"
  BY DEF Request, IsRequest
<1> HIDE DEF x, t
<1>7. /\ IsClient(r) /\ r.asked = app[u].asked /\ r.out = << >> /\ r.windows = wins
  BY <1>3 DEF IsClient
<1> HIDE DEF r, wins
<1>8. /\ c.asked = app[u].asked /\ c.windows = wins /\ IsClient(c) /\ c.out = Append(<< >>, t)
  BY <1>7 DEF IsClient, Ask, t
<1>9. /\ c.out = out /\ IsSeq(out) /\ Len(out) = 1 /\ DOMAIN out = {1} /\ out[1] = t
  <2>1. out \in Seq({t}) /\ Append(<< >>, t) = out
    OBVIOUS
  <2>2. Len(out) = 1 /\ DOMAIN out = {1} /\ out[1] = t
    OBVIOUS
  <2> HIDE DEF c, out
  <2> QED
    BY <1>8, <2>1, <2>2 DEF IsSeq
<1> HIDE DEF out, c
<1>10. GoodWindows(c.windows)
  BY <1>3, <1>4, <1>8, SwappedGood DEF wins
<1>11. \A i \in DOMAIN c.out : IsRequest(c.out[i]) /\ c.out[i].pc = "received"
  BY <1>6, <1>9
<1>12. ASSUME NEW d \in Docs
       PROVE  Visit(u, d, c.asked[d], c.windows, tasks[u] \o c.out, queue[d],
                    announce[d], connected_users[d], revision[d], since[d][u], inbox[u])
  <2>0. link[u] = "up"
    BY <1>5 DEF Becomes
  <2>1. Visit(u, d, app[u].asked[d], app[u].windows, tasks[u], queue[d], announce[d],
              connected_users[d], revision[d], since[d][u], inbox[u])
    BY <2>0 DEF IndInv, VisitsInv, VisitOf
  <2> DEFINE s == tasks[u]
  <2> HIDE DEF s
  <2>2. PICK both : IsConcat(both, s, out) /\ Joins(both, s, out)
    BY <1>3, <1>9, ConcatNamed DEF s
  <2>3. /\ IsSeq(both) /\ Len(both) = Len(s) + 1
        /\ \A i \in 1 .. Len(s) : both[i] = s[i]
        /\ both[Len(s) + 1] = t
    <3>1. 1 \in 1 .. Len(out)
      BY <1>9
    <3> QED
      BY <1>9, <2>2, <3>1 DEF Joins
  <2>4. /\ DOMAIN both = 1 .. Len(s) + 1 /\ Len(s) \in Nat /\ DOMAIN s = 1 .. Len(s)
    BY <1>3, <2>3, DomainShape DEF s
  <2>5. CASE w.doc = d
    <3>1. /\ Len(s) + 1 \notin DOMAIN s
          /\ \A i \in DOMAIN both : i = Len(s) + 1 \/ (i \in DOMAIN s /\ both[i] = s[i])
      BY <2>3, <2>4
    <3>2. OpTask(both[Len(s) + 1], d)
      BY <1>6, <2>3, <2>5 DEF OpTask
    <3>3. Visit(u, d, app[u].asked[d], wins, both, queue[d], announce[d],
                connected_users[d], revision[d], since[d][u], inbox[u])
      <4>1. PICK last : /\ last \notin DOMAIN s /\ OpTask(both[last], d)
                        /\ \A i \in DOMAIN both : i = last \/ (i \in DOMAIN s /\ both[i] = s[i])
        BY <3>1, <3>2
      <4>2. ~ w.busy
        BY <1>1
      <4>3. Visit(u, d, app[u].asked[d], app[u].windows, s, queue[d], announce[d],
                  connected_users[d], revision[d], since[d][u], inbox[u])
        BY <2>1 DEF s
      <4>4. x.doc = d
        BY <1>4, <2>5
      <4> QED
        BY <1>4, <2>5, <4>1, <4>2, <4>3, <4>4, VisitEdits DEF wins
    <3> QED
      BY <1>8, <1>9, <2>2, <3>3 DEF IsConcat, s
  <2>6. CASE w.doc # d
    <3>1. \A i \in DOMAIN out : ~ RegTask(out[i], d) /\ ~ OpTask(out[i], d)
      BY <1>6, <1>9, <2>6 DEF RegTask, OpTask
    <3>2. TaskEmbeds(s \o out, s, d)
      BY <1>3, <1>9, <3>1, MoreTasks DEF s
    <3>3. \A y \in wins : y.doc = d => y \in app[u].windows
      BY <1>4, <2>6 DEF wins
    <3>4. WindowsEmbed(wins, app[u].windows, d)
      <4> DEFINE f == [y \in wins |-> y]
      <4>1. \A y \in wins : f[y] = y
        OBVIOUS
      <4> HIDE DEF f
      <4>2. ASSUME NEW y \in wins, y.doc = d
            PROVE  /\ f[y] \in app[u].windows /\ f[y].doc = d /\ f[y].n = y.n
                   /\ f[y].fresh = y.fresh
                   /\ f[y].text = y.text /\ f[y].opened = y.opened /\ f[y].busy = y.busy
                   /\ \A z \in wins : z.doc = d /\ f[z] = f[y] => z = y
        BY <3>3, <4>1, <4>2
      <4> QED
        BY <4>2 DEF WindowsEmbed
    <3>5. Visit(u, d, app[u].asked[d], wins, s \o out, queue[d], announce[d],
                connected_users[d], revision[d], since[d][u], inbox[u])
      BY <2>1, <3>2, <3>4, SameCommands, SameBox, VisitEmbeds DEF s
    <3> QED
      BY <1>8, <1>9, <3>5 DEF s
  <2> QED
    BY <2>5, <2>6
<1>13. DOMAIN c.asked = Docs /\ IsSeq(c.out)
  BY <1>3, <1>8, <1>9
<1> QED
  BY <1>2, <1>3, <1>5, <1>8, <1>10, <1>11, <1>12, <1>13, ClientStep

-----------------------------------------------------------------------------
(* The handlers of the server *)

LEMMA SentShape ==
    ASSUME NEW box, NEW us, NEW m
    PROVE  /\ DOMAIN SentTo(box, us, m) = Users
           /\ \A v \in Users : SentTo(box, us, m)[v] =
                 IF v \in us /\ link[v] = "up" THEN Append(box[v], m) ELSE box[v]
  BY DEF SentTo

LEMMA GoodBoxAppend ==
    ASSUME NEW box, GoodBox(box), NEW m,
           m.type = "doc_join_response" /\ m.success => m.doc \in Docs
    PROVE  GoodBox(Append(box, m))
<1>1. IsSeq(box)
  BY DEF GoodBox
<1>2. /\ Len(box) \in Nat /\ DOMAIN box = 1 .. Len(box) /\ IsSeq(Append(box, m))
      /\ DOMAIN Append(box, m) = 1 .. Len(box) + 1
      /\ \A k \in DOMAIN box : Append(box, m)[k] = box[k]
      /\ Append(box, m)[Len(box) + 1] = m
  BY <1>1, AppendShape, DomainShape
<1>3. \A k \in DOMAIN Append(box, m) : k \in DOMAIN box \/ Append(box, m)[k] = m
  BY <1>2
<1> QED
  BY <1>2, <1>3 DEF GoodBox

LEMMA GoodQueueAppend ==
    ASSUME NEW q, GoodQueue(q), NEW c, c.type \in {"Join", "Leave", "Operation", "Delete"}
    PROVE  GoodQueue(Append(q, c))
<1>1. IsSeq(q)
  BY DEF GoodQueue
<1>2. /\ Len(q) \in Nat /\ DOMAIN q = 1 .. Len(q) /\ IsSeq(Append(q, c))
      /\ DOMAIN Append(q, c) = 1 .. Len(q) + 1
      /\ \A k \in DOMAIN q : Append(q, c)[k] = q[k]
      /\ Append(q, c)[Len(q) + 1] = c
  BY <1>1, AppendShape, DomainShape
<1>3. \A k \in DOMAIN Append(q, c) : k \in DOMAIN q \/ Append(q, c)[k] = c
  BY <1>2
<1> QED
  BY <1>2, <1>3 DEF GoodQueue

LEMMA GoodTasksDone ==
    ASSUME NEW tsk, GoodTasks(tsk), NEW i \in DOMAIN tsk
    PROVE  GoodTasks(RemoveAt(tsk, i))
<1>1. IsSeq(tsk)
  BY DEF GoodTasks
<1>2. IsSeq(RemoveAt(tsk, i))
      /\ \A j \in DOMAIN RemoveAt(tsk, i) : \E k \in DOMAIN tsk : RemoveAt(tsk, i)[j] = tsk[k]
  BY <1>1, RemoveAtShape
<1> QED
  BY <1>2 DEF GoodTasks

LEMMA GoodTasksGoto ==
    ASSUME NEW tsk, GoodTasks(tsk), NEW i \in DOMAIN tsk, NEW t, IsRequest(t),
           t.type = "doc_join_request" => t.doc \in Docs
    PROVE  GoodTasks([tsk EXCEPT ![i] = t])
<1> DEFINE new == [tsk EXCEPT ![i] = t]
<1>1. DOMAIN new = DOMAIN tsk /\ \A j \in DOMAIN tsk : new[j] = IF j = i THEN t ELSE tsk[j]
  OBVIOUS
<1>2. IsSeq(new)
  <2>1. PICK S : tsk \in Seq(S)
    BY DEF GoodTasks, IsSeq
  <2>2. tsk \in Seq(S \cup {t}) /\ t \in S \cup {t}
    BY <2>1
  <2>3. new \in Seq(S \cup {t})
    BY <2>2
  <2> QED
    BY <2>3 DEF IsSeq
<1> HIDE DEF new
<1>3. GoodTasks(new)
  BY <1>1, <1>2 DEF GoodTasks
<1> QED
  BY <1>3 DEF new

\* Messages are sent that no visit is about.
QuietBoxes ==
    /\ DOMAIN inbox' = Users
    /\ \A v \in Users :
          /\ GoodBox(inbox'[v]) /\ (link[v] # "up" => inbox'[v] = inbox[v])
          /\ \A e \in Docs : BoxGrows(inbox'[v], inbox[v], e)

LEMMA QuietSame ==
    ASSUME IndInv, inbox' = inbox
    PROVE  QuietBoxes
  BY SameBox DEF QuietBoxes, IndInv, Shape, UserShape

LEMMA QuietSend ==
    ASSUME IndInv, NEW us, NEW m, Send(us, m), ~ (m.type = "doc_join_response" /\ m.success),
           \A e \in Docs : ~ IsOperation(m, e) /\ ~ Answer(m, e)
    PROVE  QuietBoxes
<1>1. /\ DOMAIN inbox' = Users
      /\ \A v \in Users : inbox'[v] =
            IF v \in us /\ link[v] = "up" THEN Append(inbox[v], m) ELSE inbox[v]
  BY SentShape DEF Send
<1>2. ASSUME NEW v \in Users
      PROVE  /\ GoodBox(inbox[v]) /\ GoodBox(Append(inbox[v], m))
             /\ \A e \in Docs : /\ BoxGrows(inbox[v], inbox[v], e)
                                /\ BoxGrows(Append(inbox[v], m), inbox[v], e)
  <2>1. GoodBox(inbox[v]) /\ IsSeq(inbox[v])
    BY DEF IndInv, Shape, UserShape, GoodBox
  <2>2. GoodBox(Append(inbox[v], m))
    BY <2>1, GoodBoxAppend
  <2> QED
    BY <2>1, <2>2, OtherMessage, SameBox
<1> QED
  BY <1>1, <1>2 DEF QuietBoxes

\* Commands of u are put into queues.
QueuesFor(u) ==
    /\ DOMAIN queue' = Docs
    /\ \A e \in Docs :
          /\ GoodQueue(queue'[e])
          /\ queue'[e] = queue[e] \/ \E c : c.user = u /\ queue'[e] = Append(queue[e], c)

LEMMA QueuesNone ==
    ASSUME IndInv, queue' = queue, NEW u
    PROVE  QueuesFor(u)
  BY DEF QueuesFor, IndInv, Shape

LEMMA Enqueues ==
    ASSUME IndInv, NEW d, NEW c, enqueue_command(d, c),
           c.type \in {"Join", "Leave", "Operation", "Delete"}
    PROVE  /\ QueuesFor(c.user)
           /\ \A e \in Docs :
                 \/ queue'[e] = queue[e] /\ (e = d => sessions[d] = "ended")
                 \/ e = d /\ sessions[d] # "ended" /\ queue'[e] = Append(queue[e], c)
<1>2. DOMAIN queue = Docs /\ \A e \in Docs : GoodQueue(queue[e])
  BY DEF IndInv, Shape
<1>3. queue' = IF sessions[d] = "ended" THEN queue
               ELSE [queue EXCEPT ![d] = Append(queue[d], c)]
  BY DEF enqueue_command
<1>4. /\ DOMAIN queue' = Docs
      /\ \A e \in Docs :
            \/ queue'[e] = queue[e] /\ (e = d => sessions[d] = "ended")
            \/ e = d /\ sessions[d] # "ended" /\ queue'[e] = Append(queue[e], c)
  BY <1>2, <1>3
<1>5. \A e \in Docs : GoodQueue(Append(queue[e], c))
  BY <1>2, GoodQueueAppend
<1> QED
  BY <1>2, <1>4, <1>5 DEF QueuesFor

\* A handler of u takes a step.
LEMMA HandlerStep ==
    ASSUME IndInv, NEW u \in Users, app' = app, link' = link,
           UNCHANGED <<revision, announce, connected_users, since>>, documents' \subseteq Docs,
           NEW ts, tasks' = [tasks EXCEPT ![u] = ts], GoodTasks(ts), QueuesFor(u),
           DOMAIN inbox' = Users,
           \A v \in Users : /\ GoodBox(inbox'[v]) /\ (link[v] # "up" => inbox'[v] = inbox[v])
                            /\ v # u => \A e \in Docs : BoxGrows(inbox'[v], inbox[v], e),
           link[u] = "up" => \A e \in Docs :
              Visit(u, e, app[u].asked[e], app[u].windows, ts, queue'[e], announce[e],
                    connected_users[e], revision[e], since[e][u], inbox'[u])
    PROVE  IndInv'
<1>1. /\ DOMAIN tasks = Users /\ \A v \in Users : UserShape(app[v], tasks[v], inbox[v])
  BY DEF IndInv, Shape
<1>2. DOMAIN tasks' = Users /\ \A v \in Users : tasks'[v] = IF v = u THEN ts ELSE tasks[v]
  BY <1>1
<1>3. \A v \in Users : UserShape(app'[v], tasks'[v], inbox'[v])
  BY <1>1, <1>2 DEF UserShape
<1>4. Shape'
  BY <1>2, <1>3 DEF IndInv, Shape, QueuesFor
<1>5. GoneInv'
  BY DEF IndInv, GoneInv
<1>6. ASSUME NEW v \in Users, NEW e \in Docs, link[v] = "up"
      PROVE  Visit(v, e, app[v].asked[e], app[v].windows, tasks'[v], queue'[e],
                   announce[e], connected_users[e], revision[e], since[e][v], inbox'[v])
  <2>1. CASE v = u
    BY <1>2, <1>6, <2>1
  <2>2. CASE v # u
    <3>1. Visit(v, e, app[v].asked[e], app[v].windows, tasks[v], queue[e],
                announce[e], connected_users[e], revision[e], since[e][v], inbox[v])
      BY <1>6 DEF IndInv, VisitsInv, VisitOf
    <3>2. CommandEmbeds(queue'[e], queue[e], v)
      <4>1. IsSeq(queue[e])
        BY DEF IndInv, Shape, GoodQueue
      <4>2. CASE queue'[e] = queue[e]
        BY <4>2, SameCommands
      <4>3. CASE \E c : c.user = u /\ queue'[e] = Append(queue[e], c)
        <5>1. PICK c : c.user = u /\ queue'[e] = Append(queue[e], c)
          BY <4>3
        <5>2. ~ RegCommand(c, v) /\ ~ OpCommand(c, v)
          BY <2>2, <5>1 DEF RegCommand, OpCommand
        <5> QED
          BY <4>1, <5>1, <5>2, OtherCommand
      <4> QED
        BY <4>2, <4>3 DEF QueuesFor
    <3>3. tasks'[v] = tasks[v] /\ BoxGrows(inbox'[v], inbox[v], e)
      BY <1>2, <2>2
    <3> QED
      BY <3>1, <3>2, <3>3, SameTasks, FewerWindows, VisitEmbeds
  <2> QED
    BY <2>1, <2>2
<1>7. VisitsInv'
  BY <1>6 DEF VisitsInv, VisitOf
<1> QED
  BY <1>4, <1>5, <1>7 DEF IndInv

\* A handler of u takes a step that the visits of u are not about.
LEMMA QuietHandler ==
    ASSUME IndInv, NEW u \in Users, app' = app, link' = link,
           UNCHANGED <<revision, announce, connected_users, since>>, documents' \subseteq Docs,
           NEW ts, tasks' = [tasks EXCEPT ![u] = ts], GoodTasks(ts), QueuesFor(u), QuietBoxes,
           \A e \in Docs : /\ TaskEmbeds(ts, tasks[u], e) /\ CommandEmbeds(queue'[e], queue[e], u)
    PROVE  IndInv'
<1>1. ASSUME NEW e \in Docs, link[u] = "up"
      PROVE  Visit(u, e, app[u].asked[e], app[u].windows, ts, queue'[e], announce[e],
                   connected_users[e], revision[e], since[e][u], inbox'[u])
  <2>1. Visit(u, e, app[u].asked[e], app[u].windows, tasks[u], queue[e],
              announce[e], connected_users[e], revision[e], since[e][u], inbox[u])
    BY <1>1 DEF IndInv, VisitsInv, VisitOf
  <2>2. BoxGrows(inbox'[u], inbox[u], e)
    BY DEF QuietBoxes
  <2> QED
    BY <2>1, <2>2, FewerWindows, VisitEmbeds
<1>2. /\ DOMAIN inbox' = Users
      /\ \A v \in Users : /\ GoodBox(inbox'[v]) /\ (link[v] # "up" => inbox'[v] = inbox[v])
                          /\ \A e \in Docs : BoxGrows(inbox'[v], inbox[v], e)
  BY DEF QuietBoxes
<1> QED
  BY <1>1, <1>2, HandlerStep

\* What no handler changes.
Steady ==
    /\ app' = app /\ link' = link /\ UNCHANGED <<revision, announce, connected_users, since>>
    /\ documents' \subseteq Docs

LEMMA QuietDone ==
    ASSUME IndInv, NEW u \in Users, Steady, NEW i \in DOMAIN tasks[u], Done(u, i), QueuesFor(u),
           QuietBoxes, \A e \in Docs : CommandEmbeds(queue'[e], queue[e], u)
    PROVE  IndInv'
<1>1. GoodTasks(tasks[u]) /\ IsSeq(tasks[u])
  BY DEF IndInv, Shape, UserShape, GoodTasks
<1>2. PICK ts : ts = RemoveAt(tasks[u], i)
  OBVIOUS
<1>3. GoodTasks(ts) /\ \A e \in Docs : TaskEmbeds(ts, tasks[u], e)
  BY <1>1, <1>2, GoodTasksDone, FewerTasks
<1>4. tasks' = [tasks EXCEPT ![u] = ts]
  BY <1>2 DEF Done
<1> QED
  BY <1>3, <1>4, QuietHandler DEF Steady

LEMMA QuietGoto ==
    ASSUME IndInv, NEW u \in Users, Steady, NEW i \in DOMAIN tasks[u], NEW t, Goto(u, i, t),
           IsRequest(t), t.type \notin {"doc_join_request", "doc_leave_request", "operation"},
           QueuesFor(u), QuietBoxes, \A e \in Docs : CommandEmbeds(queue'[e], queue[e], u)
    PROVE  IndInv'
<1>1. GoodTasks(tasks[u]) /\ IsSeq(tasks[u])
  BY DEF IndInv, Shape, UserShape, GoodTasks
<1>2. PICK ts : ts = [tasks[u] EXCEPT ![i] = t]
  OBVIOUS
<1>3. GoodTasks(ts)
  BY <1>1, <1>2, GoodTasksGoto
<1>4. \A e \in Docs : TaskEmbeds(ts, tasks[u], e)
  <2>1. \A e \in Docs : ~ RegTask(t, e) /\ ~ OpTask(t, e)
    BY DEF RegTask, OpTask
  <2> QED
    BY <1>2, <2>1, OtherTask
<1>5. tasks' = [tasks EXCEPT ![u] = ts]
  BY <1>2 DEF Goto
<1> QED
  BY <1>3, <1>4, <1>5, QuietHandler DEF Steady

\* A handler ends with an answer that no visit is about.
LEMMA QuietReply ==
    ASSUME IndInv, NEW u \in Users, Steady, NEW i \in DOMAIN tasks[u], Done(u, i), queue' = queue,
           NEW us, NEW m, Send(us, m), ~ (m.type = "doc_join_response" /\ m.success),
           \A e \in Docs : ~ IsOperation(m, e) /\ ~ Answer(m, e)
    PROVE  IndInv'
<1>1. QuietBoxes /\ QueuesFor(u) /\ \A e \in Docs : CommandEmbeds(queue'[e], queue[e], u)
  BY QuietSend, QueuesNone, SameCommands
<1> QED
  BY <1>1, QuietDone

LEMMA ListStep ==
    ASSUME IndInv, NEW u \in Users, NEW i \in DOMAIN tasks[u], handle_doc_list(u, i),
           app' = app, link' = link
    PROVE  IndInv'
<1> DEFINE m == DocListResponse(list_documents(u))
<1>1. Done(u, i) /\ Send({u}, m) /\ queue' = queue
  BY DEF handle_doc_list, serverVars, sessionVars
<1>2. Steady
  BY DEF handle_doc_list, serverVars, sessionVars, managerVars, Steady, IndInv, Shape
<1>3. m.type = "doc_list_response"
  BY DEF DocListResponse
<1> HIDE DEF m
<1>4. \A e \in Docs : ~ IsOperation(m, e) /\ ~ Answer(m, e)
  BY <1>3 DEF IsOperation, Answer
<1> QED
  BY <1>1, <1>2, <1>3, <1>4, QuietReply

LEMMA CreateStep ==
    ASSUME IndInv, NEW u \in Users, NEW i \in DOMAIN tasks[u], handle_doc_create(u, i),
           app' = app, link' = link
    PROVE  IndInv'
<1> DEFINE m == DocCreateResponse(next_doc_id)
<1>1. Done(u, i) /\ Send({u}, m) /\ queue' = queue
  BY DEF handle_doc_create, sessionVars
<1>2. Steady
  BY DEF handle_doc_create, create_document, sessionVars, Steady, IndInv, Shape
<1>3. m.type = "doc_create_response"
  BY DEF DocCreateResponse
<1> HIDE DEF m
<1>4. \A e \in Docs : ~ IsOperation(m, e) /\ ~ Answer(m, e)
  BY <1>3 DEF IsOperation, Answer
<1> QED
  BY <1>1, <1>2, <1>3, <1>4, QuietReply

LEMMA ShareStep ==
    ASSUME IndInv, NEW u \in Users, NEW i \in DOMAIN tasks[u], handle_doc_share(u, i),
           app' = app, link' = link
    PROVE  IndInv'
<1> DEFINE d == tasks[u][i].doc
           target == tasks[u][i].target
<1>1. Steady /\ queue' = queue
  BY DEF handle_doc_share, serverVars, sessionVars, managerVars, Steady, IndInv, Shape
<1>2. QueuesFor(u) /\ \A e \in Docs : CommandEmbeds(queue'[e], queue[e], u)
  BY <1>1, QueuesNone, SameCommands
<1>3. ASSUME Done(u, i), Send({u}, Error) PROVE IndInv'
  <2>1. Error.type = "error"
    BY DEF Error
  <2>2. \A e \in Docs : ~ IsOperation(Error, e) /\ ~ Answer(Error, e)
    BY <2>1 DEF IsOperation, Answer
  <2> QED
    BY <1>1, <1>3, <2>1, <2>2, QuietReply
<1>4. ASSUME Goto(u, i, [tasks[u][i] EXCEPT !.pc = "granted"]), Send({u}, Plain("doc_share_response")),
             Task(u, i, "doc_share_request", "received")
      PROVE  IndInv'
  <2> DEFINE t == [tasks[u][i] EXCEPT !.pc = "granted"]
             m == Plain("doc_share_response")
  <2>1. IsRequest(t) /\ t.type = "doc_share_request"
    BY <1>4 DEF IsRequest, Task, IndInv, Shape, UserShape, GoodTasks
  <2>2. m.type = "doc_share_response"
    BY DEF Plain
  <2> HIDE DEF t, m
  <2>3. \A e \in Docs : ~ IsOperation(m, e) /\ ~ Answer(m, e)
    BY <2>2 DEF IsOperation, Answer
  <2>4. QuietBoxes
    BY <1>4, <2>2, <2>3, QuietSend DEF m
  <2> QED
    BY <1>1, <1>2, <1>4, <2>1, <2>4, QuietGoto DEF t
<1>5. ASSUME Done(u, i),
             IF current_doc[target] = d
             THEN Send({target}, [type |-> "role_changed", doc |-> d, role |-> "editor"])
             ELSE UNCHANGED inbox
      PROVE  IndInv'
  <2> DEFINE m == [type |-> "role_changed", doc |-> d, role |-> "editor"]
  <2>1. m.type = "role_changed"
    OBVIOUS
  <2> HIDE DEF m
  <2>2. \A e \in Docs : ~ IsOperation(m, e) /\ ~ Answer(m, e)
    BY <2>1 DEF IsOperation, Answer
  <2>3. QuietBoxes
    <3>1. CASE current_doc[target] = d
      BY <1>5, <2>1, <2>2, <3>1, QuietSend DEF m
    <3>2. CASE current_doc[target] # d
      BY <1>5, <3>2, QuietSame
    <3> QED
      BY <3>1, <3>2
  <2> QED
    BY <1>1, <1>2, <1>5, <2>3, QuietDone
<1> QED
  BY <1>3, <1>4, <1>5 DEF handle_doc_share

LEMMA CursorUpdateStep ==
    ASSUME IndInv, NEW u \in Users, NEW i \in DOMAIN tasks[u], handle_cursor_update(u, i),
           app' = app, link' = link
    PROVE  IndInv'
<1>1. Steady /\ queue' = queue /\ inbox' = inbox
  BY DEF handle_cursor_update, serverVars, sessionVars, managerVars, Steady, IndInv, Shape
<1>2. QueuesFor(u) /\ QuietBoxes /\ \A e \in Docs : CommandEmbeds(queue'[e], queue[e], u)
  BY <1>1, QueuesNone, SameCommands, QuietSame
<1>3. CASE Done(u, i)
  BY <1>1, <1>2, <1>3, QuietDone
<1>4. CASE ~ Done(u, i)
  <2> DEFINE t == [tasks[u][i] EXCEPT !.pc = "checked"]
  <2>1. Goto(u, i, t) /\ tasks[u][i].type = "cursor_update"
    BY <1>4 DEF handle_cursor_update, Task
  <2>2. IsRequest(t) /\ t.type = "cursor_update"
    BY <2>1 DEF IsRequest, IndInv, Shape, UserShape, GoodTasks
  <2> HIDE DEF t
  <2> QED
    BY <1>1, <1>2, <2>1, <2>2, QuietGoto
<1> QED
  BY <1>3, <1>4

LEMMA DeleteStep ==
    ASSUME IndInv, NEW u \in Users, NEW i \in DOMAIN tasks[u], handle_doc_delete(u, i),
           app' = app, link' = link
    PROVE  IndInv'
<1> DEFINE d == tasks[u][i].doc
           done == Plain("doc_delete_response")
<1>1. Steady
  BY DEF handle_doc_delete, delete_document, serverVars, sessionVars, managerVars, Steady, IndInv,
         Shape
<1>2. Error.type = "error" /\ done.type = "doc_delete_response"
  BY DEF Error, Plain
<1>3. \A e \in Docs : /\ ~ IsOperation(Error, e) /\ ~ Answer(Error, e)
                      /\ ~ IsOperation(done, e) /\ ~ Answer(done, e)
  BY <1>2 DEF IsOperation, Answer
<1> HIDE DEF done
<1>4. ASSUME Done(u, i), inbox' = SentTo(SentTo(inbox, {u}, Error), {u}, done), queue' = queue
      PROVE  IndInv'
  <2> DEFINE mid == SentTo(inbox, {u}, Error)
  <2>1. /\ DOMAIN inbox' = Users
        /\ \A v \in Users : mid[v] =
              IF v \in {u} /\ link[v] = "up" THEN Append(inbox[v], Error) ELSE inbox[v]
        /\ \A v \in Users : inbox'[v] =
              IF v \in {u} /\ link[v] = "up" THEN Append(mid[v], done) ELSE mid[v]
    BY <1>4, SentShape
  <2> HIDE DEF mid
  <2>2. ASSUME NEW v \in Users
        PROVE  /\ GoodBox(inbox'[v]) /\ (link[v] # "up" => inbox'[v] = inbox[v])
               /\ \A e \in Docs : BoxGrows(inbox'[v], inbox[v], e)
    <3> DEFINE one == Append(inbox[v], Error)
               two == Append(one, done)
    <3>1. GoodBox(inbox[v]) /\ IsSeq(inbox[v])
      BY DEF IndInv, Shape, UserShape, GoodBox
    <3>2. GoodBox(one) /\ \A e \in Docs : BoxGrows(one, inbox[v], e)
      BY <1>2, <1>3, <3>1, GoodBoxAppend, OtherMessage
    <3> HIDE DEF one
    <3>3. IsSeq(one)
      BY <3>2 DEF GoodBox
    <3>4. GoodBox(two) /\ \A e \in Docs : BoxGrows(two, one, e)
      BY <1>2, <1>3, <3>2, <3>3, GoodBoxAppend, OtherMessage
    <3> HIDE DEF two
    <3>5. \A e \in Docs : BoxGrows(two, inbox[v], e)
      BY <3>2, <3>4 DEF BoxGrows
    <3>6. inbox'[v] = two \/ inbox'[v] = inbox[v]
      BY <2>1 DEF one, two
    <3>7. link[v] # "up" => inbox'[v] = inbox[v]
      BY <2>1
    <3> QED
      BY <3>1, <3>4, <3>5, <3>6, <3>7, SameBox
  <2>3. QuietBoxes
    BY <2>1, <2>2 DEF QuietBoxes
  <2>4. QueuesFor(u) /\ \A e \in Docs : CommandEmbeds(queue'[e], queue[e], u)
    BY <1>4, QueuesNone, SameCommands
  <2> QED
    BY <1>1, <1>4, <2>3, <2>4, QuietDone
<1>5. ASSUME Task(u, i, "doc_delete_request", "received"), inbox' = inbox,
             IF get_session(d) THEN enqueue_command(d, Command("Delete", u)) ELSE UNCHANGED queue,
             Goto(u, i, [tasks[u][i] EXCEPT !.pc = "enqueued"])
      PROVE  IndInv'
  <2> DEFINE t == [tasks[u][i] EXCEPT !.pc = "enqueued"]
             c == Command("Delete", u)
  <2>1. IsRequest(t) /\ t.type = "doc_delete_request"
    BY <1>5 DEF IsRequest, Task, IndInv, Shape, UserShape, GoodTasks
  <2>2. ~ RegCommand(c, u) /\ ~ OpCommand(c, u)
    BY DEF Command, RegCommand, OpCommand
  <2>3. QueuesFor(u) /\ \A e \in Docs : queue'[e] = queue[e] \/ queue'[e] = Append(queue[e], c)
    <3>1. CASE get_session(d)
      <4>1. enqueue_command(d, Command("Delete", u))
        BY <1>5, <3>1
      <4>2. c.type = "Delete" /\ c.user = u
        BY DEF Command
      <4> HIDE DEF c
      <4>3. enqueue_command(d, c)
        BY <4>1 DEF c
      <4> QED
        BY <4>2, <4>3, Enqueues
    <3>2. CASE ~ get_session(d)
      BY <1>5, <3>2, QueuesNone
    <3> QED
      BY <3>1, <3>2
  <2> HIDE DEF t, c
  <2>4. \A e \in Docs : CommandEmbeds(queue'[e], queue[e], u)
    <3>1. \A e \in Docs : IsSeq(queue[e])
      BY DEF IndInv, Shape, GoodQueue
    <3> QED
      BY <2>2, <2>3, <3>1, SameCommands, OtherCommand
  <2>5. QuietBoxes
    BY <1>5, QuietSame
  <2> QED
    BY <1>1, <1>5, <2>1, <2>3, <2>4, <2>5, QuietGoto DEF t
<1>6. ASSUME Done(u, i), Send({u}, done), queue' = queue
      PROVE  IndInv'
  BY <1>1, <1>2, <1>3, <1>6, QuietReply
<1> QED
  BY <1>4, <1>5, <1>6 DEF handle_doc_delete, serverVars, sessionVars, done

\* handle_message does nothing to a visit by queuing a command of u for another
\* document.
LEMMA ElsewhereQueued ==
    ASSUME NEW u, NEW e, NEW n, NEW wins, NEW tsk, NEW q, NEW ann, NEW conn, NEW rev, NEW snc,
           NEW box, Visit(u, e, n, wins, tsk, q, ann, conn, rev, snc, box),
           NEW tsk2, TaskEmbeds(tsk2, tsk, e), NEW box2, BoxGrows(box2, box, e)
    PROVE  Visit(u, e, n, wins, tsk2, q, ann, conn, rev, snc, box2)
  BY SameCommands, FewerWindows, VisitEmbeds

LEMMA LeaveStep ==
    ASSUME IndInv, NEW u \in Users, NEW i \in DOMAIN tasks[u], handle_doc_leave(u, i),
           app' = app, link' = link
    PROVE  IndInv'
<1> DEFINE d == tasks[u][i].doc
           c == Command("Leave", u)
           t == [tasks[u][i] EXCEPT !.pc = "enqueued"]
           m == Plain("doc_leave_response")
<1>1. Steady
  BY DEF handle_doc_leave, serverVars, sessionVars, managerVars, Steady, IndInv, Shape
<1>2. ASSUME Task(u, i, "doc_leave_request", "received"), inbox' = inbox,
             IF get_session(d) THEN enqueue_command(d, c) ELSE UNCHANGED queue, Goto(u, i, t)
      PROVE  IndInv'
  <2>1. /\ GoodTasks(tasks[u]) /\ IsRequest(tasks[u][i]) /\ tasks[u][i].type = "doc_leave_request"
        /\ tasks[u][i].pc = "received"
    BY <1>2 DEF Task, IndInv, Shape, UserShape, GoodTasks
  <2>2. IsRequest(t) /\ t.type = "doc_leave_request" /\ t.doc = d /\ t.n = tasks[u][i].n
    BY <2>1 DEF IsRequest
  <2>3. c.type = "Leave" /\ c.user = u
    BY DEF Command
  <2> HIDE DEF t, c
  <2>4. PICK ts : ts = [tasks[u] EXCEPT ![i] = t]
    OBVIOUS
  <2>5. tasks' = [tasks EXCEPT ![u] = ts]
    BY <1>2, <2>4 DEF Goto
  <2>6. GoodTasks(ts)
    BY <2>1, <2>2, <2>4, GoodTasksGoto
  <2>7. QueuesFor(u) /\ \A e \in Docs : e # d => queue'[e] = queue[e]
    <3>1. CASE get_session(d)
      BY <1>2, <2>3, <3>1, Enqueues
    <3>2. CASE ~ get_session(d)
      BY <1>2, <3>2, QueuesNone
    <3> QED
      BY <3>1, <3>2
  <2>8. QuietBoxes
    BY <1>2, QuietSame
  <2>9. ASSUME NEW e \in Docs, link[u] = "up"
        PROVE  Visit(u, e, app[u].asked[e], app[u].windows, ts, queue'[e], announce[e],
                     connected_users[e], revision[e], since[e][u], inbox[u])
    <3>1. Visit(u, e, app[u].asked[e], app[u].windows, tasks[u], queue[e], announce[e],
                connected_users[e], revision[e], since[e][u], inbox[u])
      BY <2>9 DEF IndInv, VisitsInv, VisitOf
    <3>2. CASE e = d
      <4>1. RegTask(tasks[u][i], e)
        BY <2>1, <3>2 DEF RegTask
      <4>2. /\ ~ (tasks[u][i].type = "doc_join_request" /\ tasks[u][i].pc \in {"read", "answered"})
            /\ ~ (t.type = "doc_join_request" /\ t.pc \in {"read", "answered"})
            /\ t.type = tasks[u][i].type /\ t.doc = e /\ t.n = tasks[u][i].n
        BY <2>1, <2>2, <3>2
      <4> QED
        BY <2>4, <3>1, <4>1, <4>2, VisitUnsettled
    <3>3. CASE e # d
      <4>1. ~ RegTask(t, e) /\ ~ OpTask(t, e)
        BY <2>2, <3>3 DEF RegTask, OpTask
      <4>2. TaskEmbeds(ts, tasks[u], e) /\ BoxGrows(inbox[u], inbox[u], e)
        BY <2>4, <4>1, OtherTask, SameBox
      <4>3. queue'[e] = queue[e]
        BY <2>7, <3>3
      <4> QED
        BY <3>1, <4>2, <4>3, ElsewhereQueued
    <3> QED
      BY <3>2, <3>3
  <2> QED
    BY <1>1, <1>2, <2>5, <2>6, <2>7, <2>8, <2>9, HandlerStep DEF Steady, QuietBoxes
<1>3. ASSUME Done(u, i), Send({u}, m), queue' = queue PROVE IndInv'
  <2>1. m.type = "doc_leave_response"
    BY DEF Plain
  <2> HIDE DEF m
  <2>2. \A e \in Docs : ~ IsOperation(m, e) /\ ~ Answer(m, e)
    BY <2>1 DEF IsOperation, Answer
  <2> QED
    BY <1>1, <1>3, <2>1, <2>2, QuietReply
<1> QED
  BY <1>2, <1>3 DEF handle_doc_leave, sessionVars

LEMMA OperationStep ==
    ASSUME IndInv, NEW u \in Users, NEW i \in DOMAIN tasks[u], handle_operation(u, i),
           app' = app, link' = link
    PROVE  IndInv'
<1> DEFINE d == tasks[u][i].doc
           c == Command("Operation", u)
<1>1. Steady
  BY DEF handle_operation, serverVars, sessionVars, managerVars, Steady, IndInv, Shape
<1>2. Done(u, i) /\ tasks[u][i].type = "operation"
  BY DEF handle_operation, Task
<1>3. \/ Send({u}, Error) /\ queue' = queue
      \/ enqueue_command(d, c) /\ inbox' = inbox
  BY DEF handle_operation
<1>4. CASE Send({u}, Error) /\ queue' = queue
  <2>1. Error.type = "error"
    BY DEF Error
  <2>2. \A e \in Docs : ~ IsOperation(Error, e) /\ ~ Answer(Error, e)
    BY <2>1 DEF IsOperation, Answer
  <2> QED
    BY <1>1, <1>2, <1>4, <2>1, <2>2, QuietReply
<1>5. CASE enqueue_command(d, c) /\ inbox' = inbox
  <2>1. c.type = "Operation" /\ c.user = u
    BY DEF Command
  <2> HIDE DEF c
  <2>2. /\ QueuesFor(u)
        /\ \A e \in Docs : queue'[e] = queue[e] \/ (e = d /\ queue'[e] = Append(queue[e], c))
    BY <1>5, <2>1, Enqueues
  <2>3. GoodTasks(tasks[u]) /\ IsSeq(tasks[u])
    BY DEF IndInv, Shape, UserShape, GoodTasks
  <2>4. PICK ts : ts = RemoveAt(tasks[u], i)
    OBVIOUS
  <2>5. GoodTasks(ts) /\ \A e \in Docs : TaskEmbeds(ts, tasks[u], e)
    BY <2>3, <2>4, GoodTasksDone, FewerTasks
  <2>6. tasks' = [tasks EXCEPT ![u] = ts]
    BY <1>2, <2>4 DEF Done
  <2>7. QuietBoxes
    BY <1>5, QuietSame
  <2>8. ASSUME NEW e \in Docs, link[u] = "up"
        PROVE  Visit(u, e, app[u].asked[e], app[u].windows, ts, queue'[e], announce[e],
                     connected_users[e], revision[e], since[e][u], inbox[u])
    <3>1. Visit(u, e, app[u].asked[e], app[u].windows, tasks[u], queue[e], announce[e],
                connected_users[e], revision[e], since[e][u], inbox[u])
      BY <2>8 DEF IndInv, VisitsInv, VisitOf
    <3>2. CASE queue'[e] = queue[e]
      BY <2>5, <3>1, <3>2, ElsewhereQueued, SameBox
    <3>3. CASE e = d /\ queue'[e] = Append(queue[e], c)
      <4>1. OpTask(tasks[u][i], e) /\ IsSeq(queue[e])
        BY <1>2, <3>3 DEF OpTask, IndInv, Shape, GoodQueue
      <4>2. PICK tsk, q, r, a, cs, sn :
               /\ tsk = tasks[u] /\ q = queue[e] /\ r = revision[e] /\ a = announce[e]
               /\ cs = connected_users[e] /\ sn = since[e][u]
        OBVIOUS
      <4>3. PICK n, ws, box : n = app[u].asked[e] /\ ws = app[u].windows /\ box = inbox[u]
        OBVIOUS
      <4>4. Visit(u, e, n, ws, tsk, q, a, cs, r, sn, box)
        BY ONLY <3>1, <4>2, <4>3
      <4>5. i \in DOMAIN tsk /\ OpTask(tsk[i], e) /\ IsSeq(tsk) /\ IsSeq(q)
        BY ONLY <2>3, <4>1, <4>2, i \in DOMAIN tasks[u]
      <4>6. Visit(u, e, n, ws, RemoveAt(tsk, i), Append(q, c), a, cs, r, sn, box)
        BY ONLY <2>1, <4>4, <4>5, VisitQueuesOp
      <4> QED
        BY ONLY <2>4, <3>3, <4>2, <4>3, <4>6
    <3> QED
      BY <2>2, <3>2, <3>3
  <2> QED
    BY <1>1, <1>5, <2>2, <2>5, <2>6, <2>7, <2>8, HandlerStep DEF Steady, QuietBoxes
<1> QED
  BY <1>3, <1>4, <1>5

\* handle_doc_join takes a step that neither sends nor queues anything.
LEMMA JoinGoesOn ==
    ASSUME IndInv, NEW u \in Users, NEW i \in DOMAIN tasks[u], Steady, NEW t, Goto(u, i, t),
           IsRequest(t), t.type = "doc_join_request", tasks[u][i].type = t.type,
           t.doc = tasks[u][i].doc, t.doc \in Docs, inbox' = inbox, queue' = queue,
           link[u] = "up" =>
              Visit(u, t.doc, app[u].asked[t.doc], app[u].windows, [tasks[u] EXCEPT ![i] = t],
                    queue[t.doc], announce[t.doc], connected_users[t.doc], revision[t.doc],
                    since[t.doc][u], inbox[u])
    PROVE  IndInv'
<1>1. GoodTasks(tasks[u])
  BY DEF IndInv, Shape, UserShape
<1>2. PICK ts : ts = [tasks[u] EXCEPT ![i] = t]
  OBVIOUS
<1>3. tasks' = [tasks EXCEPT ![u] = ts] /\ GoodTasks(ts)
  BY <1>1, <1>2, GoodTasksGoto DEF Goto
<1>4. QueuesFor(u) /\ QuietBoxes
  BY QueuesNone, QuietSame
<1>5. ASSUME NEW e \in Docs, link[u] = "up"
      PROVE  Visit(u, e, app[u].asked[e], app[u].windows, ts, queue[e], announce[e],
                   connected_users[e], revision[e], since[e][u], inbox[u])
  <2>1. CASE e = t.doc
    BY <1>2, <1>5, <2>1
  <2>2. CASE e # t.doc
    <3>1. Visit(u, e, app[u].asked[e], app[u].windows, tasks[u], queue[e], announce[e],
                connected_users[e], revision[e], since[e][u], inbox[u])
      BY <1>5 DEF IndInv, VisitsInv, VisitOf
    <3>2. ~ RegTask(t, e) /\ ~ OpTask(t, e)
      BY <2>2 DEF RegTask, OpTask
    <3>3. TaskEmbeds(ts, tasks[u], e) /\ BoxGrows(inbox[u], inbox[u], e)
      BY <1>2, <3>2, OtherTask, SameBox
    <3> QED
      BY <3>1, <3>3, ElsewhereQueued
  <2> QED
    BY <2>1, <2>2
<1> QED
  BY <1>3, <1>4, <1>5, HandlerStep DEF Steady, QuietBoxes

LEMMA JoinStep ==
    ASSUME IndInv, NEW u \in Users, NEW i \in DOMAIN tasks[u], handle_doc_join(u, i),
           app' = app, link' = link
    PROVE  IndInv'
<1> DEFINE t == tasks[u][i]
           d == t.doc
<1>1. Steady
  BY DEF handle_doc_join, serverVars, sessionVars, managerVars, Steady, IndInv, Shape
<1>2. GoodTasks(tasks[u]) /\ IsSeq(tasks[u]) /\ IsRequest(t)
  BY DEF IndInv, Shape, UserShape, GoodTasks
<1>3. \A e \in Docs : link[u] = "up" =>
         Visit(u, e, app[u].asked[e], app[u].windows, tasks[u], queue[e], announce[e],
               connected_users[e], revision[e], since[e][u], inbox[u])
  BY DEF IndInv, VisitsInv, VisitOf
<1>4. ASSUME Done(u, i), Send({u}, DocJoinFailure), queue' = queue PROVE IndInv'
  <2>1. DocJoinFailure.doc = 0 /\ DocJoinFailure.success = FALSE
        /\ DocJoinFailure.type = "doc_join_response"
    BY DEF DocJoinFailure
  <2>2. \A e \in Docs : e # 0
    BY MembershipAssumption DEF Docs
  <2>3. \A e \in Docs : ~ IsOperation(DocJoinFailure, e) /\ ~ Answer(DocJoinFailure, e)
    BY <2>1, <2>2 DEF IsOperation, Answer
  <2> QED
    BY <1>1, <1>4, <2>1, <2>3, QuietReply
<1>5. ASSUME Task(u, i, "doc_join_request", "received"), d \in documents,
             Goto(u, i, [t EXCEPT !.pc = "located", !.role = rights[d][u]]),
             queue' = queue, inbox' = inbox
      PROVE  IndInv'
  <2> DEFINE x == [t EXCEPT !.pc = "located", !.role = rights[d][u]]
  <2>1. /\ IsRequest(x) /\ x.type = t.type /\ x.doc = d /\ x.n = t.n /\ x.pc = "located"
        /\ t.type = "doc_join_request" /\ t.pc = "received"
    BY <1>2, <1>5 DEF IsRequest, Task
  <2> HIDE DEF x
  <2>2. d \in Docs
    BY <1>5 DEF IndInv, Shape
  <2>3. /\ RegTask(tasks[u][i], d)
        /\ ~ (tasks[u][i].type = "doc_join_request" /\ tasks[u][i].pc \in {"read", "answered"})
        /\ ~ (x.type = "doc_join_request" /\ x.pc \in {"read", "answered"})
    BY <2>1 DEF RegTask
  <2>4. link[u] = "up" =>
          Visit(u, d, app[u].asked[d], app[u].windows, [tasks[u] EXCEPT ![i] = x],
                queue[d], announce[d], connected_users[d], revision[d], since[d][u], inbox[u])
    BY <1>3, <2>1, <2>2, <2>3, VisitUnsettled
  <2>5. Goto(u, i, x)
    BY <1>5 DEF x
  <2> QED
    BY <1>1, <1>5, <2>1, <2>2, <2>4, <2>5, JoinGoesOn
<1>6. ASSUME Task(u, i, "doc_join_request", "located"),
             Goto(u, i, [t EXCEPT !.pc = "read", !.text = Upto(revision[d]),
                                  !.fresh = Fresh(u, i, d)]),
             queue' = queue, inbox' = inbox
      PROVE  IndInv'
  <2> DEFINE x == [t EXCEPT !.pc = "read", !.text = Upto(revision[d]), !.fresh = Fresh(u, i, d)]
  <2>1. /\ IsRequest(x) /\ x.type = t.type /\ x.doc = d /\ x.n = t.n /\ x.pc = "read"
        /\ x.text = Upto(revision[d]) /\ x.fresh = Fresh(u, i, d)
        /\ t.type = "doc_join_request" /\ t.pc = "located"
    BY <1>2, <1>6 DEF IsRequest, Task
  <2> HIDE DEF x
  <2>2. d \in Docs
    BY <1>2, <2>1 DEF GoodTasks
  <2>3. RegTask(tasks[u][i], d)
    BY <2>1 DEF RegTask
  <2>4. x.fresh =>
          /\ u \notin connected_users[d]
          /\ \A k \in DOMAIN queue[d] : queue[d][k].user # u
          /\ \A j \in DOMAIN tasks[u] \ {i} : ~ RegTask(tasks[u][j], d) /\ ~ OpTask(tasks[u][j], d)
          /\ \A w \in app[u].windows : w.doc # d
          /\ \A k \in DOMAIN inbox[u] : ~ Answer(inbox[u][k], d)
    BY <2>1 DEF Fresh, ToSet, RegTask, OpTask, Answer
  <2>5. link[u] = "up" =>
          Visit(u, d, app[u].asked[d], app[u].windows, [tasks[u] EXCEPT ![i] = x],
                queue[d], announce[d], connected_users[d], revision[d], since[d][u], inbox[u])
    BY <1>3, <2>1, <2>2, <2>3, <2>4, VisitRead
  <2>6. Goto(u, i, x)
    BY <1>6 DEF x
  <2> QED
    BY <1>1, <1>6, <2>1, <2>2, <2>5, <2>6, JoinGoesOn
<1>7. ASSUME Task(u, i, "doc_join_request", "read"),
             Send({u}, DocJoinResponse(d, t.text, revision[d], t.role, connected_users[d], t)),
             Goto(u, i, [t EXCEPT !.pc = "answered", !.text = << >>]), queue' = queue
      PROVE  IndInv'
  <2> DEFINE x == [t EXCEPT !.pc = "answered", !.text = << >>]
             m == DocJoinResponse(d, t.text, revision[d], t.role, connected_users[d], t)
  <2>1. /\ IsRequest(x) /\ x.type = t.type /\ x.doc = d /\ x.n = t.n /\ x.pc = "answered"
        /\ t.type = "doc_join_request" /\ t.pc = "read"
    BY <1>2, <1>7 DEF IsRequest, Task
  <2>2. /\ m.type = "doc_join_response" /\ m.doc = d /\ m.text = t.text /\ m.n = t.n
        /\ m.fresh = t.fresh
    BY DEF DocJoinResponse
  <2>3. Send({u}, m) /\ Goto(u, i, x)
    BY <1>7
  <2> HIDE DEF x, m
  <2>4. d \in Docs
    BY <1>2, <2>1 DEF GoodTasks
  <2>5. PICK ts : ts = [tasks[u] EXCEPT ![i] = x]
    OBVIOUS
  <2>6. tasks' = [tasks EXCEPT ![u] = ts] /\ GoodTasks(ts)
    BY <1>2, <2>1, <2>3, <2>4, <2>5, GoodTasksGoto DEF Goto
  <2>7. /\ DOMAIN inbox' = Users
        /\ \A v \in Users : inbox'[v] =
              IF v \in {u} /\ link[v] = "up" THEN Append(inbox[v], m) ELSE inbox[v]
    BY <2>3, SentShape DEF Send
  <2>8. ASSUME NEW v \in Users
        PROVE  /\ GoodBox(inbox'[v]) /\ (link[v] # "up" => inbox'[v] = inbox[v])
               /\ v # u => \A e \in Docs : BoxGrows(inbox'[v], inbox[v], e)
    <3>1. GoodBox(inbox[v]) /\ GoodBox(Append(inbox[v], m))
      <4>1. GoodBox(inbox[v])
        BY DEF IndInv, Shape, UserShape
      <4> QED
        BY <2>2, <2>4, <4>1, GoodBoxAppend
    <3> QED
      BY <2>7, <3>1, SameBox
  <2>9. ASSUME NEW e \in Docs, link[u] = "up"
        PROVE  Visit(u, e, app[u].asked[e], app[u].windows, ts, queue[e], announce[e],
                     connected_users[e], revision[e], since[e][u], inbox'[u])
    <3>1. inbox'[u] = Append(inbox[u], m) /\ IsSeq(inbox[u])
      BY <2>7, <2>9 DEF IndInv, Shape, UserShape, GoodBox
    <3>2. Visit(u, e, app[u].asked[e], app[u].windows, tasks[u], queue[e], announce[e],
                connected_users[e], revision[e], since[e][u], inbox[u])
      BY <1>3, <2>9
    <3>3. CASE e = d
      <4>1. RegTask(tasks[u][i], e) /\ Answer(m, e) /\ x.doc = e
        BY <2>1, <2>2, <3>3 DEF RegTask, Answer
      <4> QED
        BY <2>1, <2>2, <2>5, <3>1, <3>2, <4>1, VisitAnswered
    <3>4. CASE e # d
      <4>1. ~ RegTask(x, e) /\ ~ OpTask(x, e) /\ ~ IsOperation(m, e) /\ ~ Answer(m, e)
        BY <2>1, <2>2, <3>4 DEF RegTask, OpTask, IsOperation, Answer
      <4>2. TaskEmbeds(ts, tasks[u], e) /\ BoxGrows(inbox'[u], inbox[u], e)
        BY <2>5, <3>1, <4>1, OtherTask, OtherMessage
      <4> QED
        BY <3>2, <4>2, ElsewhereQueued
    <3> QED
      BY <3>3, <3>4
  <2>10. QueuesFor(u)
    BY <1>7, QueuesNone
  <2> QED
    BY <1>1, <1>7, <2>6, <2>7, <2>8, <2>9, <2>10, HandlerStep DEF Steady
<1>8. ASSUME Task(u, i, "doc_join_request", "answered"), enqueue_command(d, Command("Join", u)),
             Done(u, i), inbox' = inbox
      PROVE  IndInv'
  <2> DEFINE c == Command("Join", u)
  <2>1. c.type = "Join" /\ c.user = u
    BY DEF Command
  <2>2. enqueue_command(d, c)
    BY <1>8
  <2> HIDE DEF c
  <2>3. /\ QueuesFor(u)
        /\ \A e \in Docs : queue'[e] = queue[e] \/ (e = d /\ queue'[e] = Append(queue[e], c))
    BY <2>1, <2>2, Enqueues
  <2>4. PICK ts : ts = RemoveAt(tasks[u], i)
    OBVIOUS
  <2>5. GoodTasks(ts) /\ \A e \in Docs : TaskEmbeds(ts, tasks[u], e)
    BY <1>2, <2>4, GoodTasksDone, FewerTasks
  <2>6. tasks' = [tasks EXCEPT ![u] = ts]
    BY <1>8, <2>4 DEF Done
  <2>7. QuietBoxes
    BY <1>8, QuietSame
  <2>8. ASSUME NEW e \in Docs, link[u] = "up"
        PROVE  Visit(u, e, app[u].asked[e], app[u].windows, ts, queue'[e], announce[e],
                     connected_users[e], revision[e], since[e][u], inbox[u])
    <3>1. Visit(u, e, app[u].asked[e], app[u].windows, tasks[u], queue[e], announce[e],
                connected_users[e], revision[e], since[e][u], inbox[u])
      BY <1>3, <2>8
    <3>2. CASE queue'[e] = queue[e]
      BY <2>5, <3>1, <3>2, ElsewhereQueued, SameBox
    <3>3. CASE e = d /\ queue'[e] = Append(queue[e], c)
      <4>1. RegTask(tasks[u][i], e) /\ IsSeq(queue[e]) /\ tasks[u][i].pc = "answered"
        BY <1>8, <3>3 DEF RegTask, Task, IndInv, Shape, GoodQueue
      <4>2. Visit(u, e, app[u].asked[e], app[u].windows, RemoveAt(tasks[u], i),
                  Append(queue[e], c), announce[e], connected_users[e], revision[e],
                  since[e][u], inbox[u])
        BY <1>2, <2>1, <3>1, <4>1, VisitQueuesJoin
      <4> QED
        BY <2>4, <3>3, <4>2
    <3> QED
      BY <2>3, <3>2, <3>3
  <2> QED
    BY <1>1, <1>8, <2>3, <2>5, <2>6, <2>7, <2>8, HandlerStep DEF Steady, QuietBoxes
<1> QED
  BY <1>4, <1>5, <1>6, <1>7, <1>8 DEF handle_doc_join, serverVars, sessionVars

LEMMA HandleStep ==
    ASSUME IndInv, NEW u \in Users, handle_message(u)
    PROVE  IndInv'
<1>1. PICK i \in DOMAIN tasks[u] :
          \/ handle_doc_list(u, i) \/ handle_doc_create(u, i)
          \/ handle_doc_join(u, i) \/ handle_doc_leave(u, i)
          \/ handle_doc_delete(u, i) \/ handle_doc_share(u, i)
          \/ handle_operation(u, i) \/ handle_cursor_update(u, i)
  BY DEF handle_message
<1>2. app' = app /\ link' = link
  BY DEF handle_message
<1> QED
  BY <1>1, <1>2, ListStep, CreateStep, JoinStep, LeaveStep, DeleteStep, ShareStep, OperationStep,
     CursorUpdateStep

-----------------------------------------------------------------------------
(* The thread of a session, CursorAggregator and lost connections *)

\* A step that no handler and no client takes, of the document d: what happens
\* to the visits to d is given.
LEMMA SessionStep ==
    ASSUME IndInv, NEW d \in Docs, app' = app, link' = link, tasks' = tasks, documents' = documents,
           DOMAIN queue' = Docs, DOMAIN announce' = Docs, DOMAIN connected_users' = Docs,
           DOMAIN revision' = Docs, DOMAIN since' = Docs,
           \A e \in Docs : GoodQueue(queue'[e]) /\ DOMAIN since'[e] = Users,
           \A e \in Docs : e # d =>
              /\ queue'[e] = queue[e] /\ announce'[e] = announce[e] /\ revision'[e] = revision[e]
              /\ connected_users'[e] = connected_users[e] /\ since'[e] = since[e],
           DOMAIN inbox' = Users,
           \A v \in Users :
              /\ GoodBox(inbox'[v]) /\ (link[v] # "up" => inbox'[v] = inbox[v])
              /\ \A e \in Docs : e # d => BoxGrows(inbox'[v], inbox[v], e),
           \A v \in Users : link[v] = "up" =>
              Visit(v, d, app[v].asked[d], app[v].windows, tasks[v], queue'[d], announce'[d],
                    connected_users'[d], revision'[d], since'[d][v], inbox'[v])
    PROVE  IndInv'
<1>1. \A v \in Users : UserShape(app'[v], tasks'[v], inbox'[v])
  BY DEF UserShape, IndInv, Shape
<1>2. Shape'
  BY <1>1 DEF IndInv, Shape
<1>3. GoneInv'
  BY DEF IndInv, GoneInv
<1>4. ASSUME NEW v \in Users, NEW e \in Docs, link[v] = "up"
      PROVE  Visit(v, e, app[v].asked[e], app[v].windows, tasks[v], queue'[e], announce'[e],
                   connected_users'[e], revision'[e], since'[e][v], inbox'[v])
  <2>1. CASE e = d
    BY <1>4, <2>1
  <2>2. CASE e # d
    <3>1. Visit(v, e, app[v].asked[e], app[v].windows, tasks[v], queue[e], announce[e],
                connected_users[e], revision[e], since[e][v], inbox[v])
      BY <1>4 DEF IndInv, VisitsInv, VisitOf
    <3>2. BoxGrows(inbox'[v], inbox[v], e) /\ TaskEmbeds(tasks[v], tasks[v], e)
      BY <2>2, SameTasks
    <3>3. Visit(v, e, app[v].asked[e], app[v].windows, tasks[v], queue[e], announce[e],
                connected_users[e], revision[e], since[e][v], inbox'[v])
      BY <3>1, <3>2, ElsewhereQueued
    <3> QED
      BY <2>2, <3>3
  <2> QED
    BY <2>1, <2>2
<1>5. VisitsInv'
  BY <1>4 DEF VisitsInv, VisitOf
<1> QED
  BY <1>2, <1>3, <1>5 DEF IndInv

\* The same when messages are sent that no visit is about, no operation is
\* committed and nobody is registered.
LEMMA QuietSession ==
    ASSUME IndInv, NEW d \in Docs, app' = app, link' = link, tasks' = tasks, documents' = documents,
           UNCHANGED <<announce, revision, since>>, QuietBoxes,
           DOMAIN queue' = Docs, DOMAIN connected_users' = Docs,
           \A e \in Docs : e # d =>
              queue'[e] = queue[e] /\ connected_users'[e] = connected_users[e],
           queue'[d] = queue[d] \/ (queue[d] # << >> /\ queue'[d] = Tail(queue[d])),
           connected_users'[d] \subseteq connected_users[d]
    PROVE  IndInv'
<1>1. /\ DOMAIN announce = Docs /\ DOMAIN revision = Docs /\ DOMAIN since = Docs
      /\ \A e \in Docs : GoodQueue(queue[e]) /\ DOMAIN since[e] = Users
  BY DEF IndInv, Shape
<1>2. GoodQueue(queue'[d]) /\ \A v : CommandEmbeds(queue'[d], queue[d], v)
  <2>1. CASE queue'[d] = queue[d]
    BY <1>1, <2>1, SameCommands
  <2>2. CASE queue[d] # << >> /\ queue'[d] = Tail(queue[d])
    <3>1. IsSeq(queue[d])
      BY <1>1 DEF GoodQueue
    <3>2. /\ IsSeq(Tail(queue[d]))
          /\ \A k \in DOMAIN Tail(queue[d]) : \E l \in DOMAIN queue[d] : Tail(queue[d])[k] = queue[d][l]
      <4>1. /\ Len(queue[d]) \in Nat /\ DOMAIN queue[d] = 1 .. Len(queue[d]) /\ IsSeq(Tail(queue[d]))
            /\ DOMAIN Tail(queue[d]) = 1 .. Len(queue[d]) - 1
            /\ \A k \in 1 .. Len(queue[d]) - 1 : Tail(queue[d])[k] = queue[d][k + 1]
        BY <2>2, <3>1, TailShape, DomainShape
      <4>2. \A k \in 1 .. Len(queue[d]) - 1 : k + 1 \in DOMAIN queue[d]
        BY <4>1
      <4> QED
        BY <4>1, <4>2
    <3>3. GoodQueue(Tail(queue[d]))
      BY <1>1, <3>2 DEF GoodQueue
    <3> QED
      BY <2>2, <3>1, <3>3, FewerCommands
  <2> QED
    BY <2>1, <2>2
<1>3. ASSUME NEW v \in Users, link[v] = "up"
      PROVE  Visit(v, d, app[v].asked[d], app[v].windows, tasks[v], queue'[d], announce[d],
                   connected_users'[d], revision[d], since[d][v], inbox'[v])
  <2>1. Visit(v, d, app[v].asked[d], app[v].windows, tasks[v], queue[d], announce[d],
              connected_users[d], revision[d], since[d][v], inbox[v])
    BY <1>3 DEF IndInv, VisitsInv, VisitOf
  <2>2. BoxGrows(inbox'[v], inbox[v], d) /\ (v \in connected_users'[d] => v \in connected_users[d])
    BY DEF QuietBoxes
  <2>3. CommandEmbeds(queue'[d], queue[d], v)
    BY <1>2
  <2> QED
    BY <2>1, <2>2, <2>3, SameTasks, FewerWindows, VisitEmbeds
<1> QED
  BY <1>1, <1>2, <1>3, SessionStep DEF QuietBoxes

LEMMA CommandStep ==
    ASSUME IndInv, NEW d \in Docs, process_command(d), app' = app, link' = link, tasks' = tasks,
           documents' = documents
    PROVE  IndInv'
<1> DEFINE q == queue[d]
           cmd == Head(q)
           x == cmd.user
<1>1. /\ announce[d] = {} /\ q # << >> /\ queue' = [queue EXCEPT ![d] = Tail(q)]
  BY DEF process_command
<1>2. /\ DOMAIN queue = Docs /\ DOMAIN announce = Docs /\ DOMAIN connected_users = Docs
      /\ DOMAIN revision = Docs /\ DOMAIN since = Docs /\ GoodQueue(q) /\ IsSeq(q)
      /\ \A e \in Docs : GoodQueue(queue[e]) /\ DOMAIN since[e] = Users
      /\ \A v \in Users : UserShape(app[v], tasks[v], inbox[v])
      /\ DOMAIN inbox = Users
  BY DEF IndInv, Shape, GoodQueue
<1>3. /\ DOMAIN queue' = Docs /\ queue'[d] = Tail(q) /\ \A e \in Docs : e # d => queue'[e] = queue[e]
  BY <1>1, <1>2
<1>4. /\ IsSeq(Tail(q)) /\ Len(q) \in Nat /\ DOMAIN q = 1 .. Len(q) /\ Len(q) > 0 /\ cmd = q[1]
      /\ DOMAIN Tail(q) = 1 .. Len(q) - 1
      /\ \A k \in 1 .. Len(q) - 1 : Tail(q)[k] = q[k + 1]
  BY <1>1, <1>2, TailShape, DomainShape
<1>5. GoodQueue(Tail(q))
  <2>1. \A k \in 1 .. Len(q) - 1 : k + 1 \in DOMAIN q
    BY <1>4
  <2> QED
    BY <1>2, <1>4, <2>1 DEF GoodQueue
<1>6. cmd.type \in {"Join", "Leave", "Operation", "Delete"}
  BY <1>2, <1>4 DEF GoodQueue
<1>7. \A v \in Users : link[v] = "up" =>
         Visit(v, d, app[v].asked[d], app[v].windows, tasks[v], q, {}, connected_users[d],
               revision[d], since[d][v], inbox[v])
  BY <1>1 DEF IndInv, VisitsInv, VisitOf
<1>8. CASE cmd.type = "Join"
  <2> DEFINE m == Message("user_joined", d, x)
             us == connected_users[d] \ {x}
  <2>1. handle_join(d, x)
    BY <1>8 DEF process_command
  <2>2. /\ connected_users' = [connected_users EXCEPT ![d] = @ \cup {x}]
        /\ since' = [since EXCEPT ![d][x] = revision[d]] /\ Send(us, m)
        /\ revision' = revision /\ announce' = announce
    BY <2>1 DEF handle_join
  <2>3. m.type = "user_joined"
    BY DEF Message
  <2> HIDE DEF m
  <2>4. \A e \in Docs : ~ IsOperation(m, e) /\ ~ Answer(m, e)
    BY <2>3 DEF IsOperation, Answer
  <2>5. QuietBoxes
    BY <2>2, <2>3, <2>4, QuietSend
  <2>6. inbox' = SentTo(inbox, us, m)
    BY <2>2 DEF Send
  <2>7. x \in Users => inbox'[x] = inbox[x]
    BY <2>6, SentShape
  <2>8. /\ DOMAIN connected_users' = Docs /\ connected_users'[d] = connected_users[d] \cup {x}
        /\ \A e \in Docs : e # d => connected_users'[e] = connected_users[e]
    BY <1>2, <2>2
  <2>9. /\ DOMAIN since' = Docs /\ \A e \in Docs : DOMAIN since'[e] = Users
        /\ \A e \in Docs : e # d => since'[e] = since[e]
        /\ \A v \in Users : since'[d][v] = IF v = x THEN revision[d] ELSE since[d][v]
    BY <1>2, <2>2
  <2> HIDE DEF q, cmd, x
  <2>10. RegCommand(Head(q), x)
    BY <1>8 DEF RegCommand, cmd, x
  <2>11. ASSUME NEW v \in Users, link[v] = "up"
         PROVE  Visit(v, d, app[v].asked[d], app[v].windows, tasks[v], Tail(q), {},
                      connected_users[d] \cup {x}, revision[d], since'[d][v], inbox'[v])
    <3>1. Visit(v, d, app[v].asked[d], app[v].windows, tasks[v], q, {}, connected_users[d],
                revision[d], since[d][v], inbox[v])
      BY <1>7, <2>11
    <3>2. CASE v = x
      <4>1. Visit(v, d, app[v].asked[d], app[v].windows, tasks[v], Tail(q), {},
                  connected_users[d] \cup {v}, revision[d], revision[d], inbox[v])
        BY <1>1, <1>2, <2>10, <3>1, <3>2, VisitJoined
      <4> QED
        BY <2>7, <2>9, <3>2, <4>1
    <3>3. CASE v # x
      <4>1. /\ BoxGrows(inbox'[v], inbox[v], d) /\ CommandEmbeds(Tail(q), q, v)
            /\ v \in connected_users[d] \cup {x} => v \in connected_users[d]
        BY <1>1, <1>2, <2>5, <3>3, FewerCommands DEF QuietBoxes
      <4>2. since'[d][v] = since[d][v]
        BY <2>9, <3>3
      <4> QED
        BY <3>1, <4>1, <4>2, SameTasks, FewerWindows, VisitEmbeds
    <3> QED
      BY <3>2, <3>3
  <2>12. /\ queue'[d] = Tail(q) /\ announce'[d] = {} /\ revision'[d] = revision[d]
         /\ connected_users'[d] = connected_users[d] \cup {x}
         /\ DOMAIN announce' = Docs /\ DOMAIN revision' = Docs
    BY <1>1, <1>2, <1>3, <2>2, <2>8
  <2>13. \A v \in Users : link[v] = "up" =>
            Visit(v, d, app[v].asked[d], app[v].windows, tasks[v], queue'[d], announce'[d],
                  connected_users'[d], revision'[d], since'[d][v], inbox'[v])
    BY <2>11, <2>12
  <2>14. \A e \in Docs : GoodQueue(queue'[e]) /\ DOMAIN since'[e] = Users
    BY <1>2, <1>3, <1>5, <2>9
  <2>15. \A e \in Docs : e # d =>
            /\ queue'[e] = queue[e] /\ announce'[e] = announce[e] /\ revision'[e] = revision[e]
            /\ connected_users'[e] = connected_users[e] /\ since'[e] = since[e]
    BY <1>3, <2>2, <2>8, <2>9
  <2> QED
    BY <1>3, <2>5, <2>8, <2>9, <2>12, <2>13, <2>14, <2>15, SessionStep DEF QuietBoxes
<1>9. CASE cmd.type = "Leave"
  <2> DEFINE m == Message("user_left", d, x)
  <2>1. handle_leave(d, x)
    BY <1>9 DEF process_command
  <2>2. /\ connected_users' = [connected_users EXCEPT ![d] = @ \ {x}]
        /\ Send(connected_users[d] \ {x}, m) /\ UNCHANGED <<announce, revision, since>>
    BY <2>1 DEF handle_leave
  <2>3. m.type = "user_left"
    BY DEF Message
  <2> HIDE DEF m
  <2>4. \A e \in Docs : ~ IsOperation(m, e) /\ ~ Answer(m, e)
    BY <2>3 DEF IsOperation, Answer
  <2>5. QuietBoxes
    BY <2>2, <2>3, <2>4, QuietSend
  <2>6. /\ DOMAIN connected_users' = Docs /\ connected_users'[d] \subseteq connected_users[d]
        /\ \A e \in Docs : e # d => connected_users'[e] = connected_users[e]
    BY <1>2, <2>2
  <2> QED
    BY <1>1, <1>3, <2>2, <2>5, <2>6, QuietSession
<1>10. CASE cmd.type = "Operation"
  <2>1. Commit(d, x)
    BY <1>10 DEF process_command
  <2>2. /\ revision' = [revision EXCEPT ![d] = @ + 1] /\ announce' = [announce EXCEPT ![d] = {x}]
        /\ inbox' = inbox /\ connected_users' = connected_users /\ since' = since
    BY <2>1 DEF Commit
  <2>3. /\ DOMAIN revision' = Docs /\ DOMAIN announce' = Docs /\ revision'[d] = revision[d] + 1
        /\ announce'[d] = {x}
        /\ \A e \in Docs : e # d => revision'[e] = revision[e] /\ announce'[e] = announce[e]
    BY <1>2, <2>2
  <2> HIDE DEF q, cmd, x
  <2>4. OpCommand(Head(q), x)
    BY <1>10 DEF OpCommand, cmd, x
  <2>5. ASSUME NEW v \in Users, link[v] = "up"
        PROVE  Visit(v, d, app[v].asked[d], app[v].windows, tasks[v], Tail(q), {x},
                     connected_users[d], revision[d] + 1, since[d][v], inbox[v])
    BY <1>1, <1>2, <1>7, <2>4, <2>5, VisitCommitted
  <2>6. QuietBoxes
    BY <2>2, QuietSame
  <2> QED
    BY <1>1, <1>2, <1>3, <1>5, <2>2, <2>3, <2>5, <2>6, SessionStep DEF QuietBoxes
<1>11. CASE cmd.type = "Delete"
  <2> DEFINE m == Message("doc_deleted", d, 0)
  <2>1. handle_delete(d)
    BY <1>11 DEF process_command
  <2>2. /\ connected_users' = [connected_users EXCEPT ![d] = {}]
        /\ Send(connected_users[d], m) /\ UNCHANGED <<announce, revision, since>>
    BY <2>1 DEF handle_delete
  <2>3. m.type = "doc_deleted"
    BY DEF Message
  <2> HIDE DEF m
  <2>4. \A e \in Docs : ~ IsOperation(m, e) /\ ~ Answer(m, e)
    BY <2>3 DEF IsOperation, Answer
  <2>5. QuietBoxes
    BY <2>2, <2>3, <2>4, QuietSend
  <2>6. /\ DOMAIN connected_users' = Docs /\ connected_users'[d] \subseteq connected_users[d]
        /\ \A e \in Docs : e # d => connected_users'[e] = connected_users[e]
    BY <1>2, <2>2
  <2> QED
    BY <1>1, <1>3, <2>2, <2>5, <2>6, QuietSession
<1> QED
  BY <1>6, <1>8, <1>9, <1>10, <1>11

LEMMA AnnounceStep ==
    ASSUME IndInv, NEW d \in Docs, Announce(d), app' = app, link' = link, tasks' = tasks,
           documents' = documents
    PROVE  IndInv'
<1>1. PICK x \in announce[d] : inbox' = Announcement(d, x)
  BY DEF Announce
<1> DEFINE conn == connected_users[d]
           ack == OperationMessage("operation_ack", d, x, revision[d])
           other == OperationMessage("operation_broadcast", d, x, revision[d])
           acked == SentTo(inbox, conn \cap {x}, ack)
<1>2. /\ announce' = [announce EXCEPT ![d] = {}] /\ revision' = revision /\ queue' = queue
      /\ connected_users' = connected_users /\ since' = since
  BY DEF Announce
<1>3. inbox' = SentTo(acked, conn \ {x}, other)
  BY <1>1 DEF Announcement
<1>4. /\ DOMAIN queue = Docs /\ DOMAIN announce = Docs /\ DOMAIN connected_users = Docs
      /\ DOMAIN revision = Docs /\ DOMAIN since = Docs
      /\ \A e \in Docs : GoodQueue(queue[e]) /\ DOMAIN since[e] = Users
      /\ \A v \in Users : GoodBox(inbox[v])
  BY DEF IndInv, Shape, UserShape
<1>5. /\ DOMAIN announce' = Docs /\ announce'[d] = {}
      /\ \A e \in Docs : e # d => announce'[e] = announce[e]
  BY <1>2, <1>4
<1>6. /\ ack.type = "operation_ack" /\ ack.doc = d /\ ack.rev = revision[d] /\ "doc" \in DOMAIN ack
      /\ other.type = "operation_broadcast" /\ other.doc = d /\ other.rev = revision[d]
      /\ "doc" \in DOMAIN other /\ other.user = x
  BY DEF OperationMessage
<1> HIDE DEF ack, other
<1>7. /\ DOMAIN inbox' = Users
      /\ \A v \in Users : acked[v] =
            IF v \in conn \cap {x} /\ link[v] = "up" THEN Append(inbox[v], ack) ELSE inbox[v]
      /\ \A v \in Users : inbox'[v] =
            IF v \in conn \ {x} /\ link[v] = "up" THEN Append(acked[v], other) ELSE acked[v]
  BY <1>3, SentShape
<1> HIDE DEF acked
<1>8. ASSUME NEW v \in Users
      PROVE  \/ v = x /\ v \in conn /\ link[v] = "up" /\ inbox'[v] = Append(inbox[v], ack)
             \/ v # x /\ v \in conn /\ link[v] = "up" /\ inbox'[v] = Append(inbox[v], other)
             \/ ~ (v \in conn /\ link[v] = "up") /\ inbox'[v] = inbox[v]
  BY <1>7
<1>9. ASSUME NEW v \in Users
      PROVE  /\ GoodBox(inbox'[v]) /\ (link[v] # "up" => inbox'[v] = inbox[v])
             /\ \A e \in Docs : e # d => BoxGrows(inbox'[v], inbox[v], e)
  <2>1. GoodBox(inbox[v]) /\ IsSeq(inbox[v])
    BY <1>4 DEF GoodBox
  <2>2. GoodBox(Append(inbox[v], ack)) /\ GoodBox(Append(inbox[v], other))
    BY <1>6, <2>1, GoodBoxAppend
  <2>3. \A e \in Docs : e # d => /\ ~ IsOperation(ack, e) /\ ~ Answer(ack, e)
                                 /\ ~ IsOperation(other, e) /\ ~ Answer(other, e)
    BY <1>6 DEF IsOperation, Answer
  <2>4. \A e \in Docs : e # d => /\ BoxGrows(Append(inbox[v], ack), inbox[v], e)
                                 /\ BoxGrows(Append(inbox[v], other), inbox[v], e)
                                 /\ BoxGrows(inbox[v], inbox[v], e)
    BY <2>1, <2>3, OtherMessage, SameBox
  <2> QED
    BY <1>8, <2>1, <2>2, <2>4
<1>10. ASSUME NEW v \in Users, link[v] = "up"
       PROVE  Visit(v, d, app[v].asked[d], app[v].windows, tasks[v], queue[d], {}, conn,
                    revision[d], since[d][v], inbox'[v])
  <2>1. Visit(v, d, app[v].asked[d], app[v].windows, tasks[v], queue[d], announce[d], conn,
              revision[d], since[d][v], inbox[v])
    BY <1>10 DEF IndInv, VisitsInv, VisitOf
  <2>2. IsSeq(inbox[v]) /\ announce[d] # {}
    BY <1>1, <1>4 DEF GoodBox
  <2>3. CASE v \notin conn
    <3>1. inbox'[v] = inbox[v]
      BY <1>8, <2>3
    <3> QED
      BY <2>1, <2>3, <3>1, VisitUnannounced
  <2>4. CASE v \in conn /\ v = x
    <3>1. inbox'[v] = Append(inbox[v], ack)
      BY <1>8, <1>10, <2>4
    <3>2. IsOperation(ack, d) /\ v \in announce[d] /\ ack.type # "operation_broadcast"
      BY <1>1, <1>6, <2>4 DEF IsOperation
    <3> QED
      BY <1>6, <2>1, <2>2, <2>4, <3>1, <3>2, VisitAnnounced
  <2>5. CASE v \in conn /\ v # x
    <3>1. inbox'[v] = Append(inbox[v], other)
      BY <1>8, <1>10, <2>5
    <3>2. IsOperation(other, d) /\ ~ IsAck(other, d) /\ other.user # v
      BY <1>6, <2>5 DEF IsOperation, IsAck
    <3> QED
      BY <1>6, <2>1, <2>2, <2>5, <3>1, <3>2, VisitAnnounced
  <2> QED
    BY <2>3, <2>4, <2>5
<1> QED
  BY <1>2, <1>4, <1>5, <1>7, <1>9, <1>10, SessionStep

LEMMA EndStep ==
    ASSUME IndInv, NEW d \in Docs, EndSession(d), app' = app, link' = link, tasks' = tasks,
           documents' = documents
    PROVE  IndInv'
<1>1. /\ connected_users' = [connected_users EXCEPT ![d] = {}] /\ queue' = queue /\ inbox' = inbox
      /\ UNCHANGED <<announce, revision, since>>
  BY DEF EndSession
<1>2. DOMAIN connected_users = Docs /\ DOMAIN queue = Docs
  BY DEF IndInv, Shape
<1>3. /\ DOMAIN connected_users' = Docs /\ connected_users'[d] \subseteq connected_users[d]
      /\ \A e \in Docs : e # d => connected_users'[e] = connected_users[e]
  BY <1>1, <1>2
<1>4. QuietBoxes
  BY <1>1, QuietSame
<1> QED
  BY <1>1, <1>2, <1>3, <1>4, QuietSession

LEMMA SessionsStep ==
    ASSUME IndInv, NEW d \in Docs, Session(d)
    PROVE  IndInv'
<1>1. app' = app /\ link' = link /\ tasks' = tasks /\ documents' = documents
  BY DEF Session, managerVars
<1> QED
  BY <1>1, CommandStep, AnnounceStep, EndStep DEF Session

\* Nothing changes but messages that no visit is about.
LEMMA QuietStep ==
    ASSUME IndInv, UNCHANGED <<app, link, tasks, documents>>,
           UNCHANGED <<queue, announce, connected_users, revision, since>>, QuietBoxes
    PROVE  IndInv'
<1>1. \A v \in Users : UserShape(app'[v], tasks'[v], inbox'[v])
  BY DEF UserShape, IndInv, Shape, QuietBoxes
<1>2. Shape'
  BY <1>1 DEF IndInv, Shape, QuietBoxes
<1>3. GoneInv'
  BY DEF IndInv, GoneInv, QuietBoxes
<1>4. ASSUME NEW v \in Users, NEW e \in Docs, link[v] = "up"
      PROVE  Visit(v, e, app[v].asked[e], app[v].windows, tasks[v], queue[e], announce[e],
                   connected_users[e], revision[e], since[e][v], inbox'[v])
  <2>1. Visit(v, e, app[v].asked[e], app[v].windows, tasks[v], queue[e], announce[e],
              connected_users[e], revision[e], since[e][v], inbox[v])
    BY <1>4 DEF IndInv, VisitsInv, VisitOf
  <2>2. BoxGrows(inbox'[v], inbox[v], e) /\ TaskEmbeds(tasks[v], tasks[v], e)
    BY SameTasks DEF QuietBoxes
  <2> QED
    BY <2>1, <2>2, ElsewhereQueued
<1>5. VisitsInv'
  BY <1>4 DEF VisitsInv, VisitOf
<1> QED
  BY <1>2, <1>3, <1>5 DEF IndInv

LEMMA CursorsStep ==
    ASSUME IndInv, (\E d \in Docs : get_cursors(d)) \/ broadcast_loop
    PROVE  IndInv'
<1>1. /\ UNCHANGED <<app, link, tasks, documents>>
      /\ UNCHANGED <<queue, announce, connected_users, revision, since>>
  BY DEF get_cursors, broadcast_loop, managerVars, sessionVars
<1>2. CASE inbox' = inbox
  BY <1>1, <1>2, QuietSame, QuietStep
<1>3. ASSUME NEW us, NEW d, NEW users, Send(us, CursorBroadcast(d, users))
      PROVE  IndInv'
  <2> DEFINE m == CursorBroadcast(d, users)
  <2>1. m.type = "cursor_broadcast" /\ Send(us, m)
    BY <1>3 DEF CursorBroadcast
  <2> HIDE DEF m
  <2>2. \A e \in Docs : ~ IsOperation(m, e) /\ ~ Answer(m, e)
    BY <2>1 DEF IsOperation, Answer
  <2>3. QuietBoxes
    BY <2>1, <2>2, QuietSend
  <2> QED
    BY <1>1, <2>3, QuietStep
<1> QED
  BY <1>2, <1>3 DEF get_cursors, broadcast_loop

LEMMA LoseStep ==
    ASSUME IndInv, NEW u \in Users, LoseLink(u)
    PROVE  IndInv'
<1>1. PICK k \in 0 .. Len(tasks[u]) : tasks' = [tasks EXCEPT ![u] = SubSeq(@, 1, k)]
  BY DEF LoseLink
<1>2. /\ link' = [link EXCEPT ![u] = "lost"] /\ app' = [app EXCEPT ![u] = Closed]
      /\ inbox' = [inbox EXCEPT ![u] = << >>] /\ documents' = documents
      /\ UNCHANGED <<queue, announce, connected_users, revision, since>>
  BY DEF LoseLink, serverVars, managerVars, sessionVars
<1>3. /\ DOMAIN app = Users /\ DOMAIN tasks = Users /\ DOMAIN inbox = Users /\ DOMAIN link = Users
      /\ \A v \in Users : UserShape(app[v], tasks[v], inbox[v])
  BY DEF IndInv, Shape
<1> DEFINE ts == SubSeq(tasks[u], 1, k)
<1>4. /\ DOMAIN app' = Users /\ DOMAIN tasks' = Users /\ DOMAIN inbox' = Users
      /\ DOMAIN link' = Users
      /\ app'[u] = Closed /\ tasks'[u] = ts /\ inbox'[u] = << >> /\ link'[u] = "lost"
      /\ \A v \in Users : v # u => /\ app'[v] = app[v] /\ tasks'[v] = tasks[v]
                                   /\ inbox'[v] = inbox[v] /\ link'[v] = link[v]
  BY <1>1, <1>2, <1>3
<1>5. GoodTasks(ts)
  <2>1. GoodTasks(tasks[u]) /\ IsSeq(tasks[u])
    BY <1>3 DEF UserShape, GoodTasks
  <2>2. /\ IsSeq(ts) /\ DOMAIN ts = 1 .. k /\ DOMAIN tasks[u] = 1 .. Len(tasks[u])
        /\ \A i \in 1 .. k : ts[i] = tasks[u][i]
    BY <2>1, PrefixShape, DomainShape
  <2>3. \A i \in 1 .. k : i \in DOMAIN tasks[u]
    BY <2>2
  <2> QED
    BY <2>1, <2>2, <2>3 DEF GoodTasks
<1>6. UserShape(Closed, ts, << >>) /\ Closed.windows = {}
  <2>1. GoodBox(<< >>)
    BY EmptyShape DEF GoodBox
  <2>2. GoodWindows({})
    BY FS_EmptySet DEF GoodWindows
  <2>3. IsClient(Closed) /\ DOMAIN Closed.asked = Docs /\ Closed.out = << >> /\ Closed.windows = {}
    BY DEF IsClient, Closed
  <2> QED
    BY <1>5, <2>1, <2>2, <2>3 DEF UserShape
<1>7. \A v \in Users : UserShape(app'[v], tasks'[v], inbox'[v])
  BY <1>3, <1>4, <1>6
<1>8. Shape'
  BY <1>2, <1>4, <1>7 DEF IndInv, Shape
<1>9. GoneInv'
  BY <1>4, <1>6 DEF IndInv, GoneInv
<1>10. VisitsInv'
  BY <1>2, <1>4 DEF IndInv, VisitsInv, VisitOf
<1> QED
  BY <1>8, <1>9, <1>10 DEF IndInv

LEMMA DisconnectStep ==
    ASSUME IndInv, NEW u \in Users, on_disconnect(u)
    PROVE  IndInv'
<1> DEFINE c == Command("Leave", u)
<1>1. /\ UNCHANGED <<app, tasks, inbox, documents>>
      /\ UNCHANGED <<announce, connected_users, revision, since>>
  BY DEF on_disconnect
<1>2. /\ link[u] # "up"
      /\ link' = [link EXCEPT ![u] = "closing"] \/ link' = [link EXCEPT ![u] = "gone"]
  BY DEF on_disconnect
<1>3. DOMAIN link = Users /\ \A e \in Docs : GoodQueue(queue[e])
  BY DEF IndInv, Shape
<1>4. DOMAIN link' = Users /\ \A v \in Users : link'[v] = "up" <=> link[v] = "up"
  BY <1>2, <1>3
<1>5. c.type = "Leave" /\ c.user = u
  BY DEF Command
<1>6. \/ queue' = queue
      \/ enqueue_command(current_doc[u], c)
  BY DEF on_disconnect, QueueLeave
<1> HIDE DEF c
<1>7. QueuesFor(u)
  BY <1>5, <1>6, QueuesNone, Enqueues
<1>8. Shape'
  BY <1>1, <1>4, <1>7 DEF IndInv, Shape, QueuesFor
<1>9. GoneInv'
  BY <1>1, <1>4 DEF IndInv, GoneInv
<1>10. ASSUME NEW v \in Users, NEW e \in Docs, link[v] = "up"
       PROVE  Visit(v, e, app[v].asked[e], app[v].windows, tasks[v], queue'[e], announce[e],
                    connected_users[e], revision[e], since[e][v], inbox[v])
  <2>1. Visit(v, e, app[v].asked[e], app[v].windows, tasks[v], queue[e], announce[e],
              connected_users[e], revision[e], since[e][v], inbox[v])
    BY <1>10 DEF IndInv, VisitsInv, VisitOf
  <2>2. CASE queue'[e] = queue[e]
    BY <2>1, <2>2
  <2>3. ASSUME NEW x, x.user = u, queue'[e] = Append(queue[e], x)
        PROVE  CommandEmbeds(queue'[e], queue[e], v)
    <3>1. ~ RegCommand(x, v) /\ ~ OpCommand(x, v) /\ IsSeq(queue[e])
      BY <1>2, <1>3, <1>10, <2>3 DEF RegCommand, OpCommand, GoodQueue
    <3> QED
      BY <2>3, <3>1, OtherCommand
  <2>4. CASE CommandEmbeds(queue'[e], queue[e], v)
    BY <2>1, <2>4, SameTasks, SameBox, FewerWindows, VisitEmbeds
  <2> QED
    BY <1>7, <2>2, <2>3, <2>4 DEF QueuesFor
<1>11. VisitsInv'
  BY <1>1, <1>4, <1>10 DEF VisitsInv, VisitOf
<1> QED
  BY <1>8, <1>9, <1>11 DEF IndInv

-----------------------------------------------------------------------------
(* The theorem *)

\* Nothing is open, asked or sent before the first request.
LEMMA InitialInv ==
    ASSUME Init
    PROVE  IndInv
<1> DEFINE c == [Closed EXCEPT !.visible = TRUE]
           t == Request("doc_list_request", 0, "", 0)
<1>1. /\ app = [u \in Users |-> c] /\ tasks = [u \in Users |-> <<t>>]
      /\ inbox = [u \in Users |-> << >>] /\ link = [u \in Users |-> "up"]
      /\ documents = {} /\ revision = [d \in Docs |-> 0] /\ queue = [d \in Docs |-> << >>]
      /\ announce = [d \in Docs |-> {}] /\ connected_users = [d \in Docs |-> {}]
      /\ since = [d \in Docs |-> [u \in Users |-> 0]]
  BY DEF Init
<1>2. /\ IsClient(c) /\ c.asked = [d \in Docs |-> 0] /\ c.out = << >> /\ c.windows = {}
  BY DEF IsClient, Closed
<1>3. IsRequest(t) /\ t.type = "doc_list_request"
  BY DEF IsRequest, Request
<1> HIDE DEF c, t
<1>4. /\ IsSeq(<<t>>) /\ DOMAIN <<t>> = {1} /\ <<t>>[1] = t
      /\ IsSeq(<< >>) /\ DOMAIN << >> = {}
  BY SingleShape, EmptyShape, DomainShape
<1>5. GoodTasks(<<t>>) /\ GoodBox(<< >>) /\ GoodQueue(<< >>) /\ GoodWindows({})
  BY <1>3, <1>4, FS_EmptySet DEF GoodTasks, GoodBox, GoodQueue, GoodWindows
<1>6. Shape
  BY <1>1, <1>2, <1>5 DEF Shape, UserShape
<1>7. GoneInv
  BY <1>1 DEF GoneInv
<1>8. ASSUME NEW u \in Users, NEW d \in Docs
      PROVE  Visit(u, d, 0, {}, <<t>>, << >>, {}, {}, 0, 0, << >>)
  <2>1. ~ RegTask(<<t>>[1], d) /\ <<t>>[1].type # "doc_join_request"
    BY <1>3, <1>4 DEF RegTask
  <2>2. Numbered(d, 0, {}, <<t>>, << >>) /\ ReadTexts(d, <<t>>, 0, << >>)
    BY <1>4, <2>1 DEF Numbered, ReadTexts
  <2>3. Ordered(u, d, {}, 0, << >>)
    BY <1>4 DEF Ordered
  <2>4. Reading(u, d, 0, {}, <<t>>, << >>, {}, << >>)
    BY <1>4, <2>1 DEF Reading
  <2>5. /\ Answering(u, d, 0, {}, <<t>>, << >>, {}, {}, 0, 0, << >>)
        /\ Showing(u, d, 0, {}, <<t>>, << >>, {}, {}, 0, 0, << >>)
    BY <1>4 DEF Answering, Showing
  <2> QED
    BY <2>2, <2>3, <2>4, <2>5 DEF Visit
<1>9. VisitsInv
  BY <1>1, <1>2, <1>8 DEF VisitsInv, VisitOf
<1> QED
  BY <1>6, <1>7, <1>9 DEF IndInv

LEMMA EveryStep ==
    ASSUME IndInv, [Next]_vars
    PROVE  IndInv'
<1>1. CASE UNCHANGED vars
  <2>1. /\ UNCHANGED <<app, link, tasks, documents, inbox>>
        /\ UNCHANGED <<queue, announce, connected_users, revision, since>>
    BY <1>1 DEF vars, serverVars, managerVars, sessionVars
  <2> QED
    BY <2>1, QuietSame, QuietStep
<1>2. ASSUME NEW u \in Users, onNewClicked(u) \/ onRefreshClicked(u) PROVE IndInv'
  <2>1. PICK act, type :
          /\ type \notin {"doc_join_request", "doc_leave_request", "operation"}
          /\ User(u, act, Ask(app[u], type, 0, ""))
    BY <1>2 DEF onNewClicked, onRefreshClicked, refresh
  <2> QED
    BY <2>1, AskingStep
<1>3. ASSUME NEW u \in Users, onDeleteClicked(u) \/ onShareClicked(u) PROVE IndInv'
  <2>1. PICK act, type, d, target :
          /\ type \notin {"doc_join_request", "doc_leave_request", "operation"}
          /\ User(u, act, Ask(app[u], type, d, target))
    BY <1>3 DEF onDeleteClicked, onShareClicked
  <2> QED
    BY <2>1, AskingStep
<1> QED
  BY <1>1, <1>2, <1>3, DeliverStep, OpenStep, CloseStep, EditStep, CursorStep, HandleStep,
     LoseStep, DisconnectStep, SessionsStep, CursorsStep DEF Next

LEMMA InvImplies ==
    ASSUME IndInv
    PROVE  OnlyHoleIsTheJoin
<1> SUFFICES ASSUME NEW u \in Users, NEW w \in app[u].windows, w.fresh,
                    w.n = app[u].asked[w.doc]
             PROVE  LET d == w.doc
                        sent == {i \in DOMAIN inbox[u] : IsOperation(inbox[u][i], d)}
                        held == ToSet(w.text)
                        coming == {inbox[u][i].rev : i \in sent}
                        next == IF u \in connected_users[d] /\ announce[d] # {}
                                THEN {revision[d]} ELSE {}
                    IN  /\ \A i, j \in DOMAIN w.text : i < j => w.text[i] < w.text[j]
                        /\ \A i, j \in sent : i < j => inbox[u][i].rev < inbox[u][j].rev
                        /\ \A x \in held, y \in coming : x < y
                        /\ \A x \in held \cup coming, y \in next : x < y
                        /\ u \in connected_users[d] =>
                              1 .. revision[d] \ (held \cup coming \cup next)
                                = w.opened + 1 .. since[d][u]
  BY DEF OnlyHoleIsTheJoin
<1> DEFINE d == w.doc
           box == inbox[u]
           text == w.text
           conn == connected_users[d]
           rev == revision[d]
           snc == since[d][u]
           ann == announce[d]
           sent == {i \in DOMAIN box : IsOperation(box[i], d)}
           held == ToSet(text)
           coming == {box[i].rev : i \in sent}
           next == IF u \in conn /\ ann # {} THEN {rev} ELSE {}
<1>1. d \in Docs /\ IsSeq(box) /\ link[u] = "up"
  BY DEF IndInv, Shape, UserShape, GoodWindows, GoodBox, GoneInv
<1>2. VisitOf(u, d)
  BY <1>1 DEF IndInv, VisitsInv
<1>3. Ordered(u, d, ann, rev, box)
  BY <1>2 DEF VisitOf, Visit
<1>4. Text(u, d, text, w.opened, 0, ann, conn, rev, snc, box)
  BY <1>2 DEF VisitOf, Visit, Showing, View
<1>5. /\ text \in Seq(Nat) /\ Len(text) \in Nat /\ DOMAIN text = 1 .. Len(text)
      /\ held = {text[i] : i \in 1 .. Len(text)}
      /\ Len(box) \in Nat /\ DOMAIN box = 1 .. Len(box)
  <2>1. text \in Seq(Nat)
    BY <1>4 DEF Text
  <2> QED
    BY <1>1, <2>1, DomainShape DEF ToSet
<1>6. \A i \in DOMAIN box : i > 0
  BY <1>5
<1> HIDE DEF d, box, text, conn, rev, snc, ann
<1>7. \A i, j \in DOMAIN text : i < j => text[i] < text[j]
  BY <1>4, <1>5 DEF Text
<1>8. \A i, j \in sent : i < j => box[i].rev < box[j].rev
  BY <1>3 DEF Ordered
<1>9. \A x \in held, y \in coming : x < y
  BY <1>4, <1>5, <1>6 DEF Text
<1>10. \A x \in held \cup coming, y \in next : x < y
  BY <1>3, <1>4, <1>5, <1>6 DEF Text, Ordered
<1>11. ASSUME u \in conn
       PROVE  1 .. rev \ (held \cup coming \cup next) = w.opened + 1 .. snc
  <2>1. /\ w.opened \in Nat /\ w.opened <= Len(text) /\ snc \in Nat /\ w.opened <= snc
        /\ snc <= rev /\ rev \in Nat
        /\ \A i \in 1 .. w.opened : text[i] = i
        /\ ann # {} => snc < rev
        /\ \A i \in w.opened + 1 .. Len(text) : text[i] > snc
        /\ \A i \in 1 .. Len(text) : text[i] \in Nat
    BY <1>3, <1>4, <1>5, <1>11 DEF Text, Ordered
  <2>2. \A k \in sent : box[k].rev > snc /\ box[k].rev \in Nat
    BY <1>3, <1>4, <1>6, <1>11 DEF Text, Ordered
  <2>3. \A r \in snc + 1 .. rev :
           \/ \E i \in 1 .. Len(text) : text[i] = r
           \/ \E k \in sent : box[k].rev = r
           \/ r = rev /\ ann # {}
    BY <1>4, <1>11 DEF Text
  <2>4. ASSUME NEW r \in 1 .. rev, r \notin held \cup coming \cup next
        PROVE  r \in w.opened + 1 .. snc
    <3>1. r \notin snc + 1 .. rev
      BY <1>5, <1>11, <2>3, <2>4
    <3>2. r \notin 1 .. w.opened
      <4>1. \A i \in 1 .. w.opened : i \in 1 .. Len(text) /\ text[i] = i
        BY <1>5, <2>1
      <4> QED
        BY <1>5, <2>4, <4>1
    <3> QED
      BY <2>1, <3>1, <3>2
  <2>5. ASSUME NEW r \in w.opened + 1 .. snc
        PROVE  r \in 1 .. rev /\ r \notin held \cup coming \cup next
    <3>1. r \in Nat /\ r > w.opened /\ r <= snc /\ r \in 1 .. rev
      BY <2>1
    <3>2. ASSUME NEW i \in 1 .. Len(text) PROVE text[i] # r
      <4>1. CASE i \in 1 .. w.opened
        BY <2>1, <3>1, <4>1
      <4>2. CASE i \in w.opened + 1 .. Len(text)
        BY <2>1, <3>1, <4>2
      <4> QED
        BY <1>5, <2>1, <4>1, <4>2
    <3>3. \A k \in sent : box[k].rev # r
      BY <2>2, <3>1, <2>1
    <3>4. r \notin next
      BY <2>1, <3>1
    <3> QED
      BY <1>5, <3>1, <3>2, <3>3, <3>4
  <2> HIDE DEF held, coming, next
  <2> QED
    BY <2>4, <2>5
<1> QED
  BY <1>7, <1>8, <1>9, <1>10, <1>11 DEF d, box, text, conn, rev, snc, ann

\* Whatever the users do and in whichever order the pool, the sessions and the
\* network take their steps: an editor window opened by handle_doc_join when
\* nothing of an earlier visit of its user was left is sent every revision of
\* its document once and in order, but for those committed between the reading
\* of its text and the handling of its Join, which it never gets.
THEOREM HoleIsOnlyTheJoin == Spec => []OnlyHoleIsTheJoin
<1>1. Init => IndInv
  BY InitialInv
<1>2. IndInv /\ [Next]_vars => IndInv'
  BY EveryStep
<1>3. IndInv => OnlyHoleIsTheJoin
  BY InvImplies
<1> QED
  BY <1>1, <1>2, <1>3, PTL DEF Spec
=============================================================================
