----------------------- MODULE CompactionHooks_proofs -----------------------
(***************************************************************************)
(* Theorems about the compaction hooks, for any number of processes, calls *)
(* and failures.                                                           *)
(***************************************************************************)
EXTENDS CompactionHooks, SequenceTheorems, TLAPS

PC == {"idle", "history"} \cup Publishing \cup Over

-----------------------------------------------------------------------------
(* The inductive invariant.                                                *)

\* A queue holds the hooks that publish, each once; only the first has begun.
Queued(p, a, i) ==
    LET k == hook[queue[p][a][i]] IN
    /\ k.proc = p /\ k.artifact = a /\ k.pc \in Publishing
    /\ i > 1 => k.pc = "queued"
    /\ \A j \in 1 .. (i - 1) : queue[p][a][j] # queue[p][a][i]
Waits(h) ==
    LET q == queue[hook[h].proc][hook[h].artifact] IN
    \E i \in 1 .. Len(q) : q[i] = h
QueueShape ==
    /\ \A p \in Process, a \in Artifact :
          \A i \in 1 .. Len(queue[p][a]) : Queued(p, a, i)
    /\ \A h \in Hook : hook[h].pc \in Publishing => Waits(h)

\* What a call remembers: a living one is of the present run of its process,
\* and no two of a run have one number.
Remembers(h) ==
    LET k == hook[h] IN
    /\ k.proc \in Process /\ k.artifact \in Artifact
    /\ k.number > 0 /\ k.at < clock /\ k.stamp < clock
    /\ k.run <= run[k.proc]
    /\ k.run = run[k.proc] => k.number <= number[k.proc]
    /\ k.pc \in {"history"} \cup Publishing => k.run = run[k.proc]
    /\ k.pc \in {"history", "queued", "look"} => k.looked = 0
Differ(h, i) ==
    hook[h].proc = hook[i].proc /\ hook[h].run = hook[i].run
        => hook[h].number # hook[i].number
CallShape ==
    /\ \A h \in Hook : hook[h].pc # "idle" => Remembers(h)
    /\ \A h \in Hook : hook[h].pc = "idle" => hook[h] = Idle
    /\ \A h, i \in Hook :
          hook[h].pc # "idle" /\ hook[i].pc # "idle" /\ h # i => Differ(h, i)

\* What is the latest: nothing while a hook looks, the number of the hook that
\* writes, and above what is published.
NewerThanPublished(h) ==
    \A n \in 1 .. Len(published) :
        /\ published[n].artifact = hook[h].artifact
        /\ published[n].proc = hook[h].proc
        /\ published[n].run = hook[h].run
        => published[n].number < hook[h].number
UpToLast(n) ==
    LET k == published[n] IN
    /\ k.number > 0 /\ k.run <= run[k.proc]
    /\ k.run = run[k.proc] => k.number <= last[k.proc][k.artifact]
LastShape ==
    /\ \A h \in Hook : hook[h].pc = "look" => LastOf(h) = 0
    /\ \A h \in Hook : hook[h].pc \in {"write", "fallback"} =>
          LastOf(h) = hook[h].number /\ NewerThanPublished(h)
    /\ \A n \in 1 .. Len(published) : UpToLast(n)

\* The files are what was published, and as new as the newest.
OnDisk(n) ==
    LET k == published[n] IN
    /\ k.at < k.mtime /\ k.mtime < clock /\ k.looked < n
    /\ \E d \in Place : k.mtime <= disk[k.artifact][d].mtime
OfPublished(a, d) ==
    /\ disk[a][d].stamp <= disk[a][d].mtime
    /\ disk[a][d].mtime < clock
    /\ disk[a][d].mtime # 0 => \E n \in 1 .. Len(published) :
          /\ published[n].artifact = a
          /\ published[n].mtime = disk[a][d].mtime
DiskShape ==
    /\ \A n \in 1 .. Len(published) : OnDisk(n)
    /\ \A a \in Artifact, d \in Place : OfPublished(a, d)

\* What a hook about to write saw when it looked is older than what it has.
OlderWhenLooked(h) ==
    /\ hook[h].looked <= Len(published)
    /\ \A m \in 1 .. Len(published) :
          m <= hook[h].looked /\ published[m].artifact = hook[h].artifact
              => published[m].at < hook[h].at
LooksBack ==
    \A h \in Hook :
        hook[h].pc \in {"write", "fallback"} => OlderWhenLooked(h)

\* No call that was tried or dropped is above the latest, which is the number of
\* one that was tried or gave way.
Reached(h) ==
    hook[h].run = run[hook[h].proc] /\ (Tried(h) \/ hook[h].pc = "overtaken")
        => hook[h].number <= LastOf(h)
Ahead(h) == Tried(h) \/ GaveWay(h)
Leads(h, p, a) ==
    /\ hook[h].artifact = a /\ hook[h].proc = p
    /\ hook[h].run = run[p] /\ hook[h].number = last[p][a]
    /\ Ahead(h)
DropShape ==
    /\ \A h \in Hook : Reached(h)
    /\ \A p \in Process, a \in Artifact :
          last[p][a] # 0 => \E h \in Hook : Leads(h, p, a)
    /\ NotSuppressed

IInv ==
    /\ QueueShape /\ CallShape /\ LastShape /\ DiskShape /\ LooksBack
    /\ PublishedInOrder /\ FirstDefers /\ DropShape

-----------------------------------------------------------------------------
(* What joining at the end and leaving from the front do to a sequence.    *)
LEMMA Appended ==
    ASSUME NEW S, NEW s \in Seq(S), NEW e \in S
    PROVE  /\ Append(s, e) \in Seq(S)
           /\ Len(s) \in Nat /\ Len(Append(s, e)) = Len(s) + 1
           /\ Append(s, e)[Len(s) + 1] = e
           /\ \A i \in 1 .. Len(s) : s[i] \in S /\ Append(s, e)[i] = s[i]
<1>1. Len(s) \in Nat /\ \A i \in 1 .. Len(s) : s[i] \in S
  OBVIOUS
<1> QED
  BY <1>1, AppendProperties

LEMMA Shortened ==
    ASSUME NEW S, NEW s \in Seq(S), s # <<>>
    PROVE  /\ Tail(s) \in Seq(S)
           /\ Len(s) \in Nat /\ Len(s) >= 1 /\ Len(Tail(s)) = Len(s) - 1
           /\ \A i \in 1 .. Len(s) : s[i] \in S
           /\ \A i \in 1 .. Len(Tail(s)) : Tail(s)[i] = s[i + 1]
  OBVIOUS

\* Of all calls only h changes, and of h what it holds of its observation
\* stays.
OnlyMoves(f, g, h, pc) ==
    /\ g \in [Hook -> Call]
    /\ \A i \in Hook : i # h => g[i] = f[i]
    /\ g[h].pc = pc
    /\ g[h].artifact = f[h].artifact /\ g[h].proc = f[h].proc
    /\ g[h].run = f[h].run /\ g[h].number = f[h].number /\ g[h].at = f[h].at

\* The queue of one process and artifact becomes s, the others stay.
OnlyQueue(q, r, p, a, s) ==
    /\ r \in [Process -> [Artifact -> Seq(Hook)]]
    /\ r[p][a] = s
    /\ \A x \in Process, b \in Artifact : x # p \/ b # a => r[x][b] = q[x][b]

(* What an EXCEPT on the calls, or on the queues, does.                    *)
LEMMA CallMoves ==
    ASSUME NEW f \in [Hook -> Call], NEW h \in Hook, NEW pc \in PC
    PROVE  LET g == [f EXCEPT ![h].pc = pc] IN
           /\ OnlyMoves(f, g, h, pc)
           /\ g[h].looked = f[h].looked /\ g[h].stamp = f[h].stamp
<1> DEFINE k == [f[h] EXCEPT !.pc = pc]
<1>1. k \in Call
  BY DEF Call, PC
<1>2. [f EXCEPT ![h].pc = pc] = [f EXCEPT ![h] = k]
  OBVIOUS
<1>3. /\ k.pc = pc /\ k.artifact = f[h].artifact /\ k.proc = f[h].proc
      /\ k.run = f[h].run /\ k.number = f[h].number /\ k.at = f[h].at
      /\ k.looked = f[h].looked /\ k.stamp = f[h].stamp
  BY DEF Call
<1> HIDE DEF k
<1> QED
  BY <1>1, <1>2, <1>3 DEF OnlyMoves

LEMMA QueueMoves ==
    ASSUME NEW q \in [Process -> [Artifact -> Seq(Hook)]],
           NEW p \in Process, NEW a \in Artifact, NEW s \in Seq(Hook)
    PROVE  OnlyQueue(q, [q EXCEPT ![p][a] = s], p, a, s)
  BY DEF OnlyQueue
-----------------------------------------------------------------------------
(* The queues.                                                             *)

Beginning == {"look", "write", "fallback"}
QueueOf(h) == queue[hook[h].proc][hook[h].artifact]
AtHead(h) ==
    /\ hook[h].proc \in Process /\ hook[h].artifact \in Artifact
    /\ QueueOf(h) \in Seq(Hook) /\ QueueOf(h) # <<>>
    /\ QueueOf(h)[1] = h

(* A hook that considers, looks or writes is the first of its queue.       *)
LEMMA Heads ==
    ASSUME TypeOK, QueueShape, CallShape, NEW h \in Hook,
           hook[h].pc \in Beginning \/ First(h)
    PROVE  AtHead(h)
<1>1. hook[h].pc \in Publishing /\ hook[h].pc # "idle"
  BY DEF Publishing, First, Beginning
<1>2. hook[h].proc \in Process /\ hook[h].artifact \in Artifact
  BY <1>1 DEF CallShape, Remembers
<1>3. QueueOf(h) \in Seq(Hook)
  BY <1>2 DEF TypeOK, QueueOf
<1>4. PICK i \in 1 .. Len(QueueOf(h)) : QueueOf(h)[i] = h
  BY <1>1 DEF QueueShape, Waits, QueueOf
<1>5. QueueOf(h) # <<>>
  BY <1>3, <1>4
<1>6. CASE hook[h].pc \in Beginning
  <2>1. i = 1
    BY <1>2, <1>3, <1>4, <1>6 DEF QueueShape, Queued, Beginning, QueueOf
  <2> QED
    BY <1>2, <1>3, <1>4, <1>5, <2>1 DEF AtHead
<1>7. CASE First(h)
  BY <1>2, <1>3, <1>5, <1>7 DEF First, AtHead, QueueOf
<1> QED
  BY <1>6, <1>7

(* Finishing takes the hook off its queue and changes no other.            *)
LEMMA Finishes ==
    ASSUME TypeOK, NEW h \in Hook, AtHead(h), NEW how \in Over, Finish(h, how)
    PROVE  /\ OnlyMoves(hook, hook', h, how)
           /\ hook'[h].looked = hook[h].looked
           /\ OnlyQueue(queue, queue', hook[h].proc, hook[h].artifact,
                        Tail(QueueOf(h)))
<1>1. Tail(QueueOf(h)) \in Seq(Hook)
  BY DEF AtHead
<1>2. hook' = [hook EXCEPT ![h].pc = how]
  BY DEF Finish
<1>3. queue' = [queue EXCEPT ![hook[h].proc][hook[h].artifact]
                                = Tail(QueueOf(h))]
  BY DEF Finish, QueueOf
<1> QED
  BY <1>1, <1>2, <1>3, CallMoves, QueueMoves DEF TypeOK, AtHead, PC

(* A hook that joins its queue, leaves it from the front, or moves on at   *)
(* the front leaves the queues in shape.                                   *)
LEMMA QueueJoined ==
    ASSUME TypeOK, QueueShape, CallShape, NEW h \in Hook,
           hook[h].pc = "history",
           OnlyMoves(hook, hook', h, "queued"),
           OnlyQueue(queue, queue', hook[h].proc, hook[h].artifact,
                     Append(QueueOf(h), h))
    PROVE  QueueShape'
<1> DEFINE q == queue[hook[h].proc][hook[h].artifact]
           r == Append(q, h)
<1>1. hook[h].proc \in Process /\ hook[h].artifact \in Artifact
  BY DEF CallShape, Remembers
<1>2. q \in Seq(Hook)
  BY <1>1 DEF TypeOK
<1>0. q = queue[hook[h].proc][hook[h].artifact]
  OBVIOUS
<1> HIDE DEF q
<1>3. \A i \in 1 .. Len(q) : q[i] \in Hook /\ q[i] # h
  BY <1>0, <1>1, <1>2 DEF QueueShape, Queued, Publishing
<1>4. /\ Len(r) = Len(q) + 1 /\ r[Len(q) + 1] = h
      /\ \A i \in 1 .. Len(q) : r[i] = q[i]
  BY <1>2, Appended
<1>5. queue'[hook[h].proc][hook[h].artifact] = r
  BY <1>0 DEF OnlyQueue, QueueOf
<1>6. Len(q) \in Nat
  BY <1>2, Appended
<1> HIDE DEF r
<1>7. \A p \in Process, a \in Artifact :
        \A i \in 1 .. Len(queue'[p][a]) : Queued(p, a, i)'
  <2> TAKE p \in Process, a \in Artifact
  <2>1. CASE p = hook[h].proc /\ a = hook[h].artifact
    <3>1. queue'[p][a] = r
      BY <2>1, <1>5
    <3>2. ASSUME NEW i \in 1 .. Len(q) PROVE Queued(p, a, i)'
      <4>1. Queued(p, a, i)
        BY <1>0, <1>1, <2>1 DEF QueueShape
      <4>2. hook'[q[i]] = hook[q[i]]
        BY <1>3 DEF OnlyMoves
      <4>3. \A j \in 1 .. (i - 1) : r[j] = q[j] /\ j \in 1 .. Len(q)
        BY <1>4, <1>6
      <4> QED
        BY <1>0, <2>1, <3>1, <1>4, <4>1, <4>2, <4>3 DEF Queued
    <3>3. ASSUME NEW i \in Nat, i = Len(q) + 1 PROVE Queued(p, a, i)'
      <4>1. r[i] = h /\ \A j \in 1 .. (i - 1) : r[j] # h
        BY <1>3, <1>4, <1>6, <3>3
      <4> QED
        BY <2>1, <3>1, <4>1 DEF Queued, OnlyMoves, Publishing
    <3>4. \A i \in 1 .. Len(r) : i \in 1 .. Len(q) \/ i = Len(q) + 1
      BY <1>4, <1>6
    <3> QED
      BY <3>1, <3>2, <3>3, <3>4
  <2>2. CASE ~(p = hook[h].proc /\ a = hook[h].artifact)
    <3>1. queue'[p][a] = queue[p][a] /\ queue[p][a] \in Seq(Hook)
      BY <2>2 DEF OnlyQueue, TypeOK
    <3>2. ASSUME NEW i \in 1 .. Len(queue[p][a]) PROVE Queued(p, a, i)'
      <4>1. Queued(p, a, i) /\ queue[p][a][i] \in Hook
        BY <3>1 DEF QueueShape
      <4>2. hook'[queue[p][a][i]] = hook[queue[p][a][i]]
        BY <2>2, <4>1 DEF OnlyMoves, Queued
      <4> QED
        BY <3>1, <4>1, <4>2 DEF Queued
    <3> QED
      BY <3>1, <3>2
  <2> QED
    BY <2>1, <2>2
<1>8. \A i \in Hook : hook'[i].pc \in Publishing => Waits(i)'
  <2> SUFFICES ASSUME NEW i \in Hook, hook'[i].pc \in Publishing
               PROVE  Waits(i)'
    OBVIOUS
  <2>1. CASE i = h
    <3>1. Len(q) + 1 \in 1 .. Len(r)
      <4>1. Len(r) = Len(q) + 1
        BY <1>4
      <4> QED
        BY <1>6, <4>1
    <3> QED
      BY <1>4, <1>5, <2>1, <3>1 DEF Waits, OnlyMoves
  <2>2. CASE i # h
    <3>1. hook'[i] = hook[i] /\ Waits(i)
      BY <2>2 DEF OnlyMoves, QueueShape
    <3>2. hook[i].proc \in Process /\ hook[i].artifact \in Artifact
      BY <3>1 DEF CallShape, Remembers, Publishing
    <3>3. CASE hook[i].proc = hook[h].proc /\ hook[i].artifact = hook[h].artifact
      <4>1. PICK j \in 1 .. Len(q) : q[j] = i
        BY <1>0, <3>1, <3>3 DEF Waits
      <4>2. j \in 1 .. Len(r) /\ r[j] = i
        BY <1>4, <1>6, <4>1
      <4> QED
        BY <1>5, <3>1, <3>3, <4>2 DEF Waits
    <3>4. CASE ~(hook[i].proc = hook[h].proc /\ hook[i].artifact = hook[h].artifact)
      BY <3>1, <3>2, <3>4 DEF Waits, OnlyQueue
    <3> QED
      BY <3>3, <3>4
  <2> QED
    BY <2>1, <2>2
<1> QED
  BY <1>7, <1>8 DEF QueueShape

LEMMA QueueLeft ==
    ASSUME TypeOK, QueueShape, CallShape, NEW h \in Hook, AtHead(h),
           NEW how \in Over, OnlyMoves(hook, hook', h, how),
           OnlyQueue(queue, queue', hook[h].proc, hook[h].artifact,
                     Tail(QueueOf(h)))
    PROVE  QueueShape'
<1> DEFINE q == queue[hook[h].proc][hook[h].artifact]
           r == Tail(q)
<1>1. /\ hook[h].proc \in Process /\ hook[h].artifact \in Artifact
      /\ q \in Seq(Hook) /\ q # <<>> /\ q[1] = h
  BY DEF AtHead, QueueOf
<1>2. /\ Len(q) \in Nat /\ Len(q) >= 1 /\ Len(r) = Len(q) - 1
      /\ \A i \in 1 .. Len(r) : r[i] = q[i + 1]
  BY <1>1, Shortened
<1>3. \A i \in 2 .. Len(q) : Queued(hook[h].proc, hook[h].artifact, i)
                            /\ q[i] \in Hook /\ q[i] # h
  <2> TAKE i \in 2 .. Len(q)
  <2>1. Queued(hook[h].proc, hook[h].artifact, i) /\ q[i] \in Hook
    BY <1>1, <1>2 DEF QueueShape
  <2>2. 1 \in 1 .. (i - 1)
    BY <1>2
  <2> QED
    BY <1>1, <2>1, <2>2 DEF Queued
<1>4. queue'[hook[h].proc][hook[h].artifact] = r
  BY DEF OnlyQueue, QueueOf
<1> HIDE DEF r
<1>5. \A p \in Process, a \in Artifact :
        \A i \in 1 .. Len(queue'[p][a]) : Queued(p, a, i)'
  <2> TAKE p \in Process, a \in Artifact
  <2>1. CASE p = hook[h].proc /\ a = hook[h].artifact
    <3>1. ASSUME NEW i \in 1 .. Len(r) PROVE Queued(p, a, i)'
      <4>1. /\ i + 1 \in 2 .. Len(q) /\ r[i] = q[i + 1]
            /\ \A j \in 1 .. (i - 1) : r[j] = q[j + 1] /\ j + 1 \in 1 .. i
        BY <1>2
      <4>2. Queued(p, a, i + 1) /\ q[i + 1] \in Hook /\ q[i + 1] # h
        BY <1>3, <2>1, <4>1
      <4>3. hook'[q[i + 1]] = hook[q[i + 1]]
        BY <4>2 DEF OnlyMoves
      <4>4. /\ hook[q[i + 1]].proc = p /\ hook[q[i + 1]].artifact = a
            /\ hook[q[i + 1]].pc \in Publishing
            /\ hook[q[i + 1]].pc = "queued"
            /\ \A j \in 1 .. i : q[j] # q[i + 1]
        <5>1. i + 1 > 1 /\ (i + 1) - 1 = i
          BY <1>2
        <5> QED
          BY <2>1, <4>2, <5>1 DEF Queued
      <4> QED
        BY <2>1, <1>4, <4>1, <4>3, <4>4 DEF Queued
    <3> QED
      BY <1>4, <2>1, <3>1
  <2>2. CASE ~(p = hook[h].proc /\ a = hook[h].artifact)
    <3>1. queue'[p][a] = queue[p][a] /\ queue[p][a] \in Seq(Hook)
      BY <2>2 DEF OnlyQueue, TypeOK
    <3>2. ASSUME NEW i \in 1 .. Len(queue[p][a]) PROVE Queued(p, a, i)'
      <4>1. Queued(p, a, i) /\ queue[p][a][i] \in Hook
        BY <3>1 DEF QueueShape
      <4>2. hook'[queue[p][a][i]] = hook[queue[p][a][i]]
        BY <2>2, <4>1 DEF OnlyMoves, Queued
      <4> QED
        BY <3>1, <4>1, <4>2 DEF Queued
    <3> QED
      BY <3>1, <3>2
  <2> QED
    BY <2>1, <2>2
<1>6. \A i \in Hook : hook'[i].pc \in Publishing => Waits(i)'
  <2> SUFFICES ASSUME NEW i \in Hook, hook'[i].pc \in Publishing
               PROVE  Waits(i)'
    OBVIOUS
  <2>1. i # h
    BY DEF OnlyMoves, Over, Publishing
  <2>2. hook'[i] = hook[i] /\ Waits(i)
    BY <2>1 DEF OnlyMoves, QueueShape
  <2>3. hook[i].proc \in Process /\ hook[i].artifact \in Artifact
    BY <2>2 DEF CallShape, Remembers, Publishing
  <2>4. CASE hook[i].proc = hook[h].proc /\ hook[i].artifact = hook[h].artifact
    <3>1. PICK j \in 1 .. Len(q) : q[j] = i
      BY <2>2, <2>4 DEF Waits
    <3>2. j - 1 \in 1 .. Len(r) /\ r[j - 1] = i
      BY <1>1, <1>2, <2>1, <3>1
    <3> QED
      BY <1>4, <2>2, <2>4, <3>2 DEF Waits
  <2>5. CASE ~(hook[i].proc = hook[h].proc /\ hook[i].artifact = hook[h].artifact)
    BY <2>2, <2>3, <2>5 DEF Waits, OnlyQueue
  <2> QED
    BY <2>4, <2>5
<1> QED
  BY <1>5, <1>6 DEF QueueShape

LEMMA QueueStays ==
    ASSUME TypeOK, QueueShape, CallShape, NEW h \in Hook, NEW pc \in PC,
           \/ AtHead(h) /\ pc \in Publishing
           \/ hook[h].pc \notin Publishing /\ pc \notin Publishing,
           OnlyMoves(hook, hook', h, pc), UNCHANGED queue
    PROVE  QueueShape'
<1>1. \A p \in Process, a \in Artifact :
        \A i \in 1 .. Len(queue'[p][a]) : Queued(p, a, i)'
  <2> TAKE p \in Process, a \in Artifact
  <2>1. queue[p][a] \in Seq(Hook)
    BY DEF TypeOK
  <2> TAKE i \in 1 .. Len(queue'[p][a])
  <2>2. Queued(p, a, i) /\ queue[p][a][i] \in Hook
    BY <2>1 DEF QueueShape
  <2>3. CASE queue[p][a][i] # h
    BY <2>2, <2>3 DEF Queued, OnlyMoves
  <2>4. CASE queue[p][a][i] = h
    <3>1. AtHead(h) /\ pc \in Publishing
      BY <2>2, <2>4 DEF Queued
    <3>2. i = 1
      <4>1. hook[h].proc = p /\ hook[h].artifact = a /\ queue[p][a][1] = h
        BY <2>2, <2>4, <3>1 DEF Queued, AtHead, QueueOf
      <4> QED
        BY <2>1, <2>2, <2>4, <4>1 DEF Queued
    <3> QED
      BY <2>2, <2>4, <3>1, <3>2 DEF Queued, OnlyMoves
  <2> QED
    BY <2>3, <2>4
<1>2. \A i \in Hook : hook'[i].pc \in Publishing => Waits(i)'
  BY DEF QueueShape, Waits, OnlyMoves, AtHead, QueueOf
<1> QED
  BY <1>1, <1>2 DEF QueueShape

-----------------------------------------------------------------------------
(* One call moves on.                                                      *)

Early == {"history", "queued", "look"}
Publishes == {"write", "fallback"}

\* What was published stays; more may follow.
Grows ==
    /\ published' \in Seq(Publication)
    /\ Len(published) <= Len(published')
    /\ \A n \in 1 .. Len(published) :
          n \in 1 .. Len(published') /\ published'[n] = published[n]

(* A call that moves on remembers what it did, and the others do.          *)
LEMMA CallsKept ==
    ASSUME TypeOK, CallShape, NEW h \in Hook, NEW pc \in PC,
           OnlyMoves(hook, hook', h, pc),
           hook[h].pc # "idle", pc # "idle",
           UNCHANGED <<run, number>>,
           clock' \in Nat, clock <= clock', hook'[h].stamp < clock',
           pc \in {"history"} \cup Publishing
              => hook[h].pc \in {"history"} \cup Publishing,
           pc \in Early => hook'[h].looked = 0
    PROVE  CallShape'
<1>1. ASSUME NEW i \in Hook, i # h
      PROVE  hook'[i] = hook[i] /\ (Remembers(i) => Remembers(i)')
  <2>1. hook'[i] = hook[i] /\ hook[i] \in Call
    BY <1>1 DEF OnlyMoves, TypeOK
  <2> QED
    BY <2>1 DEF TypeOK, Call, Remembers
<1>2. Remembers(h) /\ hook[h] \in Call
  BY DEF CallShape, TypeOK
<1>3. Remembers(h)'
  <2>1. clock \in Nat /\ hook[h].at \in Nat
    BY <1>2 DEF TypeOK, Call
  <2> QED
    BY <1>2, <2>1 DEF Remembers, OnlyMoves, Early
<1>4. \A i \in Hook : hook'[i].pc # "idle" => Remembers(i)'
  BY <1>1, <1>3 DEF CallShape
<1>5. \A i \in Hook : hook'[i].pc = "idle" => hook'[i] = Idle
  BY <1>1 DEF CallShape, OnlyMoves
<1>6. \A i, j \in Hook :
        hook'[i].pc # "idle" /\ hook'[j].pc # "idle" /\ i # j => Differ(i, j)'
  BY DEF CallShape, OnlyMoves, Differ
<1> QED
  BY <1>4, <1>5, <1>6 DEF CallShape, Idle

(* Two calls that have begun to publish the same artifact are one.         *)
LEMMA OneBegins ==
    ASSUME TypeOK, QueueShape, CallShape, NEW h \in Hook, NEW i \in Hook,
           AtHead(h), hook[i].pc \in Beginning,
           hook[i].proc = hook[h].proc, hook[i].artifact = hook[h].artifact
    PROVE  i = h
<1>1. AtHead(i)
  BY Heads
<1> QED
  BY <1>1 DEF AtHead, QueueOf

(* A call that neither begins to publish nor is dropped leaves the latest  *)
(* numbers as they are.                                                    *)
LEMMA LastKept ==
    ASSUME TypeOK, CallShape, LastShape, NEW h \in Hook, NEW pc \in PC,
           OnlyMoves(hook, hook', h, pc),
           hook[h].pc # "idle",
           UNCHANGED <<run, last, published>>,
           pc = "look" => LastOf(h) = 0,
           pc \in Publishes => hook[h].pc \in Publishes,
           pc \in Early => hook[h].pc \in Early
    PROVE  LastShape'
<1> USE DEF Early, Publishes
<1>1. \A i \in Hook : hook'[i].pc = "look" => LastOf(i)' = 0
  BY DEF LastShape, OnlyMoves, LastOf
<1>2. \A i \in Hook : hook'[i].pc \in {"write", "fallback"} =>
        LastOf(i)' = hook'[i].number /\ NewerThanPublished(i)'
  BY DEF LastShape, OnlyMoves, LastOf, NewerThanPublished
<1>3. \A n \in 1 .. Len(published') : UpToLast(n)'
  BY DEF LastShape, UpToLast
<1> QED
  BY <1>1, <1>2, <1>3 DEF LastShape

(* A call that takes its turn, being newer than the latest, is the latest. *)
LEMMA LastTaken ==
    ASSUME TypeOK, QueueShape, CallShape, LastShape, NEW h \in Hook,
           NEW pc \in PC, OnlyMoves(hook, hook', h, pc), AtHead(h),
           pc \notin Early, hook[h].pc \in Publishing,
           UNCHANGED <<run, published>>,
           Take(h), LastOf(h) < hook[h].number
    PROVE  LastShape'
<1> USE DEF Early, Publishes
<1>0. /\ hook[h].proc \in Process /\ hook[h].artifact \in Artifact
      /\ hook[h] \in Call /\ hook[h].run = run[hook[h].proc]
  BY DEF AtHead, TypeOK, CallShape, Remembers, Publishing
<1>1. /\ last'[hook[h].proc][hook[h].artifact] = hook[h].number
      /\ \A p \in Process, a \in Artifact :
            p # hook[h].proc \/ a # hook[h].artifact
               => last'[p][a] = last[p][a]
  BY <1>0 DEF Take, TypeOK
<1>2. ASSUME NEW i \in Hook, i # h, hook[i].pc \in Beginning
      PROVE  LastOf(i)' = LastOf(i)
  <2>1. hook[i].proc \in Process /\ hook[i].artifact \in Artifact
    BY <1>2 DEF CallShape, Remembers, Beginning
  <2>2. hook[i].proc # hook[h].proc \/ hook[i].artifact # hook[h].artifact
    BY <1>2, OneBegins
  <2>3. hook'[i] = hook[i]
    BY <1>2 DEF OnlyMoves
  <2> QED
    BY <1>1, <2>1, <2>2, <2>3 DEF LastOf
<1>3. NewerThanPublished(h)'
  <2> SUFFICES ASSUME NEW n \in 1 .. Len(published),
                      published[n].artifact = hook[h].artifact,
                      published[n].proc = hook[h].proc,
                      published[n].run = hook[h].run
               PROVE  published[n].number < hook[h].number
    BY DEF NewerThanPublished, OnlyMoves
  <2>1. published[n].number <= LastOf(h)
    BY <1>0 DEF LastShape, UpToLast, LastOf
  <2>2. /\ published[n].number \in Nat /\ LastOf(h) \in Nat
        /\ hook[h].number \in Nat
    <3>1. published[n] \in Publication
      BY DEF TypeOK
    <3>2. published[n].number \in Nat
      BY <3>1 DEF Publication
    <3>3. hook[h].number \in Nat
      BY <1>0 DEF Call
    <3>4. LastOf(h) \in Nat
      BY <1>0 DEF TypeOK, LastOf
    <3> QED
      BY <3>2, <3>3, <3>4
  <2> QED
    BY <2>1, <2>2
<1>4. \A i \in Hook : hook'[i].pc = "look" => LastOf(i)' = 0
  BY <1>2 DEF LastShape, OnlyMoves, Beginning
<1>5. \A i \in Hook : hook'[i].pc \in {"write", "fallback"} =>
        LastOf(i)' = hook'[i].number /\ NewerThanPublished(i)'
  <2> TAKE i \in Hook
  <2> HAVE hook'[i].pc \in {"write", "fallback"}
  <2>1. CASE i = h
    BY <1>1, <1>3, <2>1 DEF LastOf, OnlyMoves
  <2>2. CASE i # h
    BY <1>2, <2>2 DEF LastShape, NewerThanPublished, OnlyMoves, Beginning
  <2> QED
    BY <2>1, <2>2
<1>6. \A n \in 1 .. Len(published') : UpToLast(n)'
  <2> TAKE n \in 1 .. Len(published')
  <2>1. UpToLast(n) /\ published[n] \in Publication
    BY DEF LastShape, TypeOK
  <2>2. LastOf(h) \in Nat /\ hook[h].number \in Nat
    BY <1>0 DEF TypeOK, Call, LastOf
  <2>3. /\ published[n].proc \in Process /\ published[n].artifact \in Artifact
        /\ published[n].number \in Nat
    BY <2>1 DEF Publication
  <2>4. CASE published[n].proc = hook[h].proc
             /\ published[n].artifact = hook[h].artifact
    <3>1. published[n].run = run[hook[h].proc]
             => published[n].number <= hook[h].number
      BY <2>1, <2>2, <2>3, <2>4 DEF UpToLast, LastOf
    <3> QED
      BY <1>1, <2>1, <2>4, <3>1 DEF UpToLast
  <2>5. CASE ~(published[n].proc = hook[h].proc
               /\ published[n].artifact = hook[h].artifact)
    BY <1>1, <2>1, <2>3, <2>5 DEF UpToLast
  <2> QED
    BY <2>4, <2>5
<1> QED
  BY <1>4, <1>5, <1>6 DEF LastShape

(* A call that writes nothing leaves the files as they are.                *)
LEMMA FilesKept ==
    ASSUME TypeOK, DiskShape, UNCHANGED files, clock' \in Nat, clock <= clock'
    PROVE  DiskShape'
<1>1. ASSUME NEW n \in 1 .. Len(published) PROVE OnDisk(n)'
  <2>1. OnDisk(n) /\ published[n] \in Publication
    BY DEF DiskShape, TypeOK
  <2>2. published' = published /\ disk' = disk
    BY DEF files
  <2>3. published[n].mtime \in Nat /\ clock \in Nat
    BY <2>1 DEF TypeOK, Publication
  <2>4. published[n].mtime < clock'
    BY <2>1, <2>3 DEF OnDisk
  <2> QED
    BY <2>1, <2>2, <2>4 DEF OnDisk
<1>2. ASSUME NEW a \in Artifact, NEW d \in Place PROVE OfPublished(a, d)'
  <2>1. OfPublished(a, d) /\ disk[a][d] \in [stamp : Nat, mtime : Nat]
    BY DEF DiskShape, TypeOK
  <2> QED
    BY <2>1 DEF OfPublished, TypeOK, files
<1> QED
  BY <1>1, <1>2 DEF DiskShape, files

(* What a call saw when it looked does not change with what others write.  *)
LEMMA LooksKept ==
    ASSUME TypeOK, LooksBack, NEW h \in Hook, NEW pc \in PC,
           OnlyMoves(hook, hook', h, pc), Grows,
           pc \in Publishes => /\ hook'[h].looked = hook[h].looked
                               /\ OlderWhenLooked(h)
    PROVE  LooksBack'
<1>1. ASSUME NEW i \in Hook, hook'[i].pc \in Publishes
      PROVE  OlderWhenLooked(i)'
  <2>1. OlderWhenLooked(i)
    BY <1>1 DEF LooksBack, OnlyMoves, Publishes
  <2>2. /\ hook'[i].looked = hook[i].looked /\ hook'[i].at = hook[i].at
        /\ hook'[i].artifact = hook[i].artifact
    BY <1>1 DEF OnlyMoves, Publishes
  <2>3. hook[i].looked \in Nat /\ Len(published) \in Nat
    BY DEF TypeOK, Call
  <2>4. \A m \in 1 .. Len(published') :
          m <= hook[i].looked => m \in 1 .. Len(published)
                                /\ published'[m] = published[m]
    BY <2>1, <2>3 DEF Grows, OlderWhenLooked
  <2>5. hook[i].looked <= Len(published')
    BY <2>1, <2>3 DEF Grows, OlderWhenLooked
  <2> QED
    BY <2>1, <2>2, <2>4, <2>5 DEF OlderWhenLooked
<1> QED
  BY <1>1 DEF LooksBack, Publishes

Tries == {"write", "fallback", "published", "unwritten"}
SameCall(i) ==
    /\ hook'[i].artifact = hook[i].artifact /\ hook'[i].proc = hook[i].proc
    /\ hook'[i].run = hook[i].run /\ hook'[i].number = hook[i].number
    /\ hook'[i].at = hook[i].at

(* What is not touched by a step keeps what it was, and what it gave way   *)
(* to, if no older sibling of it is tried now.                             *)
LEMMA StillAhead ==
    ASSUME TypeOK, NEW i \in Hook, Ahead(i), hook'[i].pc = hook[i].pc, Grows,
           \A j \in Hook : hook[j].pc # "idle" => SameCall(j),
           \A j \in Hook : Sibling(j, i)' /\ Tried(j)' =>
              \/ Tried(j) /\ hook[j].pc # "idle"
              \/ hook'[j].number > hook'[i].number
    PROVE  Ahead(i)'
<1>1. CASE Tried(i)
  BY <1>1 DEF Tried, Ahead
<1>2. CASE GaveWay(i)
  <2>1. PICK n \in 1 .. Len(published) : ForeignWrite(i, n)
    BY <1>2 DEF GaveWay, TypeOK
  <2>2. n \in DOMAIN published' /\ published'[n] = published[n]
    BY <2>1 DEF Grows
  <2>3. SameCall(i) /\ hook'[i].pc = "overtaken"
    BY <1>2 DEF GaveWay
  <2>4. ForeignWrite(i, n)'
    BY <2>1, <2>2, <2>3 DEF ForeignWrite, SameCall
  <2>5. ASSUME NEW j \in Hook, Sibling(j, i)', Tried(j)'
        PROVE  hook'[j].number > hook'[i].number
    <3>1. CASE Tried(j) /\ hook[j].pc # "idle"
      BY <1>2, <2>3, <2>5, <3>1 DEF GaveWay, Sibling, SameCall
    <3> QED
      BY <2>5, <3>1
  <2> QED
    BY <2>2, <2>3, <2>4, <2>5 DEF GaveWay, Ahead
<1> QED
  BY <1>1, <1>2 DEF Ahead

(* A call that moves on is dropped, or goes ahead, for a reason: it is     *)
(* behind the latest, or it takes its turn, to write or to give way to a   *)
(* foreign file.                                                           *)
LEMMA DroppedKept ==
    ASSUME TypeOK, CallShape, DropShape, NEW h \in Hook, NEW pc \in PC,
           OnlyMoves(hook, hook', h, pc),
           hook[h].pc \in {"history"} \cup Publishing, run' = run, Grows,
           Tried(h) => pc \in Tries,
           \/ /\ last' = last /\ (pc \in Tries => Tried(h))
              /\ pc = "overtaken" => hook[h].number <= LastOf(h)
           \/ /\ Take(h) /\ LastOf(h) < hook[h].number
              /\ \/ pc = "write"
                 \/ pc = "overtaken" /\ LastOf(h) = 0
                    /\ \E n \in DOMAIN published : ForeignWrite(h, n)
    PROVE  DropShape'
<1> DEFINE Takes == /\ Take(h) /\ LastOf(h) < hook[h].number
                    /\ \/ pc = "write"
                       \/ pc = "overtaken" /\ LastOf(h) = 0
                          /\ \E n \in DOMAIN published : ForeignWrite(h, n)
           Stays == /\ last' = last /\ (pc \in Tries => Tried(h))
                    /\ pc = "overtaken" => hook[h].number <= LastOf(h)
<1> USE DEF Tries
<1>1. /\ \A i \in Hook : SameCall(i) /\ (i # h => hook'[i] = hook[i])
      /\ hook'[h].pc = pc /\ hook[h].pc # "overtaken"
  BY DEF OnlyMoves, SameCall, Publishing
<1>2. /\ hook[h].proc \in Process /\ hook[h].artifact \in Artifact
      /\ hook[h].run = run[hook[h].proc] /\ hook[h].pc # "idle"
  BY DEF CallShape, Remembers, Publishing
<1>3. ASSUME NEW i \in Hook, hook[i].pc # "idle"
      PROVE  /\ hook[i].number \in Nat /\ hook[i].number > 0
             /\ hook[i].proc \in Process /\ hook[i].artifact \in Artifact
             /\ LastOf(i) \in Nat
  <2>1. /\ hook[i] \in Call /\ hook[i].number > 0
        /\ hook[i].proc \in Process /\ hook[i].artifact \in Artifact
    BY <1>3 DEF TypeOK, CallShape, Remembers
  <2> QED
    BY <2>1 DEF TypeOK, Call, LastOf
<1>4. /\ \A p \in Process, a \in Artifact :
            p # hook[h].proc \/ a # hook[h].artifact => last'[p][a] = last[p][a]
      /\ \/ Stays
         \/ Takes /\ last'[hook[h].proc][hook[h].artifact] = hook[h].number
  <2>1. CASE Stays
    BY <2>1
  <2>2. CASE Takes
    <3>1. last \in [Process -> [Artifact -> Nat]]
      BY DEF TypeOK
    <3>2. last' = [last EXCEPT ![hook[h].proc][hook[h].artifact] = hook[h].number]
      BY <2>2 DEF Take
    <3> HIDE DEF Takes
    <3> QED
      BY <1>2, <2>2, <3>1, <3>2
  <2> QED
    BY <2>1, <2>2
<1>5. ASSUME NEW i \in Hook, hook[i].pc # "idle" PROVE LastOf(i) <= LastOf(i)'
  <2>1. LastOf(i)' = last'[hook[i].proc][hook[i].artifact]
    BY <1>1 DEF LastOf, SameCall
  <2>2. CASE hook[i].proc = hook[h].proc /\ hook[i].artifact = hook[h].artifact
    BY <1>2, <1>3, <1>4, <1>5, <2>1, <2>2 DEF LastOf
  <2>3. CASE ~(hook[i].proc = hook[h].proc /\ hook[i].artifact = hook[h].artifact)
    BY <1>3, <1>4, <1>5, <2>1, <2>3 DEF LastOf
  <2> QED
    BY <2>2, <2>3
<1>6. ASSUME NEW i \in Hook, hook[i].run = run[hook[i].proc], Ahead(i)
      PROVE  Ahead(i)'
  <2>1. CASE i = h
    BY <1>1, <1>6, <2>1 DEF Ahead, GaveWay, Tried
  <2>2. CASE i # h
    <3>1. hook[i].pc # "idle" /\ hook[i].number \in Nat
          /\ hook[i].number <= LastOf(i) /\ LastOf(i) \in Nat
      BY <1>3, <1>6 DEF Ahead, Tried, GaveWay, DropShape, Reached
    <3>2. ASSUME NEW j \in Hook, Sibling(j, i)', Tried(j)',
                 ~(Tried(j) /\ hook[j].pc # "idle")
          PROVE  hook'[j].number > hook'[i].number
      <4>1. j = h /\ ~Tried(h) /\ pc \in Tries
        BY <1>1, <1>2, <3>2 DEF Tried
      <4>2. LastOf(h) < hook[h].number
        BY <4>1
      <4>3. LastOf(i) = LastOf(h)
        BY <1>1, <3>2, <4>1 DEF Sibling, SameCall, LastOf
      <4>4. hook'[h].number = hook[h].number /\ hook'[i].number = hook[i].number
        BY <1>1 DEF SameCall
      <4> QED
        BY <1>2, <1>3, <3>1, <4>1, <4>2, <4>3, <4>4
    <3> QED
      BY <1>1, <1>6, <2>2, <3>2, StillAhead
  <2> QED
    BY <2>1, <2>2
<1>7. ASSUME Takes PROVE Ahead(h)'
  <2>1. CASE pc = "write"
    BY <1>1, <2>1 DEF Tried, Ahead
  <2>2. CASE pc = "overtaken"
    <3>1. PICK n \in 1 .. Len(published) : ForeignWrite(h, n)
      BY <1>7, <2>2 DEF TypeOK
    <3>2. n \in DOMAIN published' /\ published'[n] = published[n]
      BY <3>1 DEF Grows
    <3>3. ForeignWrite(h, n)'
      BY <1>1, <3>1, <3>2 DEF ForeignWrite, SameCall
    <3>4. ASSUME NEW i \in Hook, Sibling(i, h)', Tried(i)' PROVE FALSE
      <4>1. i # h /\ Tried(i) /\ Sibling(i, h) /\ hook[i].pc # "idle"
        BY <1>1, <2>2, <3>4 DEF Tried, Sibling, SameCall
      <4>2. hook[i].run = run[hook[i].proc] /\ LastOf(i) = 0
        BY <1>2, <1>7, <2>2, <4>1 DEF Sibling, LastOf
      <4>3. hook[i].number <= 0
        BY <4>1, <4>2 DEF DropShape, Reached
      <4> QED
        BY <1>3, <4>1, <4>3
    <3> QED
      BY <1>1, <2>2, <3>2, <3>3, <3>4 DEF GaveWay, Ahead
  <2> QED
    BY <1>7, <2>1, <2>2
<1>8. ASSUME NEW i \in Hook PROVE Reached(i)'
  <2> SUFFICES ASSUME hook'[i].run = run[hook'[i].proc],
                      Tried(i)' \/ hook'[i].pc = "overtaken"
               PROVE  hook'[i].number <= LastOf(i)'
    BY DEF Reached
  <2>1. /\ hook'[i].number = hook[i].number
        /\ hook[i].run = run[hook[i].proc]
    BY <1>1 DEF SameCall
  <2>2. CASE i # h
    <3>1. hook[i].pc # "idle" /\ (Tried(i) \/ hook[i].pc = "overtaken")
      BY <1>1, <2>2 DEF Tried
    <3>2. hook[i].number <= LastOf(i) /\ LastOf(i) <= LastOf(i)'
      BY <1>5, <2>1, <3>1 DEF DropShape, Reached
    <3>3. LastOf(i)' \in Nat
      BY <1>1, <1>2, <1>3, <1>4, <3>1 DEF LastOf, SameCall
    <3> QED
      BY <1>3, <2>1, <3>1, <3>2, <3>3
  <2>3. CASE i = h
    <3>1. LastOf(h)' = last'[hook[h].proc][hook[h].artifact]
      BY <1>1 DEF LastOf, SameCall
    <3>2. CASE last'[hook[h].proc][hook[h].artifact] = hook[h].number
      BY <1>2, <1>3, <2>1, <2>3, <3>1, <3>2
    <3>3. CASE Stays
      <4>1. last' = last /\ (Tried(h) \/ pc = "overtaken")
        BY <1>1, <1>4, <2>3, <3>3 DEF Tried
      <4>2. hook[h].number <= LastOf(h)
        BY <1>2, <3>3, <4>1 DEF DropShape, Reached
      <4> QED
        BY <2>1, <2>3, <3>1, <4>1, <4>2 DEF LastOf
    <3> QED
      BY <1>4, <3>2, <3>3
  <2> QED
    BY <2>2, <2>3
<1>10. ASSUME NEW p \in Process, NEW a \in Artifact, last'[p][a] # 0
       PROVE  \E i \in Hook : Leads(i, p, a)'
  <2>1. CASE last'[p][a] = last[p][a]
    <3>1. PICK i \in Hook : Leads(i, p, a)
      BY <1>10, <2>1 DEF DropShape
    <3>2. Ahead(i)'
      BY <1>6, <3>1 DEF Leads
    <3>3. Leads(i, p, a)'
      BY <1>1, <2>1, <3>1, <3>2 DEF Leads, SameCall
    <3> QED
      BY <3>3
  <2>2. CASE last'[p][a] # last[p][a]
    <3>1. /\ p = hook[h].proc /\ a = hook[h].artifact
          /\ last'[p][a] = hook[h].number /\ Ahead(h)'
      BY <1>4, <1>7, <2>2
    <3>2. Leads(h, p, a)'
      BY <1>1, <1>2, <3>1 DEF Leads, SameCall
    <3> QED
      BY <3>2
  <2> QED
    BY <2>1, <2>2
<1>11. ASSUME NEW j \in Hook, hook'[j].pc = "overtaken",
              hook'[j].run = run[hook'[j].proc]
       PROVE  \/ GaveWay(j)'
              \/ \E i \in Hook : /\ Sibling(i, j)' /\ Ahead(i)'
                                 /\ hook'[i].number > hook'[j].number
  <2>0. hook[j].run = run[hook[j].proc]
    BY <1>1, <1>11 DEF SameCall
  <2>1. ASSUME NEW i \in Hook, Sibling(i, j), Ahead(i),
               hook[i].number > hook[j].number
        PROVE  /\ Sibling(i, j)' /\ Ahead(i)'
               /\ hook'[i].number > hook'[j].number
    <3>1. hook[i].run = run[hook[i].proc]
      BY <2>0, <2>1 DEF Sibling
    <3>2. Ahead(i)'
      BY <1>6, <2>1, <3>1
    <3> QED
      BY <1>1, <2>1, <3>2 DEF Sibling, SameCall
  <2>2. ~Tried(j)'
    BY <1>11 DEF Tried
  <2>3. CASE j # h
    <3>1. hook[j].pc = "overtaken"
      BY <1>1, <1>11, <2>3
    <3>2. CASE GaveWay(j)
      BY <1>6, <2>0, <2>2, <3>2 DEF Ahead
    <3>3. CASE \E i \in Hook : /\ Sibling(i, j) /\ Ahead(i)
                               /\ hook[i].number > hook[j].number
      BY <2>1, <3>3
    <3> QED
      BY <2>0, <3>1, <3>2, <3>3 DEF DropShape, NotSuppressed, Ahead
  <2>4. CASE j = h
    <3>1. CASE Takes
      BY <1>7, <2>2, <2>4, <3>1 DEF Ahead
    <3>2. CASE Stays
      <4>1. pc = "overtaken" /\ hook[h].number <= LastOf(h)
        BY <1>1, <1>11, <2>4, <3>2
      <4>2. LastOf(h) # 0
        BY <1>2, <1>3, <4>1
      <4>3. PICK i \in Hook : Leads(i, hook[h].proc, hook[h].artifact)
        BY <1>2, <4>2 DEF DropShape, LastOf
      <4>4. i # h /\ hook[i].pc # "idle"
        BY <1>1, <4>1, <4>3 DEF Leads, Ahead, Tried, GaveWay
      <4>5. Differ(i, h)
        BY <1>2, <4>4 DEF CallShape
      <4>6. Sibling(i, h) /\ Ahead(i) /\ hook[i].number # hook[h].number
            /\ hook[i].number = LastOf(h)
        BY <1>2, <4>3, <4>5 DEF Leads, Sibling, Differ, LastOf
      <4>7. hook[i].number > hook[h].number
        BY <1>2, <1>3, <4>1, <4>4, <4>6
      <4> QED
        BY <2>1, <2>4, <4>6, <4>7
    <3> QED
      BY <1>4, <3>1, <3>2
  <2> QED
    BY <2>3, <2>4
<1>12. NotSuppressed'
  BY <1>11 DEF NotSuppressed, Ahead
<1> QED
  BY <1>8, <1>10, <1>12 DEF DropShape

-----------------------------------------------------------------------------
(* A write: the publication follows the earlier ones, under the clock's    *)
(* time, and the call is over.                                             *)
Latter(h) ==
    [artifact |-> hook[h].artifact, proc |-> hook[h].proc, run |-> hook[h].run,
     number |-> hook[h].number, at |-> hook[h].at, looked |-> hook[h].looked,
     mtime |-> clock]

LEMMA Writes ==
    ASSUME TypeOK, CallShape, NEW h \in Hook, hook[h].pc \in Publishes,
           NEW d \in Place, Written(h, d)
    PROVE  /\ Latter(h) \in Publication
           /\ published' = Append(published, Latter(h))
           /\ Grows
           /\ Len(published') = Len(published) + 1
           /\ published'[Len(published) + 1] = Latter(h)
           /\ disk' \in [Artifact -> [Place -> [stamp : Nat, mtime : Nat]]]
           /\ clock' = clock + 1
<1>1. Remembers(h) /\ hook[h] \in Call
  BY DEF TypeOK, CallShape, Publishes
<1>2. Latter(h) \in Publication
  BY <1>1 DEF Remembers, Call, Latter, Publication, TypeOK
<1>3. published \in Seq(Publication)
  BY DEF TypeOK
<1>4. published' = Append(published, Latter(h))
  BY DEF Written, Latter
<1>5. /\ Len(published) \in Nat /\ Len(published') = Len(published) + 1
      /\ published'[Len(published) + 1] = Latter(h)
      /\ \A n \in 1 .. Len(published) : published'[n] = published[n]
      /\ published' \in Seq(Publication)
  BY <1>2, <1>3, <1>4, Appended
<1>6. Grows
  BY <1>5 DEF Grows
<1>7. [stamp |-> hook[h].stamp, mtime |-> clock] \in [stamp : Nat, mtime : Nat]
  BY <1>1 DEF Call, TypeOK
<1>8. disk' \in [Artifact -> [Place -> [stamp : Nat, mtime : Nat]]]
  BY <1>1, <1>7 DEF Written, TypeOK, Remembers
<1> QED
  BY <1>2, <1>4, <1>5, <1>6, <1>8 DEF Written

(* What is published stays in order when a call that is newer follows.     *)
LEMMA OrderKept ==
    ASSUME TypeOK, CallShape, LastShape, LooksBack, DiskShape,
           PublishedInOrder, FirstDefers,
           NEW h \in Hook, hook[h].pc \in Publishes,
           NEW d \in Place, Written(h, d)
    PROVE  PublishedInOrder' /\ FirstDefers'
<1> DEFINE N == Len(published)
<1>1. /\ N \in Nat /\ Len(published') = N + 1
      /\ published'[N + 1] = Latter(h)
      /\ \A n \in 1 .. N : published'[n] = published[n]
      /\ DOMAIN published' = 1 .. (N + 1) /\ DOMAIN published = 1 .. N
  BY Writes DEF Grows, TypeOK
<1>2. /\ NewerThanPublished(h) /\ OlderWhenLooked(h)
  BY DEF LastShape, LooksBack, Publishes
<1>3. PublishedInOrder'
  <2> SUFFICES ASSUME NEW m \in 1 .. (N + 1), NEW n \in 1 .. (N + 1), m < n,
                      published'[m].artifact = published'[n].artifact,
                      published'[m].proc = published'[n].proc,
                      published'[m].run = published'[n].run
               PROVE  published'[m].number < published'[n].number
    BY <1>1 DEF PublishedInOrder
  <2>1. m \in 1 .. N
    BY <1>1
  <2>2. CASE n \in 1 .. N
    BY <1>1, <2>1, <2>2 DEF PublishedInOrder
  <2>3. CASE n = N + 1
    BY <1>1, <1>2, <2>1, <2>3 DEF NewerThanPublished, Latter
  <2> QED
    BY <1>1, <2>2, <2>3
<1>4. FirstDefers'
  <2> SUFFICES ASSUME NEW m \in 1 .. (N + 1), NEW n \in 1 .. (N + 1),
                      m <= published'[n].looked,
                      published'[m].artifact = published'[n].artifact
               PROVE  published'[m].at < published'[n].at
    BY <1>1 DEF FirstDefers
  <2>1. CASE n \in 1 .. N
    <3>1. published[n].looked \in Nat /\ published[n].looked < n
      <4>1. published[n] \in Publication /\ OnDisk(n)
        BY <2>1 DEF TypeOK, DiskShape
      <4> QED
        BY <4>1 DEF Publication, OnDisk
    <3>2. m \in 1 .. N
      BY <1>1, <2>1, <3>1
    <3> QED
      BY <1>1, <2>1, <3>2 DEF FirstDefers
  <2>2. CASE n = N + 1
    <3>1. hook[h].looked \in Nat /\ hook[h].looked <= N
      BY <1>2 DEF TypeOK, Call, OlderWhenLooked
    <3>2. m \in 1 .. N /\ m <= hook[h].looked
      BY <1>1, <2>2, <3>1 DEF Latter
    <3> QED
      BY <1>1, <1>2, <2>2, <3>2 DEF OlderWhenLooked, Latter
  <2> QED
    BY <1>1, <2>1, <2>2
<1> QED
  BY <1>3, <1>4

(* The files stay what was published.                                      *)
LEMMA FilesWritten ==
    ASSUME TypeOK, CallShape, LooksBack, DiskShape,
           NEW h \in Hook, hook[h].pc \in Publishes,
           NEW d \in Place, Written(h, d)
    PROVE  DiskShape'
<1> DEFINE N == Len(published)
<1>1. /\ N \in Nat /\ Len(published') = N + 1
      /\ published'[N + 1] = Latter(h)
      /\ \A n \in 1 .. N : published'[n] = published[n]
      /\ clock' = clock + 1 /\ clock \in Nat
  BY Writes DEF Grows, TypeOK
<1>2. Remembers(h) /\ OlderWhenLooked(h) /\ hook[h] \in Call
  BY DEF CallShape, LooksBack, TypeOK, Publishes
<1>3. /\ disk'[hook[h].artifact][d] = [stamp |-> hook[h].stamp, mtime |-> clock]
      /\ \A a \in Artifact, e \in Place :
            a # hook[h].artifact \/ e # d => disk'[a][e] = disk[a][e]
  BY <1>2 DEF Written, TypeOK, Remembers
<1>4. ASSUME NEW a \in Artifact, NEW e \in Place
      PROVE  /\ disk[a][e].mtime \in Nat /\ disk[a][e].mtime < clock
             /\ disk[a][e].stamp <= disk[a][e].mtime
             /\ disk'[a][e].mtime \in Nat
             /\ disk[a][e].mtime <= disk'[a][e].mtime
  <2>1. disk[a][e] \in [stamp : Nat, mtime : Nat] /\ OfPublished(a, e)
    BY DEF TypeOK, DiskShape
  <2>2. CASE a = hook[h].artifact /\ e = d
    BY <1>1, <1>3, <2>1, <2>2 DEF OfPublished
  <2>3. CASE ~(a = hook[h].artifact /\ e = d)
    BY <1>1, <1>3, <2>1, <2>3 DEF OfPublished
  <2> QED
    BY <2>2, <2>3
<1>5. ASSUME NEW n \in 1 .. N PROVE OnDisk(n)'
  <2>1. published[n] \in Publication /\ OnDisk(n) /\ published'[n] = published[n]
    BY <1>1 DEF TypeOK, DiskShape
  <2>2. PICK e \in Place :
          published[n].mtime <= disk[published[n].artifact][e].mtime
    BY <2>1 DEF OnDisk
  <2>3. published[n].mtime \in Nat /\ published[n].artifact \in Artifact
    BY <2>1 DEF Publication
  <2>4. published[n].mtime <= disk'[published[n].artifact][e].mtime
    BY <1>4, <2>2, <2>3
  <2>5. published[n].mtime < clock'
    BY <1>1, <2>1, <2>3 DEF OnDisk
  <2> QED
    BY <2>1, <2>4, <2>5 DEF OnDisk
<1>6. ASSUME NEW n \in Nat, n = N + 1 PROVE OnDisk(n)'
  <2>1. /\ hook[h].at < clock /\ hook[h].looked <= N
        /\ hook[h].looked \in Nat
    BY <1>2 DEF Remembers, OlderWhenLooked, Call
  <2>2. clock <= disk'[hook[h].artifact][d].mtime
    BY <1>1, <1>3
  <2> QED
    BY <1>1, <1>6, <2>1, <2>2 DEF OnDisk, Latter
<1>7. \A n \in 1 .. Len(published') : n \in 1 .. N \/ n = N + 1
  BY <1>1
<1>8. ASSUME NEW a \in Artifact, NEW e \in Place PROVE OfPublished(a, e)'
  <2>1. OfPublished(a, e)
    BY DEF DiskShape
  <2>2. CASE a = hook[h].artifact /\ e = d
    <3>1. N + 1 \in 1 .. Len(published')
      BY <1>1
    <3>2. /\ published'[N + 1].artifact = a
          /\ published'[N + 1].mtime = disk'[a][e].mtime
      BY <1>1, <1>3, <2>2 DEF Latter
    <3>3. hook[h].stamp < clock /\ hook[h].stamp \in Nat
      BY <1>2 DEF Remembers, Call
    <3> QED
      BY <1>1, <1>3, <2>2, <3>1, <3>2, <3>3 DEF OfPublished
  <2>3. CASE ~(a = hook[h].artifact /\ e = d)
    <3>1. disk'[a][e] = disk[a][e]
      BY <1>3, <2>3
    <3>2. disk[a][e].mtime < clock'
      BY <1>1, <1>4
    <3>3. disk[a][e].mtime # 0 => \E n \in 1 .. Len(published') :
            /\ published'[n].artifact = a
            /\ published'[n].mtime = disk[a][e].mtime
      BY <1>1, <2>1 DEF OfPublished
    <3> QED
      BY <1>4, <3>1, <3>2, <3>3 DEF OfPublished
  <2> QED
    BY <2>2, <2>3
<1> QED
  BY <1>5, <1>6, <1>7, <1>8 DEF DiskShape

(* The latest numbers cover what is written.                               *)
LEMMA LastWritten ==
    ASSUME TypeOK, QueueShape, CallShape, LastShape,
           NEW h \in Hook, hook[h].pc \in Publishes, AtHead(h),
           NEW d \in Place, Written(h, d),
           OnlyMoves(hook, hook', h, "published"), UNCHANGED <<run, last>>
    PROVE  LastShape'
<1> DEFINE N == Len(published)
<1>1. /\ N \in Nat /\ Len(published') = N + 1
      /\ published'[N + 1] = Latter(h)
      /\ \A n \in 1 .. N : published'[n] = published[n]
  BY Writes DEF Grows, TypeOK
<1>2. /\ Remembers(h) /\ hook[h] \in Call /\ LastOf(h) = hook[h].number
  BY DEF CallShape, TypeOK, LastShape, Publishes
<1>3. \A i \in Hook : hook'[i].pc = "look" => LastOf(i)' = 0
  BY DEF LastShape, OnlyMoves, LastOf
<1>4. ASSUME NEW i \in Hook, hook'[i].pc \in {"write", "fallback"}
      PROVE  LastOf(i)' = hook'[i].number /\ NewerThanPublished(i)'
  <2>1. i # h /\ hook'[i] = hook[i]
    BY <1>4 DEF OnlyMoves
  <2>2. LastOf(i) = hook[i].number /\ NewerThanPublished(i)
    BY <1>4, <2>1 DEF LastShape
  <2>3. hook[i].proc # hook[h].proc \/ hook[i].artifact # hook[h].artifact
    BY <1>4, <2>1, OneBegins DEF Beginning
  <2>4. \A n \in 1 .. Len(published') : n \in 1 .. N \/ n = N + 1
    BY <1>1
  <2> QED
    BY <1>1, <2>1, <2>2, <2>3, <2>4 DEF NewerThanPublished, LastOf, Latter
<1>5. ASSUME NEW n \in 1 .. N PROVE UpToLast(n)'
  BY <1>1 DEF LastShape, UpToLast
<1>6. ASSUME NEW n \in Nat, n = N + 1 PROVE UpToLast(n)'
  <2>1. hook[h].number \in Nat
    BY <1>2 DEF Call
  <2> QED
    BY <1>1, <1>2, <1>6, <2>1 DEF UpToLast, Latter, Remembers, LastOf
<1>7. \A n \in 1 .. Len(published') : n \in 1 .. N \/ n = N + 1
  BY <1>1
<1> QED
  BY <1>3, <1>4, <1>5, <1>6, <1>7 DEF LastShape

-----------------------------------------------------------------------------
(* The steps that are not one call moving on.                              *)

(* A new observation has a number no other of its run has.                 *)
LEMMA Received ==
    ASSUME TypeOK, IInv, NEW h \in Hook, NEW p \in Process, NEW a \in Artifact,
           Receive(h, p, a)
    PROVE  TypeOK' /\ IInv'
<1> DEFINE k == [pc |-> "history", artifact |-> a, proc |-> p, run |-> run[p],
              number |-> number[p] + 1, at |-> clock, stamp |-> 0, looked |-> 0]
<1>1. run[p] \in Nat /\ number[p] \in Nat /\ clock \in Nat
  BY DEF TypeOK
<1>2. /\ k.pc = "history" /\ k.artifact = a /\ k.proc = p /\ k.run = run[p]
      /\ k.number = number[p] + 1 /\ k.at = clock /\ k.stamp = 0
      /\ k.looked = 0 /\ k \in Call
  BY <1>1 DEF Call
<1>3. hook' = [hook EXCEPT ![h] = k] /\ hook[h].pc = "idle"
  BY DEF Receive
<1> HIDE DEF k
<1>4. /\ hook' \in [Hook -> Call] /\ hook'[h] = k
      /\ \A i \in Hook : i # h => hook'[i] = hook[i]
  BY <1>2, <1>3 DEF TypeOK
<1>5. /\ number' = [number EXCEPT ![p] = number[p] + 1] /\ clock' = clock + 1
      /\ UNCHANGED <<run, last, queue, disk, published, troubles>>
  BY DEF Receive, Sound, files
<1>6. /\ number' \in [Process -> Nat] /\ number'[p] = number[p] + 1
      /\ \A x \in Process : number[x] \in Nat /\ number[x] <= number'[x]
  BY <1>1, <1>5 DEF TypeOK
<1>7. TypeOK'
  BY <1>1, <1>4, <1>5, <1>6 DEF TypeOK
<1>8. QueueShape'
  <2>1. ASSUME NEW x \in Process, NEW b \in Artifact,
               NEW i \in 1 .. Len(queue[x][b])
        PROVE  Queued(x, b, i)'
    <3>1. queue[x][b] \in Seq(Hook) /\ Queued(x, b, i)
      BY DEF TypeOK, QueueShape, IInv
    <3>2. queue[x][b][i] \in Hook /\ queue[x][b][i] # h
      BY <1>3, <3>1 DEF Queued, Publishing
    <3> QED
      BY <1>4, <1>5, <3>1, <3>2 DEF Queued
  <2>2. \A i \in Hook : hook'[i].pc \in Publishing => Waits(i)'
    BY <1>2, <1>4, <1>5 DEF IInv, QueueShape, Waits, Publishing
  <2> QED
    BY <1>5, <2>1, <2>2 DEF QueueShape
<1>9. CallShape'
  <2>1. Remembers(h)'
    BY <1>1, <1>2, <1>4, <1>5, <1>6 DEF Remembers, Publishing
  <2>2. ASSUME NEW i \in Hook, i # h, hook[i].pc # "idle"
        PROVE  Remembers(i)' /\ (hook[i].proc = p /\ hook[i].run = run[p]
                                    => hook[i].number # number[p] + 1)
    <3>1. Remembers(i) /\ hook[i] \in Call
      BY <2>2 DEF IInv, CallShape, TypeOK
    <3>2. /\ hook[i].number \in Nat /\ hook[i].at \in Nat
          /\ hook[i].stamp \in Nat
      BY <3>1 DEF Call
    <3>3. /\ hook[i].at < clock' /\ hook[i].stamp < clock'
          /\ number[hook[i].proc] \in Nat
          /\ number[hook[i].proc] <= number'[hook[i].proc]
      BY <1>1, <1>5, <1>6, <3>1, <3>2 DEF Remembers
    <3>4. hook[i].run = run[hook[i].proc]
            => hook[i].number <= number'[hook[i].proc]
      BY <1>6, <3>1, <3>2, <3>3 DEF Remembers
    <3>5. Remembers(i)'
      BY <1>4, <1>5, <2>2, <3>1, <3>3, <3>4 DEF Remembers
    <3> QED
      BY <1>1, <3>1, <3>2, <3>5 DEF Remembers
  <2>3. \A i \in Hook : hook'[i].pc = "idle" => hook'[i] = Idle
    BY <1>2, <1>4 DEF IInv, CallShape
  <2>4. ASSUME NEW i \in Hook, NEW j \in Hook, i # j,
               hook'[i].pc # "idle", hook'[j].pc # "idle"
        PROVE  Differ(i, j)'
    <3>1. CASE i # h /\ j # h
      BY <1>4, <2>4, <3>1 DEF IInv, CallShape, Differ
    <3>2. CASE i = h \/ j = h
      BY <1>2, <1>4, <2>2, <2>4, <3>2 DEF Differ
    <3> QED
      BY <3>1, <3>2
  <2> QED
    BY <1>4, <2>1, <2>2, <2>3, <2>4 DEF CallShape, Idle
<1>10. LastShape'
  <2>1. \A i \in Hook : hook'[i].pc = "look" => LastOf(i)' = 0
    BY <1>2, <1>4, <1>5 DEF IInv, LastShape, LastOf
  <2>2. \A i \in Hook : hook'[i].pc \in {"write", "fallback"} =>
          LastOf(i)' = hook'[i].number /\ NewerThanPublished(i)'
    BY <1>2, <1>4, <1>5 DEF IInv, LastShape, LastOf, NewerThanPublished
  <2>3. \A n \in 1 .. Len(published') : UpToLast(n)'
    BY <1>5 DEF IInv, LastShape, UpToLast
  <2> QED
    BY <2>1, <2>2, <2>3 DEF LastShape
<1>11. DiskShape'
  BY <1>1, <1>5, FilesKept DEF IInv, files
<1>12. LooksBack'
  BY <1>2, <1>4, <1>5 DEF IInv, LooksBack, OlderWhenLooked
<1>13. PublishedInOrder' /\ FirstDefers'
  BY <1>5 DEF IInv, PublishedInOrder, FirstDefers
<1>14. DropShape'
  <2>1. ~Tried(h)' /\ hook'[h].pc # "overtaken" /\ run' = run /\ last' = last
    BY <1>2, <1>4, <1>5 DEF Tried
  <2>2. ASSUME NEW i \in Hook, i # h
        PROVE  (Tried(i)' <=> Tried(i)) /\ LastOf(i)' = LastOf(i)
    BY <1>4, <1>5, <2>2 DEF Tried, LastOf
  <2>3. ASSUME NEW i \in Hook, Ahead(i) PROVE i # h /\ Ahead(i)'
    <3>1. i # h
      BY <1>3, <2>3 DEF Ahead, Tried, GaveWay
    <3>2. \A j \in Hook : Sibling(j, i)' /\ Tried(j)' => Tried(j) /\ hook[j].pc # "idle"
      BY <2>1, <2>2 DEF Tried
    <3>3. Grows /\ \A j \in Hook : hook[j].pc # "idle" => SameCall(j)
      BY <1>3, <1>4, <1>5 DEF Grows, SameCall, TypeOK
    <3> QED
      BY <1>4, <2>3, <3>1, <3>2, <3>3, StillAhead
  <2>4. \A i \in Hook : Reached(i)'
    BY <1>4, <2>1, <2>2 DEF IInv, DropShape, Reached
  <2>5. ASSUME NEW x \in Process, NEW b \in Artifact, last'[x][b] # 0
        PROVE  \E i \in Hook : Leads(i, x, b)'
    <3>1. PICK i \in Hook : Leads(i, x, b)
      BY <2>1, <2>5 DEF IInv, DropShape
    <3> QED
      BY <1>4, <2>1, <2>3, <3>1 DEF Leads
  <2>6. ASSUME NEW j \in Hook, hook'[j].pc = "overtaken",
               hook'[j].run = run'[hook'[j].proc]
        PROVE  \/ GaveWay(j)'
               \/ \E i \in Hook : /\ Sibling(i, j)' /\ Ahead(i)'
                                  /\ hook'[i].number > hook'[j].number
    <3>1. j # h /\ hook'[j] = hook[j] /\ ~Tried(j)'
      BY <1>4, <2>1, <2>6 DEF Tried
    <3>2. CASE GaveWay(j)
      BY <2>3, <3>1, <3>2 DEF Ahead
    <3>3. ASSUME NEW i \in Hook, Sibling(i, j), Ahead(i),
                 hook[i].number > hook[j].number
          PROVE  /\ Sibling(i, j)' /\ Ahead(i)'
                 /\ hook'[i].number > hook'[j].number
      BY <1>4, <2>3, <3>1, <3>3 DEF Sibling
    <3> QED
      BY <2>1, <2>6, <3>1, <3>2, <3>3 DEF IInv, DropShape, NotSuppressed, Ahead
  <2> QED
    BY <2>4, <2>5, <2>6 DEF DropShape, NotSuppressed, Ahead
<1> USE DEF IInv
<1> QED
  BY <1>7, <1>8, <1>9, <1>10, <1>11, <1>12, <1>13, <1>14

(* A process that dies takes its queues, numbers and calls with it.        *)
LEMMA Crashed ==
    ASSUME TypeOK, IInv, NEW p \in Process, Crash(p)
    PROVE  TypeOK' /\ IInv'
<1> DEFINE Dies(i) == hook[i].proc = p
                      /\ hook[i].pc \in {"history"} \cup Publishing
<1>1. ASSUME NEW i \in Hook
      PROVE  /\ hook[i] \in Call /\ [hook[i] EXCEPT !.pc = "dead"] \in Call
             /\ [hook[i] EXCEPT !.pc = "dead"] =
                   [pc |-> "dead", artifact |-> hook[i].artifact,
                    proc |-> hook[i].proc, run |-> hook[i].run,
                    number |-> hook[i].number, at |-> hook[i].at,
                    stamp |-> hook[i].stamp, looked |-> hook[i].looked]
  <2>1. hook[i] \in Call
    BY DEF TypeOK
  <2> QED
    BY <2>1 DEF Call, Over
<1>2. hook' = [i \in Hook |-> IF Dies(i) THEN [hook[i] EXCEPT !.pc = "dead"]
                                       ELSE hook[i]]
  BY DEF Crash
<1> HIDE DEF Dies
<1>3. hook' \in [Hook -> Call]
  BY <1>1, <1>2
<1>4. ASSUME NEW i \in Hook
      PROVE  /\ ~Dies(i) => hook'[i] = hook[i]
             /\ Dies(i) => hook'[i].pc = "dead"
             /\ hook'[i].artifact = hook[i].artifact
             /\ hook'[i].proc = hook[i].proc /\ hook'[i].run = hook[i].run
             /\ hook'[i].number = hook[i].number /\ hook'[i].at = hook[i].at
             /\ hook'[i].stamp = hook[i].stamp
             /\ hook'[i].looked = hook[i].looked
  BY <1>1, <1>2
<1>5. /\ run' = [run EXCEPT ![p] = run[p] + 1] /\ number' = [number EXCEPT ![p] = 0]
      /\ last' = [last EXCEPT ![p] = [a \in Artifact |-> 0]]
      /\ queue' = [queue EXCEPT ![p] = [a \in Artifact |-> <<>>]]
      /\ UNCHANGED <<clock, disk, published>> /\ troubles' = troubles + 1
  BY DEF Crash, Trouble, files
<1>6. /\ run' \in [Process -> Nat] /\ run[p] \in Nat /\ run'[p] = run[p] + 1
      /\ \A x \in Process : x # p =>
            /\ run'[x] = run[x] /\ number'[x] = number[x]
            /\ last'[x] = last[x] /\ queue'[x] = queue[x]
      /\ number' \in [Process -> Nat]
      /\ last' \in [Process -> [Artifact -> Nat]]
      /\ \A a \in Artifact : last'[p][a] = 0 /\ queue'[p][a] = <<>>
      /\ queue' \in [Process -> [Artifact -> Seq(Hook)]]
  BY <1>5 DEF TypeOK
<1>7. TypeOK'
  BY <1>3, <1>5, <1>6 DEF TypeOK
<1>8. QueueShape'
  <2>1. ASSUME NEW x \in Process, NEW a \in Artifact,
               NEW i \in 1 .. Len(queue'[x][a])
        PROVE  Queued(x, a, i)'
    <3>1. x # p
      BY <1>6, <2>1
    <3>2. queue'[x][a] = queue[x][a] /\ queue[x][a] \in Seq(Hook)
      BY <1>6, <3>1 DEF TypeOK
    <3>3. Queued(x, a, i) /\ queue[x][a][i] \in Hook
      BY <3>2 DEF IInv, QueueShape
    <3>4. hook'[queue[x][a][i]] = hook[queue[x][a][i]]
      BY <1>4, <3>1, <3>3 DEF Queued, Dies
    <3> QED
      BY <3>2, <3>3, <3>4 DEF Queued
  <2>2. ASSUME NEW i \in Hook, hook'[i].pc \in Publishing PROVE Waits(i)'
    <3>1. ~Dies(i) /\ hook'[i] = hook[i]
      BY <1>4, <2>2 DEF Publishing
    <3>2. Waits(i) /\ hook[i].proc \in Process /\ hook[i].proc # p
      BY <2>2, <3>1 DEF IInv, QueueShape, CallShape, Remembers, Dies, Publishing
    <3> QED
      BY <1>6, <3>1, <3>2 DEF Waits
  <2> QED
    BY <2>1, <2>2 DEF QueueShape
<1>9. CallShape'
  <2>1. ASSUME NEW i \in Hook, hook[i].pc # "idle" PROVE Remembers(i)'
    <3>1. Remembers(i) /\ hook[i].run \in Nat
      BY <1>1, <2>1 DEF IInv, CallShape, Call
    <3>2. CASE hook[i].proc = p
      <4>1. hook'[i].pc \notin {"history"} \cup Publishing
        BY <1>4, <3>2 DEF Dies, Publishing
      <4>2. hook[i].run <= run'[p] /\ hook[i].run # run'[p]
        BY <1>6, <3>1, <3>2 DEF Remembers
      <4> QED
        BY <1>4, <1>5, <3>1, <3>2, <4>1, <4>2 DEF Remembers, Publishing
    <3>3. CASE hook[i].proc # p
      BY <1>4, <1>5, <1>6, <3>1, <3>3 DEF Remembers, Dies
    <3> QED
      BY <3>2, <3>3
  <2>2. \A i \in Hook : hook'[i].pc = "idle" <=> hook[i].pc = "idle"
    BY <1>4 DEF Dies, Publishing
  <2>3. \A i \in Hook : hook'[i].pc = "idle" => hook'[i] = Idle
    BY <1>4, <2>2 DEF IInv, CallShape, Dies, Publishing
  <2>4. \A i, j \in Hook :
          hook'[i].pc # "idle" /\ hook'[j].pc # "idle" /\ i # j => Differ(i, j)'
    BY <1>4, <2>2 DEF IInv, CallShape, Differ
  <2> QED
    BY <2>1, <2>2, <2>3, <2>4 DEF CallShape, Idle
<1>10. LastShape'
  <2>1. ASSUME NEW i \in Hook, hook'[i].pc \in Beginning
        PROVE  hook'[i] = hook[i] /\ LastOf(i)' = LastOf(i)
    <3>1. ~Dies(i) /\ hook'[i] = hook[i]
      BY <1>4, <2>1 DEF Beginning
    <3>2. hook[i].proc \in Process /\ hook[i].proc # p
      BY <2>1, <3>1 DEF IInv, CallShape, Remembers, Dies, Publishing, Beginning
    <3> QED
      BY <1>6, <3>1, <3>2 DEF LastOf
  <2>2. \A i \in Hook : hook'[i].pc = "look" => LastOf(i)' = 0
    BY <2>1 DEF IInv, LastShape, Beginning
  <2>3. \A i \in Hook : hook'[i].pc \in {"write", "fallback"} =>
          LastOf(i)' = hook'[i].number /\ NewerThanPublished(i)'
    BY <1>5, <2>1 DEF IInv, LastShape, NewerThanPublished, Beginning
  <2>4. ASSUME NEW n \in 1 .. Len(published) PROVE UpToLast(n)'
    <3>1. UpToLast(n) /\ published[n] \in Publication
      BY DEF IInv, LastShape, TypeOK
    <3>2. /\ published[n].run \in Nat /\ published[n].proc \in Process
          /\ published[n].artifact \in Artifact
      BY <3>1 DEF Publication
    <3>3. CASE published[n].proc = p
      BY <1>5, <1>6, <3>1, <3>2, <3>3 DEF UpToLast
    <3>4. CASE published[n].proc # p
      BY <1>5, <1>6, <3>1, <3>2, <3>4 DEF UpToLast
    <3> QED
      BY <3>3, <3>4
  <2> QED
    BY <1>5, <2>2, <2>3, <2>4 DEF LastShape
<1>11. DiskShape'
  <2>1. clock \in Nat
    BY DEF TypeOK
  <2> QED
    BY <1>5, <2>1, FilesKept DEF IInv, files
<1>12. LooksBack'
  BY <1>4, <1>5 DEF IInv, LooksBack, OlderWhenLooked
<1>13. PublishedInOrder' /\ FirstDefers'
  BY <1>5 DEF IInv, PublishedInOrder, FirstDefers
<1>14. DropShape'
  <2>1. Grows /\ \A i \in Hook : SameCall(i)
    BY <1>4, <1>5 DEF Grows, SameCall, TypeOK
  <2>2. ASSUME NEW i \in Hook, hook'[i].pc # "idle",
               hook'[i].run = run'[hook'[i].proc]
        PROVE  /\ hook[i].proc \in Process \ {p} /\ hook[i].artifact \in Artifact
               /\ hook'[i] = hook[i] /\ hook[i].run = run[hook[i].proc]
               /\ LastOf(i)' = LastOf(i)
    <3>1. hook[i].pc # "idle" /\ hook[i] \in Call
      BY <1>1, <1>4, <2>2 DEF Dies, Publishing
    <3>2. Remembers(i) /\ hook[i].run \in Nat
      BY <3>1 DEF IInv, CallShape, Call
    <3>3. hook[i].proc # p
      BY <1>4, <1>6, <2>2, <3>2 DEF Remembers
    <3>4. hook'[i] = hook[i]
      BY <1>4, <3>3 DEF Dies
    <3> QED
      BY <1>6, <2>2, <3>2, <3>3, <3>4 DEF Remembers, LastOf
  <2>3. ASSUME NEW i \in Hook, Ahead(i), hook[i].proc # p PROVE Ahead(i)'
    <3>1. \A j \in Hook : Sibling(j, i)' /\ Tried(j)' => Tried(j) /\ hook[j].pc # "idle"
      BY <1>4 DEF Tried
    <3>2. hook'[i] = hook[i]
      BY <1>4, <2>3 DEF Dies
    <3> QED
      BY <2>1, <2>3, <3>1, <3>2, StillAhead
  <2>4. ASSUME NEW i \in Hook PROVE Reached(i)'
    <3> SUFFICES ASSUME hook'[i].run = run'[hook'[i].proc],
                        Tried(i)' \/ hook'[i].pc = "overtaken"
                 PROVE  hook'[i].number <= LastOf(i)'
      BY DEF Reached
    <3>1. hook'[i].pc # "idle"
      BY DEF Tried
    <3> QED
      BY <2>2, <3>1 DEF IInv, DropShape, Reached, Tried
  <2>5. ASSUME NEW x \in Process, NEW b \in Artifact, last'[x][b] # 0
        PROVE  \E i \in Hook : Leads(i, x, b)'
    <3>1. x # p /\ last'[x] = last[x] /\ run'[x] = run[x]
      BY <1>6, <2>5
    <3>2. PICK i \in Hook : Leads(i, x, b)
      BY <2>5, <3>1 DEF IInv, DropShape
    <3> QED
      BY <1>4, <2>3, <3>1, <3>2 DEF Leads
  <2>6. ASSUME NEW j \in Hook, hook'[j].pc = "overtaken",
               hook'[j].run = run'[hook'[j].proc]
        PROVE  \/ GaveWay(j)'
               \/ \E i \in Hook : /\ Sibling(i, j)' /\ Ahead(i)'
                                  /\ hook'[i].number > hook'[j].number
    <3>1. /\ hook'[j] = hook[j] /\ ~Tried(j)' /\ hook[j].proc # p
          /\ hook[j].run = run[hook[j].proc]
      BY <2>2, <2>6 DEF Tried
    <3>2. CASE GaveWay(j)
      BY <2>3, <3>1, <3>2 DEF Ahead
    <3>3. ASSUME NEW i \in Hook, Sibling(i, j), Ahead(i),
                 hook[i].number > hook[j].number
          PROVE  /\ Sibling(i, j)' /\ Ahead(i)'
                 /\ hook'[i].number > hook'[j].number
      BY <1>4, <2>3, <3>1, <3>3 DEF Sibling
    <3> QED
      BY <2>6, <3>1, <3>2, <3>3 DEF IInv, DropShape, NotSuppressed, Ahead
  <2> QED
    BY <2>4, <2>5, <2>6 DEF DropShape, NotSuppressed, Ahead
<1> QED
  BY <1>7, <1>8, <1>9, <1>10, <1>11, <1>12, <1>13, <1>14 DEF IInv

(* The file a look finds is one of those that could be read, and when all  *)
(* could be, none is newer.                                                *)
LEMMA LatestIsThere ==
    ASSUME TypeOK, NEW a \in Artifact, NEW readable \in SUBSET Place
    PROVE  /\ \/ Latest(a, readable) = Nothing
              \/ \E d \in Place : Latest(a, readable) = disk[a][d]
           /\ readable = Place =>
                 \A d \in Place : disk[a][d].mtime <= Latest(a, readable).mtime
<1>1. /\ "project" \in Place /\ "global" \in Place
      /\ \A d \in Place : d = "project" \/ d = "global"
      /\ \A d \in Place : disk[a][d].mtime \in Nat
  BY DEF Place, TypeOK
<1> QED
  BY <1>1 DEF Latest, Nothing

-----------------------------------------------------------------------------
(* The inductive invariant: one lemma per kind of step, one step per       *)
(* conjunct that it can disturb.                                           *)

(* An observation that is ready joins the queue under its stamp.           *)
LEMMA Prepared ==
    ASSUME TypeOK, IInv, NEW h \in Hook, NEW stamp \in Nat, Enqueue(h, stamp),
           clock' \in Nat, clock <= clock', stamp < clock'
    PROVE  TypeOK' /\ IInv'
<1>1. /\ hook[h].pc = "history" /\ Remembers(h)
      /\ hook[h].proc \in Process /\ hook[h].artifact \in Artifact
      /\ QueueOf(h) \in Seq(Hook)
  BY DEF Enqueue, IInv, CallShape, Remembers, TypeOK, QueueOf
<1>2. Append(QueueOf(h), h) \in Seq(Hook)
  BY <1>1, Appended
<1>3. "queued" \in PC
  BY DEF PC, Publishing
<1>4. /\ OnlyMoves(hook, hook', h, "queued")
      /\ hook'[h].looked = hook[h].looked /\ hook'[h].stamp = stamp
  <2> DEFINE k == [hook[h] EXCEPT !.pc = "queued", !.stamp = stamp]
  <2>1. hook[h] \in Call /\ hook \in [Hook -> Call]
    BY DEF TypeOK
  <2>2. /\ k \in Call /\ k.pc = "queued" /\ k.stamp = stamp
        /\ k.artifact = hook[h].artifact /\ k.proc = hook[h].proc
        /\ k.run = hook[h].run /\ k.number = hook[h].number
        /\ k.at = hook[h].at /\ k.looked = hook[h].looked
    BY <2>1 DEF Call, Publishing
  <2>3. hook' = [hook EXCEPT ![h] = k]
    BY DEF Enqueue
  <2> HIDE DEF k
  <2> QED
    BY <2>1, <2>2, <2>3 DEF OnlyMoves
<1>5. OnlyQueue(queue, queue', hook[h].proc, hook[h].artifact,
                Append(QueueOf(h), h))
  <2>1. queue' = [queue EXCEPT ![hook[h].proc][hook[h].artifact]
                                   = Append(QueueOf(h), h)]
    BY DEF Enqueue, QueueOf
  <2> QED
    BY <1>1, <1>2, <2>1, QueueMoves DEF TypeOK
<1>6. /\ UNCHANGED <<run, number, last, disk, published, troubles>>
      /\ UNCHANGED files
  BY DEF Enqueue, orderVars, files, Sound
<1>7. TypeOK'
  BY <1>4, <1>5, <1>6 DEF TypeOK, OnlyMoves, OnlyQueue
<1>8. Grows
  BY <1>6 DEF Grows, TypeOK
<1>9. QueueShape'
  BY <1>1, <1>4, <1>5, QueueJoined DEF IInv
<1>10. CallShape'
  BY <1>1, <1>3, <1>4, <1>6, CallsKept DEF IInv, Remembers, Early, Publishing
<1>11. LastShape'
  BY <1>1, <1>3, <1>4, <1>6, LastKept DEF IInv, Early, Publishes
<1>12. DiskShape'
  BY <1>6, FilesKept DEF IInv
<1>13. LooksBack'
  BY <1>3, <1>4, <1>8, LooksKept DEF IInv, Publishes
<1>14. PublishedInOrder' /\ FirstDefers'
  BY <1>6 DEF IInv, PublishedInOrder, FirstDefers
<1>15. DropShape'
  BY <1>1, <1>3, <1>4, <1>6, <1>8, DroppedKept DEF IInv, Tried, Tries
<1> QED
  BY <1>7, <1>9, <1>10, <1>11, <1>12, <1>13, <1>14, <1>15 DEF IInv

(* A call that fails before it is queued, or turns from the project's      *)
(* directory to the global one, or begins to look.                         *)
LEMMA OnlyPcMoves ==
    ASSUME TypeOK, IInv, NEW h \in Hook, NEW pc \in PC,
           hook' = [hook EXCEPT ![h].pc = pc],
           \/ hook[h].pc = "history" /\ pc = "failed"
           \/ hook[h].pc = "write" /\ pc = "fallback"
           \/ First(h) /\ LastOf(h) = 0 /\ pc = "look",
           UNCHANGED <<clock, run, number, last, queue, files>>,
           troubles' \in Nat
    PROVE  TypeOK' /\ IInv'
<1>1. /\ OnlyMoves(hook, hook', h, pc)
      /\ hook'[h].looked = hook[h].looked /\ hook'[h].stamp = hook[h].stamp
  BY CallMoves DEF TypeOK
<1>2. Remembers(h) /\ clock \in Nat /\ hook[h].stamp < clock
  BY DEF IInv, CallShape, TypeOK, First, Remembers
<1>3. UNCHANGED <<disk, published>>
  BY DEF files
<1>4. TypeOK'
  BY <1>1, <1>3 DEF TypeOK, OnlyMoves
<1>5. Grows
  BY <1>3 DEF Grows, TypeOK
<1>6. QueueShape'
  <2>1. pc # "failed" => AtHead(h)
    BY Heads DEF IInv, Beginning
  <2> QED
    BY <1>1, <2>1, QueueStays DEF IInv, Publishing
<1>7. CallShape'
  <2>1. /\ pc \in {"failed", "fallback", "look"}
        /\ hook[h].pc \in {"history"} \cup Publishing
        /\ pc = "look" => hook[h].pc = "queued"
    BY DEF First, Publishing
  <2>2. pc \in Early => hook'[h].looked = 0
    BY <1>1, <1>2, <2>1 DEF Remembers, Early
  <2>3. /\ UNCHANGED <<run, number>> /\ clock' \in Nat /\ clock <= clock'
        /\ hook'[h].stamp < clock'
    BY <1>1, <1>2
  <2>4. hook[h].pc # "idle" /\ pc # "idle"
    BY <2>1 DEF Publishing
  <2> QED
    BY <1>1, <2>1, <2>2, <2>3, <2>4, CallsKept DEF IInv
<1>8. LastShape'
  BY <1>1, <1>3, LastKept DEF IInv, Early, Publishes, First
<1>9. DiskShape'
  BY <1>2, FilesKept DEF IInv
<1>10. LooksBack'
  BY <1>1, <1>5, LooksKept DEF IInv, LooksBack, Publishes
<1>11. PublishedInOrder' /\ FirstDefers'
  BY <1>3 DEF IInv, PublishedInOrder, FirstDefers
<1>12. DropShape'
  BY <1>1, <1>5, DroppedKept DEF IInv, Tried, Tries, Publishing, First
<1> QED
  BY <1>4, <1>6, <1>7, <1>8, <1>9, <1>10, <1>11, <1>12 DEF IInv

(* A call leaves the queue without having written.                         *)
LEMMA LeavesUnwritten ==
    ASSUME TypeOK, IInv, NEW h \in Hook, NEW how \in Over, AtHead(h),
           hook[h].pc \in Publishing, Finish(h, how),
           Tried(h) => how = "unwritten",
           \/ /\ UNCHANGED last /\ how \in {"overtaken", "unwritten"}
              /\ how = "unwritten" => hook[h].pc \in Publishes
              /\ how = "overtaken" => hook[h].number <= LastOf(h)
           \/ /\ Take(h) /\ LastOf(h) < hook[h].number
              /\ how = "overtaken" /\ LastOf(h) = 0
              /\ \E n \in DOMAIN published : ForeignWrite(h, n),
           UNCHANGED <<clock, run, number, files>>, troubles' \in Nat
    PROVE  TypeOK' /\ IInv'
<1>1. /\ OnlyMoves(hook, hook', h, how)
      /\ hook'[h].looked = hook[h].looked
      /\ OnlyQueue(queue, queue', hook[h].proc, hook[h].artifact,
                   Tail(QueueOf(h)))
  BY Finishes
<1>2. hook'[h].stamp = hook[h].stamp
  BY CallMoves DEF TypeOK, Finish, PC
<1>3. Remembers(h) /\ clock \in Nat /\ hook[h].stamp < clock /\ how \in PC
  BY DEF IInv, CallShape, TypeOK, Publishing, Remembers, PC
<1>4. UNCHANGED <<disk, published>>
  BY DEF files
<1>5. last' \in [Process -> [Artifact -> Nat]]
  <2>1. hook[h] \in Call
    BY DEF TypeOK
  <2>2. hook[h].number \in Nat
    BY <2>1 DEF Call
  <2>3. last \in [Process -> [Artifact -> Nat]]
    BY DEF TypeOK
  <2> QED
    BY <2>2, <2>3 DEF Take
<1>6. TypeOK'
  BY <1>1, <1>4, <1>5 DEF TypeOK, OnlyMoves, OnlyQueue
<1>7. Grows
  BY <1>4 DEF Grows, TypeOK
<1>8. QueueShape'
  BY <1>1, QueueLeft DEF IInv
<1>9. CallShape'
  BY <1>1, <1>2, <1>3, CallsKept DEF IInv, Early, Publishing, Over
<1>10. LastShape'
  BY <1>1, <1>3, <1>4, LastKept, LastTaken
     DEF IInv, Early, Publishes, Publishing, Over
<1>11. DiskShape'
  BY <1>3, FilesKept DEF IInv
<1>12. LooksBack'
  BY <1>1, <1>3, <1>7, LooksKept DEF IInv, Publishes, Over
<1>13. PublishedInOrder' /\ FirstDefers'
  BY <1>4 DEF IInv, PublishedInOrder, FirstDefers
<1>14. DropShape'
  <2>1. Tried(h) => how \in Tries
    BY DEF Tried, Tries
  <2>2. how \in Tries => Tried(h)
    BY DEF Tried, Tries, Publishes, Over
  <2> QED
    BY <1>1, <1>3, <1>7, <2>1, <2>2, DroppedKept DEF IInv
<1> QED
  BY <1>6, <1>8, <1>9, <1>10, <1>11, <1>12, <1>13, <1>14 DEF IInv

(* A call goes ahead and is to write: after a look, or because its process *)
(* has an order of its own.                                                *)
LEMMA GoesAhead ==
    ASSUME TypeOK, IInv, NEW h \in Hook, AtHead(h), hook[h].pc \in Publishing,
           Take(h), LastOf(h) < hook[h].number,
           OnlyMoves(hook, hook', h, "write"),
           hook'[h].stamp = hook[h].stamp,
           OlderWhenLooked(h)',
           UNCHANGED <<clock, run, number, queue, files>>, troubles' \in Nat
    PROVE  TypeOK' /\ IInv'
<1>1. Remembers(h) /\ clock \in Nat /\ hook[h].stamp < clock /\ "write" \in PC
  BY DEF IInv, CallShape, TypeOK, Publishing, Remembers, PC
<1>2. UNCHANGED <<disk, published>>
  BY DEF files
<1>3. last' \in [Process -> [Artifact -> Nat]]
  <2>1. hook[h] \in Call
    BY DEF TypeOK
  <2>2. hook[h].number \in Nat
    BY <2>1 DEF Call
  <2>3. last \in [Process -> [Artifact -> Nat]]
    BY DEF TypeOK
  <2> QED
    BY <2>2, <2>3 DEF Take
<1>4. TypeOK'
  BY <1>2, <1>3 DEF TypeOK, OnlyMoves
<1>5. Grows
  BY <1>2 DEF Grows, TypeOK
<1>6. QueueShape'
  BY <1>1, QueueStays DEF IInv, Publishing
<1>7. CallShape'
  BY <1>1, CallsKept DEF IInv, Early, Publishing
<1>8. LastShape'
  BY <1>1, <1>2, LastTaken DEF IInv, Early
<1>9. DiskShape'
  BY <1>1, FilesKept DEF IInv
<1>10. LooksBack'
  BY <1>2 DEF IInv, LooksBack, OnlyMoves, OlderWhenLooked
<1>11. PublishedInOrder' /\ FirstDefers'
  BY <1>2 DEF IInv, PublishedInOrder, FirstDefers
<1>12. DropShape'
  BY <1>1, <1>5, DroppedKept DEF IInv, Tries
<1> QED
  BY <1>4, <1>6, <1>7, <1>8, <1>9, <1>10, <1>11, <1>12 DEF IInv

(* A call has written.                                                     *)
LEMMA HasWritten ==
    ASSUME TypeOK, IInv, NEW h \in Hook, NEW d \in Place,
           hook[h].pc \in Publishes, Written(h, d), Finish(h, "published"),
           UNCHANGED <<run, number, last, troubles>>
    PROVE  TypeOK' /\ IInv'
<1>1. AtHead(h)
  BY Heads DEF IInv, Publishes, Beginning
<1>2. "published" \in Over /\ "published" \in PC
  BY DEF Over, PC
<1>3. /\ OnlyMoves(hook, hook', h, "published")
      /\ hook'[h].looked = hook[h].looked
      /\ OnlyQueue(queue, queue', hook[h].proc, hook[h].artifact,
                   Tail(QueueOf(h)))
  BY <1>1, <1>2, Finishes
<1>4. hook'[h].stamp = hook[h].stamp
  BY <1>2, CallMoves DEF TypeOK, Finish
<1>5. /\ Remembers(h) /\ clock \in Nat /\ clock' = clock + 1
      /\ hook[h].stamp < clock /\ hook[h].stamp \in Nat
  BY DEF IInv, CallShape, TypeOK, Publishes, Remembers, Written, Call
<1>6. /\ Grows
      /\ disk' \in [Artifact -> [Place -> [stamp : Nat, mtime : Nat]]]
  BY Writes DEF IInv
<1>7. clock' \in Nat /\ clock <= clock' /\ hook'[h].stamp < clock'
  BY <1>4, <1>5
<1>8. TypeOK'
  BY <1>3, <1>6, <1>7 DEF TypeOK, OnlyMoves, OnlyQueue, Grows
<1>9. QueueShape'
  BY <1>1, <1>2, <1>3, QueueLeft DEF IInv
<1>10. CallShape'
  BY <1>2, <1>3, <1>7, CallsKept DEF IInv, Early, Publishing, Publishes
<1>11. LastShape'
  BY <1>1, <1>3, LastWritten DEF IInv
<1>12. DiskShape'
  BY FilesWritten DEF IInv
<1>13. LooksBack'
  BY <1>2, <1>3, <1>6, LooksKept DEF IInv, Publishes
<1>14. PublishedInOrder' /\ FirstDefers'
  BY OrderKept DEF IInv
<1>15. DropShape'
  BY <1>2, <1>3, <1>6, DroppedKept DEF IInv, Publishes, Publishing, Tried, Tries
<1> QED
  BY <1>8, <1>9, <1>10, <1>11, <1>12, <1>13, <1>14, <1>15 DEF IInv

(* A look: the call gives way to what it found, or it takes its turn.      *)
LEMMA Looked ==
    ASSUME TypeOK, IInv, NEW h \in Hook, NEW readable \in SUBSET Place,
           Look(h, readable)
    PROVE  TypeOK' /\ IInv'
<1> DEFINE seen == Latest(hook[h].artifact, readable)
           newer == seen.mtime > hook[h].at \/ seen.stamp > hook[h].at
<1>1. /\ AtHead(h) /\ hook[h].pc = "look" /\ hook[h] \in Call
      /\ Remembers(h) /\ LastOf(h) = 0
  BY Heads DEF Look, IInv, Beginning, TypeOK, CallShape, LastShape
<1>2. hook[h].number \in Nat /\ hook[h].at \in Nat /\ LastOf(h) < hook[h].number
  BY <1>1 DEF Call, Remembers
<1>3. hook[h].artifact \in Artifact
  BY <1>1 DEF AtHead
<1>4. /\ seen = Nothing \/ \E d \in Place : seen = disk[hook[h].artifact][d]
      /\ readable = Place => \A d \in Place :
            disk[hook[h].artifact][d].mtime <= seen.mtime
  BY <1>3, LatestIsThere
<1> HIDE DEF seen
<1>5. /\ seen.mtime \in Nat /\ seen.stamp \in Nat /\ seen.stamp <= seen.mtime
      /\ seen.mtime # 0 => \E n \in 1 .. Len(published) :
            /\ published[n].artifact = hook[h].artifact
            /\ published[n].mtime = seen.mtime
  <2>1. CASE seen = Nothing
    BY <2>1 DEF Nothing
  <2>2. ASSUME NEW d \in Place, seen = disk[hook[h].artifact][d]
        PROVE  /\ seen.mtime \in Nat /\ seen.stamp \in Nat
               /\ seen.stamp <= seen.mtime
               /\ seen.mtime # 0 => \E n \in 1 .. Len(published) :
                     /\ published[n].artifact = hook[h].artifact
                     /\ published[n].mtime = seen.mtime
    BY <1>3, <2>2 DEF IInv, DiskShape, OfPublished, TypeOK
  <2> QED
    BY <1>4, <2>1, <2>2
<1>6. /\ UNCHANGED <<clock, run, number, files>> /\ troubles' \in Nat
      /\ Take(h)
  BY DEF Look, Sound, Trouble, TypeOK
<1>7. CASE newer /\ Finish(h, "overtaken")
  <2>1. PICK n \in 1 .. Len(published) :
          /\ published[n].artifact = hook[h].artifact
          /\ published[n].mtime = seen.mtime
    BY <1>2, <1>5, <1>7
  <2>2. seen.mtime > hook[h].at
    BY <1>2, <1>5, <1>7
  <2>3. published[n].proc # hook[h].proc \/ published[n].run # hook[h].run
    <3>1. UpToLast(n) /\ published[n] \in Publication
      BY DEF IInv, LastShape, TypeOK
    <3>2. published[n].number \in Nat /\ published[n].number > 0
      BY <3>1 DEF UpToLast, Publication
    <3>3. hook[h].run = run[hook[h].proc]
      BY <1>1 DEF Remembers, Publishing
    <3> QED
      BY <1>1, <2>1, <3>1, <3>2, <3>3 DEF UpToLast, LastOf
  <2>4. n \in DOMAIN published /\ ForeignWrite(h, n)
    BY <2>1, <2>2, <2>3 DEF ForeignWrite, TypeOK
  <2>5. ~Tried(h)
    BY <1>1 DEF Tried
  <2> QED
    BY <1>1, <1>2, <1>6, <1>7, <2>4, <2>5, LeavesUnwritten DEF Publishing, Over
<1>8. CASE ~newer /\ UNCHANGED queue
           /\ hook' = [hook EXCEPT ![h] = [hook[h] EXCEPT !.pc = "write",
                  !.looked = IF readable = Place THEN Len(published) ELSE 0]]
  <2> DEFINE n == IF readable = Place THEN Len(published) ELSE 0
             k == [hook[h] EXCEPT !.pc = "write", !.looked = n]
  <2>1. n \in Nat /\ n <= Len(published) /\ Len(published) \in Nat
    BY DEF TypeOK
  <2> HIDE DEF n
  <2>2. /\ k \in Call /\ k.pc = "write" /\ k.looked = n
        /\ k.artifact = hook[h].artifact /\ k.proc = hook[h].proc
        /\ k.run = hook[h].run /\ k.number = hook[h].number
        /\ k.at = hook[h].at /\ k.stamp = hook[h].stamp
    BY <1>1, <2>1 DEF Call, Publishing
  <2>3. hook' = [hook EXCEPT ![h] = k]
    BY <1>8 DEF n
  <2> HIDE DEF k
  <2>4. OnlyMoves(hook, hook', h, "write") /\ hook'[h] = k
    BY <2>2, <2>3 DEF OnlyMoves, TypeOK
  <2>5. OlderWhenLooked(h)'
    <3>1. ASSUME NEW m \in 1 .. Len(published), m <= n,
                 published[m].artifact = hook[h].artifact
          PROVE  published[m].at < hook[h].at
      <4>1. readable = Place
        BY <3>1 DEF n
      <4>2. OnDisk(m) /\ published[m] \in Publication
        BY DEF IInv, DiskShape, TypeOK
      <4>3. PICK d \in Place :
              published[m].mtime <= disk[hook[h].artifact][d].mtime
        BY <3>1, <4>2 DEF OnDisk
      <4>4. disk[hook[h].artifact][d].mtime <= seen.mtime
        BY <1>4, <4>1
      <4>5. seen.mtime <= hook[h].at
        BY <1>2, <1>5, <1>8
      <4>6. /\ disk[hook[h].artifact][d].mtime \in Nat
            /\ published[m].mtime \in Nat /\ published[m].at \in Nat
            /\ published[m].at < published[m].mtime
        BY <1>3, <4>2 DEF TypeOK, Publication, OnDisk
      <4>7. seen.mtime \in Nat /\ hook[h].at \in Nat
        BY <1>2, <1>5
      <4>8. published[m].mtime <= seen.mtime
        BY <4>3, <4>4, <4>6, <4>7
      <4>9. published[m].mtime <= hook[h].at
        BY <4>5, <4>6, <4>7, <4>8
      <4> QED
        BY <4>6, <4>7, <4>9
    <3> QED
      BY <1>6, <2>1, <2>2, <2>4, <3>1 DEF OlderWhenLooked, files
  <2> QED
    BY <1>1, <1>2, <1>6, <1>8, <2>2, <2>4, <2>5, GoesAhead DEF Publishing
<1> QED
  BY <1>7, <1>8 DEF Look, seen

(* The turn of a call: it is dropped, goes ahead, or begins to look.       *)
LEMMA Considered ==
    ASSUME TypeOK, IInv, NEW h \in Hook, Consider(h)
    PROVE  TypeOK' /\ IInv'
<1>1. /\ AtHead(h) /\ First(h) /\ hook[h].pc = "queued" /\ hook[h] \in Call
      /\ Remembers(h) /\ hook[h].looked = 0
  BY Heads DEF Consider, First, IInv, TypeOK, CallShape, Remembers
<1>2. hook[h].number \in Nat /\ LastOf(h) \in Nat /\ hook[h].number > 0
  BY <1>1 DEF Call, Remembers, AtHead, LastOf, TypeOK
<1>3. UNCHANGED <<clock, run, number, files>> /\ troubles' \in Nat
  BY DEF Consider, Sound, TypeOK
<1>4. CASE Overtaken(h) /\ Finish(h, "overtaken") /\ UNCHANGED last
  <2>1. hook[h].number <= LastOf(h) /\ ~Tried(h)
    BY <1>1, <1>4 DEF Overtaken, Tried
  <2> QED
    BY <1>1, <1>3, <1>4, <2>1, LeavesUnwritten DEF Publishing, Over
<1>5. CASE /\ ~Overtaken(h) /\ Take(h) /\ UNCHANGED queue
           /\ hook' = [hook EXCEPT ![h].pc = "write"]
  <2>1. "write" \in PC
    BY DEF PC, Publishing
  <2>2. /\ OnlyMoves(hook, hook', h, "write")
        /\ hook'[h].looked = 0 /\ hook'[h].stamp = hook[h].stamp
    BY <1>1, <1>5, <2>1, CallMoves DEF TypeOK
  <2>3. LastOf(h) < hook[h].number
    BY <1>2, <1>5 DEF Overtaken
  <2>4. OlderWhenLooked(h)'
    BY <1>3, <2>2 DEF OlderWhenLooked, files, TypeOK
  <2> QED
    BY <1>1, <1>3, <1>5, <2>2, <2>3, <2>4, GoesAhead DEF Publishing
<1>6. CASE /\ LastOf(h) = 0 /\ hook' = [hook EXCEPT ![h].pc = "look"]
           /\ UNCHANGED <<last, queue>>
  <2>1. "look" \in PC
    BY DEF PC, Publishing
  <2> QED
    BY <1>1, <1>3, <1>6, <2>1, OnlyPcMoves
<1> QED
  BY <1>4, <1>5, <1>6 DEF Consider, Ordered

(* Every step of the hooks keeps the invariant.                            *)
THEOREM Inductive == Spec => [](TypeOK /\ IInv)
<1>1. Init => TypeOK /\ IInv
  <2> SUFFICES ASSUME Init PROVE TypeOK /\ IInv
    OBVIOUS
  <2>1. TypeOK
    BY DEF Init, TypeOK, Idle, Nothing, Call
  <2>2. QueueShape /\ CallShape /\ LooksBack
    BY DEF Init, QueueShape, CallShape, LooksBack, Idle, Publishing
  <2>3. LastShape /\ DiskShape
    BY DEF Init, LastShape, DiskShape, OfPublished, Idle, Nothing
  <2>4. PublishedInOrder /\ FirstDefers
    BY DEF Init, PublishedInOrder, FirstDefers
  <2>5. DropShape
    BY DEF Init, DropShape, Reached, Tried, NotSuppressed, Idle
  <2> QED
    BY <2>1, <2>2, <2>3, <2>4, <2>5 DEF IInv
<1>2. TypeOK /\ IInv /\ [Next]_vars => (TypeOK /\ IInv)'
  <2> SUFFICES ASSUME TypeOK, IInv, [Next]_vars PROVE TypeOK' /\ IInv'
    OBVIOUS
  <2>1. ASSUME NEW h \in Hook, NEW p \in Process, NEW a \in Artifact,
               Receive(h, p, a)
        PROVE  TypeOK' /\ IInv'
    BY <2>1, Received
  <2>2. ASSUME NEW h \in Hook, PreparePrompt(h) \/ PrepareResult(h)
        PROVE  TypeOK' /\ IInv'
    <3>1. /\ clock \in Nat /\ hook[h].at \in Nat
          /\ hook[h].pc = "history" => hook[h].at < clock
      BY DEF TypeOK, Call, IInv, CallShape, Remembers
    <3>2. CASE PreparePrompt(h)
      BY <3>1, <3>2, Prepared DEF PreparePrompt, PromptStamp
    <3>3. CASE PrepareResult(h)
      <4>1. hook[h].pc = "history"
        BY <3>3 DEF PrepareResult, Enqueue
      <4> QED
        BY <3>1, <3>3, <4>1, Prepared DEF PrepareResult, ResultStamp
    <3> QED
      BY <2>2, <3>2, <3>3
  <2>3. ASSUME NEW h \in Hook, PrepareFails(h) \/ WriteProjectFails(h)
        PROVE  TypeOK' /\ IInv'
    <3>1. "failed" \in PC /\ "fallback" \in PC
      BY DEF PC, Publishing, Over
    <3>2. troubles' \in Nat /\ UNCHANGED <<clock, run, number, last, queue, files>>
      BY <2>3 DEF PrepareFails, WriteProjectFails, Trouble, TypeOK, orderVars
    <3> QED
      BY <2>3, <3>1, <3>2, OnlyPcMoves DEF PrepareFails, WriteProjectFails
  <2>4. ASSUME NEW h \in Hook, Consider(h) PROVE TypeOK' /\ IInv'
    BY <2>4, Considered
  <2>5. ASSUME NEW h \in Hook, NEW readable \in SUBSET Place,
               Look(h, readable)
        PROVE  TypeOK' /\ IInv'
    BY <2>5, Looked
  <2>6. ASSUME NEW h \in Hook, WriteProject(h) \/ WriteGlobal(h)
        PROVE  TypeOK' /\ IInv'
    <3>1. /\ "project" \in Place /\ "global" \in Place
          /\ hook[h].pc \in Publishes
      BY <2>6 DEF Place, WriteProject, WriteGlobal, Publishes
    <3>2. UNCHANGED <<run, number, last, troubles>>
      BY <2>6 DEF WriteProject, WriteGlobal, orderVars, Sound
    <3> QED
      BY <2>6, <3>1, <3>2, HasWritten DEF WriteProject, WriteGlobal
  <2>7. ASSUME NEW h \in Hook, WriteFails(h) PROVE TypeOK' /\ IInv'
    <3>1. /\ AtHead(h) /\ hook[h].pc \in Publishing /\ "unwritten" \in Over
          /\ hook[h].pc \in Publishes
      BY <2>7, Heads
         DEF WriteFails, IInv, Beginning, Publishing, Publishes, Over
    <3>2. /\ UNCHANGED <<clock, run, number, last, files>> /\ troubles' \in Nat
          /\ Finish(h, "unwritten")
      BY <2>7 DEF WriteFails, orderVars, Trouble, TypeOK
    <3> QED
      BY <3>1, <3>2, LeavesUnwritten
  <2>8. ASSUME NEW p \in Process, Crash(p) PROVE TypeOK' /\ IInv'
    BY <2>8, Crashed
  <2>9. CASE UNCHANGED vars
    <3>1. /\ UNCHANGED <<clock, run, number, last, queue, hook, disk, published,
                         troubles>>
      BY <2>9 DEF vars, orderVars, files
    <3>2. TypeOK' /\ QueueShape' /\ CallShape'
      BY <3>1 DEF TypeOK, IInv, QueueShape, CallShape, Queued, Waits, Remembers,
                  Differ, Idle
    <3>3. LastShape' /\ DiskShape' /\ LooksBack'
      BY <3>1 DEF IInv, LastShape, DiskShape, LooksBack, LastOf,
                  NewerThanPublished, UpToLast, OnDisk, OfPublished,
                  OlderWhenLooked
    <3>4. PublishedInOrder' /\ FirstDefers'
      BY <3>1 DEF IInv, PublishedInOrder, FirstDefers
    <3>5. DropShape'
      BY <3>1 DEF IInv, DropShape, Reached, Leads, Ahead, NotSuppressed, GaveWay,
                  Tried, Sibling, ForeignWrite, LastOf
    <3> QED
      BY <3>2, <3>3, <3>4, <3>5 DEF IInv
  <2> QED
    BY <2>1, <2>2, <2>3, <2>4, <2>5, <2>6, <2>7, <2>8, <2>9 DEF Next, Step
<1> QED
  BY <1>1, <1>2, PTL DEF Spec

(* Type correctness: the calls, the queues they wait in, the files and the *)
(* record of what was published stay in their types.                       *)
THEOREM TypeCorrect == Spec => []TypeOK
<1>1. TypeOK /\ IInv => TypeOK
  OBVIOUS
<1> QED
  BY <1>1, Inductive, PTL

(* Of the observations of one process the newer is published last,         *)
(* whichever hook finishes its reads first and whatever fails in between.  *)
THEOREM OlderNeverReplacesNewer == Spec => []PublishedInOrder
<1>1. TypeOK /\ IInv => PublishedInOrder
  BY DEF IInv
<1> QED
  BY <1>1, Inductive, PTL

(* The first publication of a process replaces no newer artifact that it   *)
(* could see, in whichever directory and whoever wrote it.                 *)
THEOREM FirstGivesWay == Spec => []FirstDefers
<1>1. TypeOK /\ IInv => FirstDefers
  BY DEF IInv
<1> QED
  BY <1>1, Inductive, PTL

(* An observation is dropped only for a newer one of its own process, or   *)
(* before its process had any order, for a file another process or life    *)
(* wrote: its own earlier publications never suppress it.                  *)
THEOREM NewestNotSuppressed == Spec => []NotSuppressed
<1>1. TypeOK /\ IInv => NotSuppressed
  BY DEF IInv, DropShape
<1> QED
  BY <1>1, Inductive, PTL
=============================================================================
