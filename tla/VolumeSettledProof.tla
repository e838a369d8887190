-------------------------- MODULE VolumeSettledProof --------------------------
(***************************************************************************)
(* A local volume with no event on its way is mounted exactly when a       *)
(* readable disk is in its slot (Settled).  The proof looks ahead: every   *)
(* device the worker was told of, and every one it has mounted, is still   *)
(* there or its removal is still to come, and a readable disk is mounted,  *)
(* or the event that mounts it is on its way.                              *)
(***************************************************************************)
EXTENDS VolumeManagerProof

-----------------------------------------------------------------------------
(***************************************************************************)
(* What a sequence of events says of a volume                              *)
(***************************************************************************)
\* dev is a device of the disk, which may be None, and a readable one.
DeviceOf(disk, dev) ==
  disk # None /\ dev \in Dev /\ dev[1] = disk.name /\ dev[2] \in DOMAIN disk.devs

ReadableOf(disk, dev) == DeviceOf(disk, dev) /\ disk.devs[dev[2]]

\* Removals of v behind position k, and those of the device dev.
RemovedAt(s, i, v) == i \in DOMAIN s /\ s[i].vol = v /\ s[i].act = "remove"

RemovedBehind(s, k, v) == \E i \in Nat : i > k /\ RemovedAt(s, i, v)

RemovedLater(s, k, v, dev) == \E i \in Nat : i > k /\ RemovedAt(s, i, v) /\ s[i].dev = dev

AddedAt(s, i, v) == i \in DOMAIN s /\ s[i].vol = v /\ s[i].act = "add"

\* What is added is a device of the disk, or will be removed.
AddsFollowed(s, v, disk) ==
  \A i \in Nat : AddedAt(s, i, v) =>
    DeviceOf(disk, s[i].dev) \/ RemovedLater(s, i, v, s[i].dev)

\* So is a device that is mounted, and it is a readable one.
MountFollowed(s, v, disk, dev) == ReadableOf(disk, dev) \/ RemovedLater(s, 0, v, dev)

\* A readable device of the disk will be added, and no removal comes behind.
Awaited(s, v, disk) ==
  \E i \in Nat : AddedAt(s, i, v) /\ ReadableOf(disk, s[i].dev) /\ ~RemovedBehind(s, i, v)

\* The events of v are the same in s and t, as far as the above goes.
Agree(s, t, v) ==
  /\ \A disk : AddsFollowed(s, v, disk) => AddsFollowed(t, v, disk)
  /\ \A disk, dev : MountFollowed(s, v, disk, dev) => MountFollowed(t, v, disk, dev)
  /\ ~RemovedBehind(s, 0, v) => ~RemovedBehind(t, 0, v)
  /\ \A disk : Awaited(s, v, disk) => Awaited(t, v, disk)

\* f tells where each event of v in t is in s; h is its inverse.
Renumbers(f, h, s, t, v) ==
  /\ f[0] = 0 /\ h[0] = 0
  /\ \A i \in Nat : i \in DOMAIN t /\ t[i].vol = v =>
       f[i] \in Nat /\ f[i] \in DOMAIN s /\ s[f[i]] = t[i] /\ f[i] > 0
  /\ \A i \in Nat : i \in DOMAIN s /\ s[i].vol = v =>
       h[i] \in Nat /\ h[i] \in DOMAIN t /\ t[h[i]] = s[i] /\ f[h[i]] = i
  /\ \A i, j \in Nat :
       /\ i = 0 \/ (i \in DOMAIN t /\ t[i].vol = v)
       /\ j \in DOMAIN t /\ t[j].vol = v
       => (j > i <=> f[j] > f[i])

LEMMA Renumbered ==
  ASSUME NEW f, NEW h, NEW s, NEW t, NEW v, Renumbers(f, h, s, t, v)
  PROVE  Agree(s, t, v)
<1>1. ASSUME NEW i \in Nat, i = 0 \/ (i \in DOMAIN t /\ t[i].vol = v)
      PROVE  /\ RemovedBehind(t, i, v) <=> RemovedBehind(s, f[i], v)
             /\ \A dev : RemovedLater(s, f[i], v, dev) => RemovedLater(t, i, v, dev)
  <2>1. ASSUME NEW j \in Nat, j > i, RemovedAt(t, j, v)
        PROVE  f[j] \in Nat /\ f[j] > f[i] /\ RemovedAt(s, f[j], v)
    BY <1>1, <2>1 DEF Renumbers, RemovedAt
  <2>2. ASSUME NEW j \in Nat, j > f[i], RemovedAt(s, j, v)
        PROVE  h[j] \in Nat /\ h[j] > i /\ RemovedAt(t, h[j], v) /\ t[h[j]] = s[j]
    <3>1. h[j] \in Nat /\ h[j] \in DOMAIN t /\ t[h[j]] = s[j] /\ f[h[j]] = j
      BY <2>2 DEF Renumbers, RemovedAt
    <3>2. t[h[j]].vol = v
      BY <2>2, <3>1 DEF RemovedAt
    <3>3. h[j] > i
      BY <1>1, <2>2, <3>1, <3>2 DEF Renumbers
    <3>. QED BY <2>2, <3>1, <3>3 DEF RemovedAt
  <2>3. RemovedBehind(t, i, v) <=> RemovedBehind(s, f[i], v)
    BY <2>1, <2>2 DEF RemovedBehind
  <2>4. ASSUME NEW dev, RemovedLater(s, f[i], v, dev)
        PROVE  RemovedLater(t, i, v, dev)
    <3>1. PICK j \in Nat : j > f[i] /\ RemovedAt(s, j, v) /\ s[j].dev = dev
      BY <2>4 DEF RemovedLater
    <3>2. h[j] \in Nat /\ h[j] > i /\ RemovedAt(t, h[j], v) /\ t[h[j]].dev = dev
      BY <2>2, <3>1
    <3>. QED BY <3>2 DEF RemovedLater
  <2>. QED BY <2>3, <2>4
<1>2. /\ RemovedBehind(t, 0, v) <=> RemovedBehind(s, 0, v)
      /\ \A dev : RemovedLater(s, 0, v, dev) => RemovedLater(t, 0, v, dev)
  <2>1. f[0] = 0 /\ 0 \in Nat
    BY DEF Renumbers
  <2>2. /\ RemovedBehind(t, 0, v) <=> RemovedBehind(s, f[0], v)
        /\ \A dev : RemovedLater(s, f[0], v, dev) => RemovedLater(t, 0, v, dev)
    BY <1>1, <2>1
  <2>. QED BY <2>1, <2>2
<1>3. ASSUME NEW disk, AddsFollowed(s, v, disk)
      PROVE  AddsFollowed(t, v, disk)
  <2>1. ASSUME NEW i \in Nat, AddedAt(t, i, v)
        PROVE  DeviceOf(disk, t[i].dev) \/ RemovedLater(t, i, v, t[i].dev)
    <3>1. i \in DOMAIN t /\ t[i].vol = v
      BY <2>1 DEF AddedAt
    <3>2. f[i] \in Nat /\ s[f[i]] = t[i] /\ AddedAt(s, f[i], v)
      BY <2>1, <3>1 DEF Renumbers, AddedAt
    <3>3. DeviceOf(disk, t[i].dev) \/ RemovedLater(s, f[i], v, t[i].dev)
      BY <1>3, <3>2 DEF AddsFollowed
    <3>. QED BY <1>1, <3>1, <3>3
  <2>. QED BY <2>1 DEF AddsFollowed
<1>4. ASSUME NEW disk, NEW dev, MountFollowed(s, v, disk, dev)
      PROVE  MountFollowed(t, v, disk, dev)
  BY <1>2, <1>4 DEF MountFollowed
<1>5. ASSUME NEW disk, Awaited(s, v, disk)
      PROVE  Awaited(t, v, disk)
  <2>1. PICK i \in Nat :
          AddedAt(s, i, v) /\ ReadableOf(disk, s[i].dev) /\ ~RemovedBehind(s, i, v)
    BY <1>5 DEF Awaited
  <2>2. h[i] \in Nat /\ h[i] \in DOMAIN t /\ t[h[i]] = s[i] /\ f[h[i]] = i
    BY <2>1 DEF Renumbers, AddedAt
  <2>3. AddedAt(t, h[i], v) /\ ReadableOf(disk, t[h[i]].dev) /\ t[h[i]].vol = v
    BY <2>1, <2>2 DEF AddedAt
  <2>4. ~RemovedBehind(t, h[i], v)
    BY <1>1, <2>1, <2>2, <2>3
  <2>. QED BY <2>2, <2>3, <2>4 DEF Awaited
<1>. QED BY <1>2, <1>3, <1>4, <1>5 DEF Agree

\* Events of other volumes may be taken out or put in anywhere.
LEMMA OthersSkipped ==
  ASSUME NEW a \in Seq(Event), NEW b \in Seq(Event), NEW c \in Seq(Event), NEW v,
         \A i \in DOMAIN b : b[i].vol # v
  PROVE  Agree(a \o b \o c, a \o c, v) /\ Agree(a \o c, a \o b \o c, v)
<1>. DEFINE s == a \o b \o c
            t == a \o c
            f == [i \in Nat |-> IF i <= Len(a) THEN i ELSE i + Len(b)]
            h == [i \in Nat |-> IF i <= Len(a) THEN i ELSE i - Len(b)]
<1>1. PICK k, l, n \in Nat :
        /\ k = Len(a) /\ l = Len(b) /\ n = Len(c)
        /\ DOMAIN a = 1..k /\ DOMAIN b = 1..l /\ DOMAIN c = 1..n
  BY LenProperties
<1>2. /\ DOMAIN t = 1..(k + n)
      /\ \A i \in 1..(k + n) : t[i] = IF i <= k THEN a[i] ELSE c[i - k]
  BY <1>1, ConcatProperties, LenProperties
<1>3. PICK ab \in Seq(Event) :
        /\ ab = a \o b /\ Len(ab) = k + l
        /\ \A i \in 1..(k + l) : ab[i] = IF i <= k THEN a[i] ELSE b[i - k]
  <2>1. /\ a \o b \in Seq(Event) /\ Len(a \o b) = k + l
        /\ \A i \in 1..(k + l) : (a \o b)[i] = IF i <= k THEN a[i] ELSE b[i - k]
    BY <1>1, ConcatProperties
  <2>. QED BY <2>1
<1>4. /\ DOMAIN s = 1..(k + l + n)
      /\ \A i \in 1..(k + l + n) : s[i] = IF i <= k + l THEN ab[i] ELSE c[i - (k + l)]
  <2>1. ab \o c \in Seq(Event) /\ Len(ab \o c) = k + l + n
        /\ \A i \in 1..(k + l + n) : (ab \o c)[i] = IF i <= k + l THEN ab[i] ELSE c[i - (k + l)]
    BY <1>1, <1>3, ConcatProperties
  <2>. QED BY <1>3, <2>1, LenProperties
<1>. HIDE DEF s, t
<1>5. \A i \in 1..(k + l + n) :
        /\ i <= k => s[i] = a[i]
        /\ i > k /\ i <= k + l => s[i].vol # v
        /\ i > k + l => s[i] = c[i - (k + l)]
  <2>1. ASSUME NEW i \in 1..(k + l + n), i > k, i <= k + l
        PROVE  s[i].vol # v
    <3>1. i - k \in 1..l /\ i \in 1..(k + l) /\ ~(i <= k)
      BY <2>1
    <3>2. s[i] = b[i - k]
      BY <1>3, <1>4, <2>1, <3>1
    <3>. QED BY <1>1, <3>1, <3>2
  <2>2. ASSUME NEW i \in 1..(k + l + n), i <= k
        PROVE  s[i] = a[i]
    <3>1. i \in 1..(k + l) /\ i <= k + l
      BY <2>2
    <3>. QED BY <1>3, <1>4, <2>2, <3>1
  <2>3. ASSUME NEW i \in 1..(k + l + n), i > k + l
        PROVE  s[i] = c[i - (k + l)]
    BY <1>4, <2>3
  <2>. QED BY <2>1, <2>2, <2>3
<1>6. \A i \in Nat : f[i] = (IF i <= k THEN i ELSE i + l)
                     /\ h[i] = (IF i <= k THEN i ELSE i - l)
  BY <1>1
<1>. HIDE DEF f, h
<1>7. ASSUME NEW i \in Nat, i \in DOMAIN t, t[i].vol = v
      PROVE  f[i] \in Nat /\ f[i] \in DOMAIN s /\ s[f[i]] = t[i] /\ f[i] > 0 /\ h[f[i]] = i
  <2>1. CASE i <= k
    <3>1. f[i] = i /\ h[i] = i /\ i \in 1..(k + n) /\ i \in 1..(k + l + n)
      BY <1>2, <1>6, <1>7, <2>1
    <3>. QED BY <1>2, <1>4, <1>5, <2>1, <3>1
  <2>2. CASE i > k
    <3>1. PICK j \in Nat : j = i + l
      OBVIOUS
    <3>2. f[i] = j /\ h[j] = i
      BY <1>6, <2>2, <3>1
    <3>3. i \in 1..(k + n) /\ j \in 1..(k + l + n) /\ j > k + l /\ j - (k + l) = i - k
      BY <1>2, <1>7, <2>2, <3>1
    <3>4. s[j] = c[i - k] /\ t[i] = c[i - k]
      BY <1>2, <1>5, <2>2, <3>3
    <3>. QED BY <1>4, <3>2, <3>3, <3>4
  <2>. QED BY <2>1, <2>2
<1>8. ASSUME NEW i \in Nat, i \in DOMAIN s, s[i].vol = v
      PROVE  h[i] \in Nat /\ h[i] \in DOMAIN t /\ t[h[i]] = s[i] /\ f[h[i]] = i /\ h[i] > 0
  <2>1. i \in 1..(k + l + n) /\ (i <= k \/ i > k + l)
    BY <1>4, <1>5, <1>8
  <2>2. CASE i <= k
    <3>1. f[i] = i /\ h[i] = i /\ i \in 1..(k + n)
      BY <1>6, <2>1, <2>2
    <3>. QED BY <1>2, <1>5, <2>1, <2>2, <3>1
  <2>3. CASE i > k + l
    <3>1. PICK j \in Nat : j = i - l
      BY <2>3
    <3>2. h[i] = j /\ f[j] = i
      BY <1>6, <2>3, <3>1
    <3>3. j \in 1..(k + n) /\ j > k /\ j - k = i - (k + l)
      BY <2>1, <2>3, <3>1
    <3>4. s[i] = c[j - k] /\ t[j] = c[j - k]
      <4>1. s[i] = c[i - (k + l)]
        BY <1>5, <2>1, <2>3
      <4>2. t[j] = c[j - k]
        BY <1>2, <3>3
      <4>. QED BY <3>3, <4>1, <4>2
    <3>. QED BY <1>2, <3>2, <3>3, <3>4
  <2>. QED BY <2>1, <2>2, <2>3
<1>9. f[0] = 0 /\ h[0] = 0
  BY <1>6
<1>10. Renumbers(f, h, s, t, v)
  <2>1. \A i, j \in Nat : j > i <=> f[j] > f[i]
    BY <1>6
  <2>. QED BY <1>7, <1>8, <1>9, <2>1 DEF Renumbers
<1>11. Renumbers(h, f, t, s, v)
  <2>1. ASSUME NEW i \in Nat, NEW j \in Nat, i = 0 \/ (i \in DOMAIN s /\ s[i].vol = v),
               j \in DOMAIN s, s[j].vol = v
        PROVE  j > i <=> h[j] > h[i]
    <3>1. (i <= k \/ i > k + l) /\ (j <= k \/ j > k + l)
      BY <1>4, <1>5, <2>1
    <3>. QED BY <1>6, <3>1
  <2>. QED BY <1>7, <1>8, <1>9, <2>1 DEF Renumbers
<1>12. Agree(s, t, v) /\ Agree(t, s, v)
  BY <1>10, <1>11, Renumbered
<1>. QED BY <1>12 DEF s, t

LEMMA TailFacts ==
  ASSUME NEW s \in Seq(Event), s # << >>
  PROVE  /\ 1 \in DOMAIN s /\ s[1] = Head(s)
         /\ \A i \in Nat : /\ i \in DOMAIN Tail(s) <=> i > 0 /\ i + 1 \in DOMAIN s
                           /\ i \in DOMAIN Tail(s) => Tail(s)[i] = s[i + 1]
<1>1. PICK n \in Nat : n = Len(s) /\ DOMAIN s = 1..n
  BY LenProperties
<1>2. n > 0 /\ s[1] = Head(s)
  BY <1>1, EmptySeq
<1>3. Tail(s) \in Seq(Event) /\ Len(Tail(s)) = n - 1
      /\ \A i \in 1..(n - 1) : Tail(s)[i] = s[i + 1]
  BY <1>1, HeadTailProperties
<1>4. DOMAIN Tail(s) = 1..(n - 1)
  BY <1>3, LenProperties
<1>. QED BY <1>1, <1>2, <1>3, <1>4

LEMMA TailRemovals ==
  ASSUME NEW s \in Seq(Event), s # << >>, NEW k \in Nat, NEW v
  PROVE  /\ RemovedBehind(Tail(s), k, v) <=> RemovedBehind(s, k + 1, v)
         /\ \A dev : RemovedLater(s, k + 1, v, dev) => RemovedLater(Tail(s), k, v, dev)
<1>1. PICK t : t = Tail(s)
  OBVIOUS
<1>2. \A i \in Nat : /\ i \in DOMAIN t <=> i > 0 /\ i + 1 \in DOMAIN s
                     /\ i \in DOMAIN t => t[i] = s[i + 1]
  BY <1>1, TailFacts
<1>3. ASSUME NEW i \in Nat, i > k, RemovedAt(t, i, v)
      PROVE  i + 1 \in Nat /\ i + 1 > k + 1 /\ RemovedAt(s, i + 1, v)
  BY <1>2, <1>3 DEF RemovedAt
<1>4. ASSUME NEW i \in Nat, i > k + 1, RemovedAt(s, i, v)
      PROVE  i - 1 \in Nat /\ i - 1 > k /\ RemovedAt(t, i - 1, v) /\ t[i - 1] = s[i]
  <2>1. PICK j \in Nat : i = j + 1 /\ j > 0 /\ j > k
    BY <1>4
  <2>2. j \in DOMAIN t /\ t[j] = s[i]
    BY <1>2, <1>4, <2>1 DEF RemovedAt
  <2>3. i - 1 = j
    BY <2>1
  <2>. QED BY <1>4, <2>1, <2>2, <2>3 DEF RemovedAt
<1>5. RemovedBehind(t, k, v) <=> RemovedBehind(s, k + 1, v)
  BY <1>3, <1>4 DEF RemovedBehind
<1>6. ASSUME NEW dev, RemovedLater(s, k + 1, v, dev)
      PROVE  RemovedLater(t, k, v, dev)
  <2>1. PICK i \in Nat : i > k + 1 /\ RemovedAt(s, i, v) /\ s[i].dev = dev
    BY <1>6 DEF RemovedLater
  <2>2. i - 1 \in Nat /\ i - 1 > k /\ RemovedAt(t, i - 1, v) /\ t[i - 1].dev = dev
    BY <1>4, <2>1
  <2>. QED BY <2>2 DEF RemovedLater
<1>. QED BY <1>1, <1>5, <1>6

\* The first event is taken from the sequence.
LEMMA FirstTaken ==
  ASSUME NEW s \in Seq(Event), s # << >>, NEW v, NEW disk
  PROVE  /\ AddsFollowed(s, v, disk) => AddsFollowed(Tail(s), v, disk)
         /\ AddsFollowed(s, v, disk) /\ Head(s).vol = v /\ Head(s).act = "add" =>
              \/ DeviceOf(disk, Head(s).dev)
              \/ RemovedLater(Tail(s), 0, v, Head(s).dev)
         /\ \A dev : MountFollowed(s, v, disk, dev) =>
              \/ MountFollowed(Tail(s), v, disk, dev)
              \/ Head(s).vol = v /\ Head(s).act = "remove" /\ Head(s).dev = dev
         /\ ~RemovedBehind(s, 0, v) =>
              /\ ~RemovedBehind(Tail(s), 0, v)
              /\ ~(Head(s).vol = v /\ Head(s).act = "remove")
         /\ Awaited(s, v, disk) =>
              \/ Awaited(Tail(s), v, disk)
              \/ /\ Head(s).vol = v /\ Head(s).act = "add" /\ ReadableOf(disk, Head(s).dev)
                 /\ ~RemovedBehind(Tail(s), 0, v)
<1>1. PICK t, e : t = Tail(s) /\ e = Head(s)
  OBVIOUS
<1>2. /\ \A i \in Nat : /\ i \in DOMAIN t <=> i > 0 /\ i + 1 \in DOMAIN s
                        /\ i \in DOMAIN t => t[i] = s[i + 1]
      /\ 1 \in DOMAIN s /\ s[1] = e
  BY <1>1, TailFacts
<1>3. ASSUME NEW k \in Nat
      PROVE  /\ RemovedBehind(t, k, v) <=> RemovedBehind(s, k + 1, v)
             /\ \A dev : RemovedLater(s, k + 1, v, dev) => RemovedLater(t, k, v, dev)
  BY <1>1, TailRemovals
<1>4. /\ RemovedBehind(t, 0, v) <=> RemovedBehind(s, 1, v)
      /\ \A dev : RemovedLater(s, 1, v, dev) => RemovedLater(t, 0, v, dev)
  <2>1. 0 \in Nat /\ 0 + 1 = 1
    OBVIOUS
  <2>2. /\ RemovedBehind(t, 0, v) <=> RemovedBehind(s, 0 + 1, v)
        /\ \A dev : RemovedLater(s, 0 + 1, v, dev) => RemovedLater(t, 0, v, dev)
    BY <1>3, <2>1
  <2>. QED BY <2>1, <2>2
<1>5. ASSUME AddsFollowed(s, v, disk)
      PROVE  AddsFollowed(t, v, disk)
  <2>1. ASSUME NEW i \in Nat, AddedAt(t, i, v)
        PROVE  DeviceOf(disk, t[i].dev) \/ RemovedLater(t, i, v, t[i].dev)
    <3>1. i + 1 \in Nat /\ AddedAt(s, i + 1, v) /\ t[i] = s[i + 1]
      BY <1>2, <2>1 DEF AddedAt
    <3>2. DeviceOf(disk, t[i].dev) \/ RemovedLater(s, i + 1, v, t[i].dev)
      BY <1>5, <3>1 DEF AddsFollowed
    <3>. QED BY <1>3, <3>2
  <2>. QED BY <2>1 DEF AddsFollowed
<1>6. ASSUME AddsFollowed(s, v, disk), e.vol = v, e.act = "add"
      PROVE  DeviceOf(disk, e.dev) \/ RemovedLater(t, 0, v, e.dev)
  <2>1. 1 \in Nat /\ AddedAt(s, 1, v)
    BY <1>2, <1>6 DEF AddedAt
  <2>2. DeviceOf(disk, e.dev) \/ RemovedLater(s, 1, v, e.dev)
    BY <1>2, <1>6, <2>1 DEF AddsFollowed
  <2>. QED BY <1>4, <2>2
<1>7. ASSUME NEW dev, MountFollowed(s, v, disk, dev)
      PROVE  \/ MountFollowed(t, v, disk, dev)
             \/ e.vol = v /\ e.act = "remove" /\ e.dev = dev
  <2>1. CASE RemovedLater(s, 0, v, dev)
    <3>1. PICK i \in Nat : i > 0 /\ RemovedAt(s, i, v) /\ s[i].dev = dev
      BY <2>1 DEF RemovedLater
    <3>2. CASE i = 1
      BY <1>2, <3>1, <3>2 DEF RemovedAt
    <3>3. CASE i > 1
      <4>1. RemovedLater(s, 1, v, dev)
        BY <3>1, <3>3 DEF RemovedLater
      <4>. QED BY <1>4, <4>1 DEF MountFollowed
    <3>. QED BY <3>1, <3>2, <3>3
  <2>. QED BY <1>7, <2>1 DEF MountFollowed
<1>8. ASSUME ~RemovedBehind(s, 0, v)
      PROVE  ~RemovedBehind(t, 0, v) /\ ~(e.vol = v /\ e.act = "remove")
  <2>1. RemovedBehind(s, 1, v) => RemovedBehind(s, 0, v)
    BY DEF RemovedBehind
  <2>2. e.vol = v /\ e.act = "remove" => RemovedBehind(s, 0, v)
    <3>1. e.vol = v /\ e.act = "remove" => RemovedAt(s, 1, v)
      BY <1>2 DEF RemovedAt
    <3>2. 1 \in Nat /\ 1 > 0
      OBVIOUS
    <3>. QED BY <3>1, <3>2 DEF RemovedBehind
  <2>. QED BY <1>4, <1>8, <2>1, <2>2
<1>9. ASSUME Awaited(s, v, disk)
      PROVE  \/ Awaited(t, v, disk)
             \/ /\ e.vol = v /\ e.act = "add" /\ ReadableOf(disk, e.dev)
                /\ ~RemovedBehind(t, 0, v)
  <2>1. PICK i \in Nat :
          AddedAt(s, i, v) /\ ReadableOf(disk, s[i].dev) /\ ~RemovedBehind(s, i, v)
    BY <1>9 DEF Awaited
  <2>2. CASE i = 1
    BY <1>2, <1>4, <2>1, <2>2 DEF AddedAt
  <2>3. CASE i # 1
    <3>1. i > 0
      <4>1. i \in DOMAIN s /\ DOMAIN s = 1..Len(s) /\ Len(s) \in Nat
        BY <2>1, LenProperties DEF AddedAt
      <4>. QED BY <4>1
    <3>2. PICK j \in Nat : i = j + 1 /\ j > 0
      BY <2>3, <3>1
    <3>3. j \in DOMAIN t /\ t[j] = s[i]
      BY <1>2, <2>1, <3>2 DEF AddedAt
    <3>4. AddedAt(t, j, v) /\ ReadableOf(disk, t[j].dev)
      BY <2>1, <3>3 DEF AddedAt
    <3>5. ~RemovedBehind(t, j, v)
      BY <1>3, <2>1, <3>2
    <3>. QED BY <3>4, <3>5 DEF Awaited
  <2>. QED BY <2>2, <2>3
<1>. QED BY <1>1, <1>5, <1>6, <1>7, <1>8, <1>9

\* ... and is an event of another volume.
LEMMA OtherTaken ==
  ASSUME NEW s \in Seq(Event), s # << >>, NEW v, Head(s).vol # v
  PROVE  Agree(s, Tail(s), v)
  BY FirstTaken DEF Agree

LEMMA ConcatFacts ==
  ASSUME NEW s \in Seq(Event), NEW x \in Seq(Event)
  PROVE  \E n \in Nat :
           /\ \A i \in Nat : i \in DOMAIN s => /\ i <= n /\ i \in DOMAIN (s \o x)
                                               /\ (s \o x)[i] = s[i]
           /\ \A i \in Nat : i \in DOMAIN x => /\ n + i \in DOMAIN (s \o x) /\ i > 0
                                               /\ (s \o x)[n + i] = x[i]
           /\ \A i \in Nat : i \in DOMAIN (s \o x) =>
                \/ i \in DOMAIN s
                \/ \E j \in Nat : j \in DOMAIN x /\ i = n + j
<1>1. PICK n, m \in Nat : /\ n = Len(s) /\ m = Len(x)
                          /\ DOMAIN s = 1..n /\ DOMAIN x = 1..m
  BY LenProperties
<1>2. PICK t \in Seq(Event) :
        /\ t = s \o x /\ Len(t) = n + m
        /\ \A i \in 1..(n + m) : t[i] = IF i <= n THEN s[i] ELSE x[i - n]
  <2>1. /\ s \o x \in Seq(Event) /\ Len(s \o x) = n + m
        /\ \A i \in 1..(n + m) : (s \o x)[i] = IF i <= n THEN s[i] ELSE x[i - n]
    BY <1>1, ConcatProperties
  <2>. QED BY <2>1
<1>3. DOMAIN t = 1..(n + m)
  BY <1>2, LenProperties
<1>4. ASSUME NEW i \in Nat, i \in DOMAIN s
      PROVE  i <= n /\ i \in DOMAIN t /\ t[i] = s[i]
  BY <1>1, <1>2, <1>3, <1>4
<1>5. ASSUME NEW i \in Nat, i \in DOMAIN x
      PROVE  n + i \in DOMAIN t /\ i > 0 /\ t[n + i] = x[i]
  <2>1. n + i \in 1..(n + m) /\ ~(n + i <= n) /\ (n + i) - n = i /\ i > 0
    BY <1>1, <1>5
  <2>. QED BY <1>2, <1>3, <2>1
<1>6. ASSUME NEW i \in Nat, i \in DOMAIN t, i \notin DOMAIN s
      PROVE  \E j \in Nat : j \in DOMAIN x /\ i = n + j
  <2>1. i \in 1..(n + m) /\ i > n
    BY <1>1, <1>3, <1>6
  <2>2. i - n \in Nat /\ i - n \in 1..m /\ i = n + (i - n)
    BY <2>1
  <2>. QED BY <1>1, <2>2
<1>. QED BY <1>2, <1>4, <1>5, <1>6

LEMMA LaterStays ==
  ASSUME NEW s \in Seq(Event), NEW x \in Seq(Event), NEW k \in Nat, NEW v, NEW dev,
         RemovedLater(s, k, v, dev)
  PROVE  RemovedLater(s \o x, k, v, dev)
<1>1. PICK i \in Nat : i > k /\ RemovedAt(s, i, v) /\ s[i].dev = dev
  BY DEF RemovedLater
<1>2. i \in DOMAIN (s \o x) /\ (s \o x)[i] = s[i]
  BY <1>1, ConcatFacts DEF RemovedAt
<1>. QED BY <1>1, <1>2 DEF RemovedLater, RemovedAt

LEMMA KernelEventFields ==
  ASSUME NEW v \in Volume, NEW disk \in Disk, NEW i \in DOMAIN disk.devs
  PROVE  /\ disk # None /\ i \in Nat
         /\ \A act : LET e == Kernel(act, v, disk, i) IN
              e.act = act /\ e.vol = v /\ e.dev = <<disk.name, i>>
         /\ DeviceOf(disk, <<disk.name, i>>)
<1>1. disk # None
  BY VolumeAssumption DEF Disk
<1>2. i \in Nat
  <2>1. DOMAIN disk.devs = 1..Len(disk.devs) /\ Len(disk.devs) \in Nat
    BY EventsOfDisk
  <2>. QED BY <2>1
<1>3. disk.name \in Name
  BY DEF Disk
<1>. QED BY <1>1, <1>2, <1>3 DEF Kernel, DeviceOf, Dev

\* The kernel adds the devices of the disk in slot v, which is new or has been there.
LEMMA AddsAppended ==
  ASSUME NEW s \in Seq(Event), NEW v \in Volume, NEW disk \in Disk, NEW old \in {None, disk}
  PROVE  /\ AddsFollowed(s, v, old) => AddsFollowed(s \o AddEvents(v, disk), v, disk)
         /\ \A dev : MountFollowed(s, v, old, dev) =>
                       MountFollowed(s \o AddEvents(v, disk), v, disk, dev)
         /\ (\E i \in DOMAIN disk.devs : disk.devs[i]) =>
              Awaited(s \o AddEvents(v, disk), v, disk)
<1>1. PICK x \in Seq(Event) : x = AddEvents(v, disk)
  BY DiskEvents
<1>2. DOMAIN x = DOMAIN disk.devs
      /\ \A i \in DOMAIN x : i \in Nat /\ x[i] = Kernel("add", v, disk, i)
  BY <1>1, EventsOfDisk, KernelEventFields
<1>3. \A i \in DOMAIN x : /\ x[i].act = "add" /\ x[i].vol = v
                          /\ x[i].dev = <<disk.name, i>> /\ DeviceOf(disk, x[i].dev)
  <2>1. ASSUME NEW i \in DOMAIN x
        PROVE  /\ x[i].act = "add" /\ x[i].vol = v
               /\ x[i].dev = <<disk.name, i>> /\ DeviceOf(disk, x[i].dev)
    <3>1. PICK e : e = Kernel("add", v, disk, i)
      OBVIOUS
    <3>2. /\ e.act = "add" /\ e.vol = v /\ e.dev = <<disk.name, i>>
          /\ DeviceOf(disk, <<disk.name, i>>)
      BY <1>2, <3>1, KernelEventFields
    <3>. QED BY <1>2, <3>1, <3>2
  <2>. QED BY <2>1
<1>0. PICK t : t = s \o x
  OBVIOUS
<1>4. PICK n \in Nat :
        /\ \A i \in Nat : i \in DOMAIN s => i <= n /\ i \in DOMAIN t /\ t[i] = s[i]
        /\ \A i \in Nat : i \in DOMAIN x => n + i \in DOMAIN t /\ i > 0 /\ t[n + i] = x[i]
        /\ \A i \in Nat : i \in DOMAIN t =>
             i \in DOMAIN s \/ \E j \in Nat : j \in DOMAIN x /\ i = n + j
  <2>1. \E n \in Nat :
          /\ \A i \in Nat : i \in DOMAIN s => /\ i <= n /\ i \in DOMAIN (s \o x)
                                              /\ (s \o x)[i] = s[i]
          /\ \A i \in Nat : i \in DOMAIN x => /\ n + i \in DOMAIN (s \o x) /\ i > 0
                                              /\ (s \o x)[n + i] = x[i]
          /\ \A i \in Nat : i \in DOMAIN (s \o x) =>
               \/ i \in DOMAIN s
               \/ \E j \in Nat : j \in DOMAIN x /\ i = n + j
    BY ConcatFacts
  <2>. QED BY <1>0, <2>1
<1>5. \A dev : DeviceOf(old, dev) => DeviceOf(disk, dev)
  BY DEF DeviceOf
<1>6. \A dev : ReadableOf(old, dev) => ReadableOf(disk, dev)
  BY DEF ReadableOf, DeviceOf
<1>7. \A k \in Nat : \A dev : RemovedLater(s, k, v, dev) => RemovedLater(t, k, v, dev)
  BY <1>0, LaterStays
<1>8. ASSUME AddsFollowed(s, v, old)
      PROVE  AddsFollowed(t, v, disk)
  <2>1. ASSUME NEW i \in Nat, AddedAt(t, i, v)
        PROVE  DeviceOf(disk, t[i].dev) \/ RemovedLater(t, i, v, t[i].dev)
    <3>1. CASE i \in DOMAIN s
      <4>1. AddedAt(s, i, v) /\ t[i] = s[i]
        BY <1>4, <2>1, <3>1 DEF AddedAt
      <4>2. DeviceOf(old, s[i].dev) \/ RemovedLater(s, i, v, s[i].dev)
        BY <1>8, <4>1 DEF AddsFollowed
      <4>. QED BY <1>5, <1>7, <4>1, <4>2
    <3>2. CASE \E j \in Nat : j \in DOMAIN x /\ i = n + j
      BY <1>3, <1>4, <3>2
    <3>. QED BY <1>4, <2>1, <3>1, <3>2 DEF AddedAt
  <2>. QED BY <2>1 DEF AddsFollowed
<1>9. \A dev : MountFollowed(s, v, old, dev) => MountFollowed(t, v, disk, dev)
  BY <1>6, <1>7 DEF MountFollowed
<1>10. ASSUME NEW i \in DOMAIN disk.devs, disk.devs[i]
       PROVE  Awaited(t, v, disk)
  <2>1. i \in Nat /\ i \in DOMAIN x /\ x[i].dev = <<disk.name, i>>
    BY <1>2, <1>3
  <2>2. n + i \in Nat /\ AddedAt(t, n + i, v) /\ t[n + i] = x[i]
    <3>1. n + i \in Nat /\ n + i \in DOMAIN t /\ t[n + i] = x[i]
      BY <1>4, <2>1
    <3>2. x[i].act = "add" /\ x[i].vol = v
      BY <1>3, <2>1
    <3>. QED BY <3>1, <3>2 DEF AddedAt
  <2>3. ReadableOf(disk, x[i].dev)
    <3>1. DeviceOf(disk, x[i].dev) /\ x[i].dev = <<disk.name, i>>
      BY <1>3, <2>1
    <3>2. <<disk.name, i>>[2] = i
      OBVIOUS
    <3>3. x[i].dev[2] = i
      BY <3>1, <3>2, Zenon
    <3>. QED BY <1>10, <3>1, <3>3 DEF ReadableOf
  <2>4. ASSUME NEW j \in Nat, j > n + i, RemovedAt(t, j, v)
        PROVE  FALSE
    <3>1. j \notin DOMAIN s
      BY <1>4, <2>1, <2>4
    <3>2. PICK l \in Nat : l \in DOMAIN x /\ j = n + l
      BY <1>4, <2>4, <3>1 DEF RemovedAt
    <3>3. t[j].act = "add"
      BY <1>3, <1>4, <3>2
    <3>. QED BY <2>4, <3>3 DEF RemovedAt
  <2>5. ~RemovedBehind(t, n + i, v)
    BY <2>4 DEF RemovedBehind
  <2>. QED BY <2>2, <2>3, <2>5 DEF Awaited
<1>. QED BY <1>0, <1>1, <1>8, <1>9, <1>10

\* The kernel removes the devices of the disk.
LEMMA RemovesAppended ==
  ASSUME NEW s \in Seq(Event), NEW v \in Volume, NEW disk \in Disk
  PROVE  /\ AddsFollowed(s, v, disk) => AddsFollowed(s \o RemoveEvents(v, disk), v, None)
         /\ \A dev : MountFollowed(s, v, disk, dev) =>
                       MountFollowed(s \o RemoveEvents(v, disk), v, None, dev)
<1>1. PICK x \in Seq(Event) : x = RemoveEvents(v, disk)
  BY DiskEvents
<1>2. PICK m \in Nat : m = Len(disk.devs) /\ DOMAIN disk.devs = 1..m /\ DOMAIN x = 1..m
  BY <1>1, EventsOfDisk
<1>3. \A i \in 1..m : x[i] = Kernel("remove", v, disk, m + 1 - i)
  BY <1>1, <1>2 DEF RemoveEvents
<1>4. ASSUME NEW i \in 1..m
      PROVE  x[i].act = "remove" /\ x[i].vol = v /\ x[i].dev = <<disk.name, m + 1 - i>>
  <2>1. PICK j : j = m + 1 - i
    OBVIOUS
  <2>2. j \in DOMAIN disk.devs /\ x[i] = Kernel("remove", v, disk, j)
    BY <1>2, <1>3, <2>1
  <2>3. PICK e : e = Kernel("remove", v, disk, j)
    OBVIOUS
  <2>4. e.act = "remove" /\ e.vol = v /\ e.dev = <<disk.name, j>>
    BY <2>2, <2>3 DEF Kernel
  <2>. QED BY <2>1, <2>2, <2>3, <2>4
<1>0. PICK t : t = s \o x
  OBVIOUS
<1>5. PICK n \in Nat :
        /\ \A i \in Nat : i \in DOMAIN s => i <= n /\ i \in DOMAIN t /\ t[i] = s[i]
        /\ \A i \in Nat : i \in DOMAIN x => n + i \in DOMAIN t /\ i > 0 /\ t[n + i] = x[i]
        /\ \A i \in Nat : i \in DOMAIN t =>
             i \in DOMAIN s \/ \E j \in Nat : j \in DOMAIN x /\ i = n + j
  <2>1. \E n \in Nat :
          /\ \A i \in Nat : i \in DOMAIN s => /\ i <= n /\ i \in DOMAIN (s \o x)
                                              /\ (s \o x)[i] = s[i]
          /\ \A i \in Nat : i \in DOMAIN x => /\ n + i \in DOMAIN (s \o x) /\ i > 0
                                              /\ (s \o x)[n + i] = x[i]
          /\ \A i \in Nat : i \in DOMAIN (s \o x) =>
               \/ i \in DOMAIN s
               \/ \E j \in Nat : j \in DOMAIN x /\ i = n + j
    BY ConcatFacts
  <2>. QED BY <1>0, <2>1
<1>6. ASSUME NEW k \in Nat, k <= n, NEW dev, DeviceOf(disk, dev)
      PROVE  RemovedLater(t, k, v, dev)
  <2>1. PICK j : j = dev[2]
    OBVIOUS
  <2>2. j \in 1..m /\ dev = <<disk.name, j>>
    BY <1>2, <1>6, <2>1 DEF DeviceOf, Dev
  <2>3. PICK i \in 1..m : i = m + 1 - j
    BY <2>2
  <2>4. m + 1 - i = j /\ i \in Nat /\ i > 0
    BY <2>2, <2>3
  <2>5. x[i].act = "remove" /\ x[i].vol = v /\ x[i].dev = dev
    BY <1>4, <2>2, <2>4
  <2>6. n + i \in Nat /\ n + i > k /\ n + i \in DOMAIN t /\ t[n + i] = x[i]
    BY <1>2, <1>5, <1>6, <2>4
  <2>. QED BY <2>5, <2>6 DEF RemovedLater, RemovedAt
<1>7. \A k \in Nat : \A dev : RemovedLater(s, k, v, dev) => RemovedLater(t, k, v, dev)
  BY <1>0, LaterStays
<1>8. ASSUME AddsFollowed(s, v, disk)
      PROVE  AddsFollowed(t, v, None)
  <2>1. ASSUME NEW i \in Nat, AddedAt(t, i, v)
        PROVE  RemovedLater(t, i, v, t[i].dev)
    <3>1. CASE i \in DOMAIN s
      <4>1. AddedAt(s, i, v) /\ t[i] = s[i] /\ i <= n
        BY <1>5, <2>1, <3>1 DEF AddedAt
      <4>2. DeviceOf(disk, s[i].dev) \/ RemovedLater(s, i, v, s[i].dev)
        BY <1>8, <4>1 DEF AddsFollowed
      <4>. QED BY <1>6, <1>7, <4>1, <4>2
    <3>2. CASE \E j \in Nat : j \in DOMAIN x /\ i = n + j
      <4>1. t[i].act = "remove"
        <5>1. PICK j \in Nat : j \in DOMAIN x /\ i = n + j
          BY <3>2
        <5>2. t[i] = x[j] /\ j \in 1..m
          BY <1>2, <1>5, <5>1
        <5>. QED BY <1>4, <5>2
      <4>. QED BY <2>1, <4>1 DEF AddedAt
    <3>. QED BY <1>5, <2>1, <3>1, <3>2 DEF AddedAt
  <2>. QED BY <2>1 DEF AddsFollowed
<1>9. ASSUME NEW dev, MountFollowed(s, v, disk, dev)
      PROVE  MountFollowed(t, v, None, dev)
  <2>1. 0 \in Nat /\ 0 <= n
    OBVIOUS
  <2>2. RemovedLater(t, 0, v, dev)
    BY <1>6, <1>7, <1>9, <2>1 DEF MountFollowed, ReadableOf
  <2>. QED BY <2>2 DEF MountFollowed
<1>. QED BY <1>0, <1>1, <1>8, <1>9

-----------------------------------------------------------------------------
(***************************************************************************)
(* The invariant                                                           *)
(***************************************************************************)
\* The events the worker will get, in its order; the cache is about to be cleared once
\* it has been copied.
Kept == IF ui = "flushed" THEN << >> ELSE cacheVec
Read == IF net = None THEN << >> ELSE <<net>>

Pipe == eventVec \o Kept \o Read \o sock

InHandOf(v) == work # Idle /\ work.evt.vol = v

\* v is mounted, or the worker is about to mount it.
Has(v) ==
  \/ vol[v].state = "mounted"
  \/ InHandOf(v) /\ work.evt.act = "add"

\* The events of the disk in slot v have been sent.
Announced(v) == ui # "start" /\ ~(ui = "coldboot" /\ v \in todo)

Served(v) ==
  /\ AddsFollowed(Pipe, v, slot[v])
  /\ Has(v) => MountFollowed(Pipe, v, slot[v], vol[v].dev)
  /\ Readable(v) /\ Announced(v) =>
       \/ Has(v) /\ ~RemovedBehind(Pipe, 0, v)
       \/ Awaited(Pipe, v, slot[v])

\* One device at most is mounted at the path of v, that of the volume.
Stack(v) ==
  /\ InHandOf(v) => /\ vol[v].state # "mounted"
                    /\ work.pc = "mount" => work.evt.act = "add"
  /\ vol[v].state = "mounted" => fs[v] = <<vol[v].dev>>
  /\ vol[v].state = "unmounting" => \E dev : fs[v] = <<dev>>
  /\ vol[v].state \notin {"mounted", "unmounting"} => fs[v] = << >>

DisksApart ==
  \A u, v \in Volume :
    u # v /\ slot[u] # None /\ slot[v] # None => slot[u].name # slot[v].name

\* Outside of the switch the cache holds nothing that will be handled.
Phases ==
  /\ entering => ui \in {"clear", "check", "flushed", "wait"}
  /\ running => ui \notin {"start", "coldboot"}
  /\ ~entering => \A i \in DOMAIN cacheVec : cacheVec[i].vol \in Module \cup lost

SettledInv ==
  /\ DisksApart /\ Phases
  /\ \A v \in Local \ lost : Stack(v) /\ Served(v)

-----------------------------------------------------------------------------
LEMMA LocalsAndModules ==
  ASSUME NEW v \in Local
  PROVE  v \in Volume /\ v \notin Module
  BY VolumeAssumption DEF Volume

LEMMA PipeType ==
  ASSUME TypeOK
  PROVE  /\ eventVec \in Seq(Event) /\ Kept \in Seq(Event) /\ Read \in Seq(Event)
         /\ sock \in Seq(Event) /\ cacheVec \in Seq(Event)
         /\ eventVec \o Kept \in Seq(Event) /\ eventVec \o Kept \o Read \in Seq(Event)
         /\ Pipe \in Seq(Event)
<1>1. eventVec \in Seq(Event) /\ sock \in Seq(Event) /\ cacheVec \in Seq(Event)
  BY DEF TypeOK
<1>2. << >> \in Seq(Event) /\ (net # None => <<net>> \in Seq(Event))
  BY EmptySeq DEF TypeOK
<1>3. Kept \in Seq(Event) /\ Read \in Seq(Event)
  BY <1>1, <1>2 DEF Kept, Read
<1>4. eventVec \o Kept \in Seq(Event)
  BY <1>1, <1>3, ConcatProperties
<1>5. eventVec \o Kept \o Read \in Seq(Event)
  BY <1>3, <1>4, ConcatProperties
<1>6. eventVec \o Kept \o Read \o sock \in Seq(Event)
  BY <1>1, <1>5, ConcatProperties
<1>. QED BY <1>1, <1>3, <1>4, <1>5, <1>6 DEF Pipe

LEMMA AgreeSame ==
  ASSUME NEW s, NEW v
  PROVE  Agree(s, s, v)
  BY DEF Agree

LEMMA AgreeTransitive ==
  ASSUME NEW s, NEW t, NEW u, NEW v, Agree(s, t, v), Agree(t, u, v)
  PROVE  Agree(s, u, v)
<1>1. \A disk : AddsFollowed(s, v, disk) => AddsFollowed(u, v, disk)
  BY DEF Agree
<1>2. \A disk, dev : MountFollowed(s, v, disk, dev) => MountFollowed(u, v, disk, dev)
  BY DEF Agree
<1>3. ~RemovedBehind(s, 0, v) => ~RemovedBehind(u, 0, v)
  BY DEF Agree
<1>4. \A disk : Awaited(s, v, disk) => Awaited(u, v, disk)
  BY DEF Agree
<1>. QED BY <1>1, <1>2, <1>3, <1>4 DEF Agree

\* The step does nothing to v but pass its events on.
Unconcerned(v) ==
  /\ slot'[v] = slot[v] /\ vol'[v] = vol[v] /\ fs'[v] = fs[v]
  /\ InHandOf(v)' <=> InHandOf(v)
  /\ InHandOf(v) => work' = work
  /\ Announced(v)' => Announced(v)

LEMMA Passed ==
  ASSUME NEW v, Unconcerned(v), Agree(Pipe, Pipe', v), Stack(v), Served(v)
  PROVE  Stack(v)' /\ Served(v)'
<1>1. Has(v)' <=> Has(v)
  BY DEF Unconcerned, Has
<1>2. Readable(v)' <=> Readable(v)
  BY DEF Unconcerned, Readable
<1>3. Stack(v)'
  BY DEF Unconcerned, Stack
<1>4. AddsFollowed(Pipe, v, slot[v])'
  <2>1. AddsFollowed(Pipe', v, slot[v])
    BY DEF Served, Agree
  <2>. QED BY <2>1 DEF Unconcerned
<1>5. Has(v)' => MountFollowed(Pipe, v, slot[v], vol[v].dev)'
  <2>1. Has(v) => MountFollowed(Pipe', v, slot[v], vol[v].dev)
    BY DEF Served, Agree
  <2>. QED BY <1>1, <2>1 DEF Unconcerned
<1>6. ASSUME Readable(v)', Announced(v)'
      PROVE  \/ Has(v)' /\ ~RemovedBehind(Pipe, 0, v)'
             \/ Awaited(Pipe, v, slot[v])'
  <2>1. Readable(v) /\ Announced(v)
    BY <1>2, <1>6 DEF Unconcerned
  <2>2. CASE Has(v) /\ ~RemovedBehind(Pipe, 0, v)
    <3>1. ~RemovedBehind(Pipe', 0, v)
      BY <2>2 DEF Agree
    <3>. QED BY <1>1, <2>2, <3>1
  <2>3. CASE Awaited(Pipe, v, slot[v])
    <3>1. Awaited(Pipe', v, slot[v])
      BY <2>3 DEF Agree
    <3>. QED BY <3>1 DEF Unconcerned
  <2>. QED BY <2>1, <2>2, <2>3 DEF Served
<1>. QED BY <1>3, <1>4, <1>5, <1>6 DEF Served

LEMMA NoneIsNoEvent ==
  ASSUME NEW e \in Event
  PROVE  e # None
  BY VolumeAssumption

LEMMA EventsAssociative ==
  ASSUME NEW a \in Seq(Event), NEW b \in Seq(Event), NEW c \in Seq(Event)
  PROVE  a \o b \o c = a \o (b \o c)
  BY ConcatAssociative

-----------------------------------------------------------------------------
(***************************************************************************)
(* The listener                                                            *)
(***************************************************************************)
LEMMA HeadAndTail ==
  ASSUME NEW s \in Seq(Event), s # << >>
  PROVE  s = <<Head(s)>> \o Tail(s) /\ <<Head(s)>> \in Seq(Event) /\ Tail(s) \in Seq(Event)
<1>1. PICK n \in Nat : n = Len(s) /\ n > 0 /\ DOMAIN s = 1..n
  BY LenProperties, EmptySeq
<1>2. /\ Head(s) \in Event /\ Tail(s) \in Seq(Event) /\ Len(Tail(s)) = n - 1
      /\ \A i \in 1..(n - 1) : Tail(s)[i] = s[i + 1]
  BY <1>1, HeadTailProperties
<1>3. Head(s) = s[1]
  BY TailFacts
<1>4. PICK e, t : e = Head(s) /\ t = Tail(s)
  OBVIOUS
<1>5. <<e>> \in Seq(Event) /\ Len(<<e>>) = 1 /\ <<e>>[1] = e
  BY <1>2, <1>4
<1>6. PICK o : o = <<e>>
  OBVIOUS
<1>7. /\ o \o t \in Seq(Event) /\ Len(o \o t) = 1 + (n - 1)
      /\ \A i \in 1..(1 + (n - 1)) : (o \o t)[i] = IF i <= 1 THEN o[i] ELSE t[i - 1]
  BY <1>2, <1>4, <1>5, <1>6, ConcatProperties
<1>8. ASSUME NEW i \in 1..n
      PROVE  (o \o t)[i] = s[i]
  <2>1. CASE i = 1
    BY <1>1, <1>3, <1>4, <1>5, <1>6, <1>7, <2>1
  <2>2. CASE i > 1
    <3>1. i - 1 \in 1..(n - 1) /\ (i - 1) + 1 = i /\ ~(i <= 1) /\ i \in 1..(1 + (n - 1))
      BY <1>1, <2>2
    <3>. QED BY <1>2, <1>4, <1>7, <3>1
  <2>3. i = 1 \/ i > 1
    BY <1>1
  <2>. QED BY <2>1, <2>2, <2>3
<1>9. Len(o \o t) = n
  BY <1>1, <1>7
<1>10. o \o t = s
  BY <1>1, <1>7, <1>8, <1>9, SeqEqual
<1>. QED BY <1>2, <1>4, <1>5, <1>6, <1>10

\* Without a worker the event is dropped ...
LEMMA ReadDrops ==
  ASSUME TypeOK, ReadEvent, ~running, NEW v \in Local \ lost'
  PROVE  Agree(Pipe, Pipe', v)
<1>1. PICK h, t : h = Head(sock) /\ t = Tail(sock)
  OBVIOUS
<1>2. /\ sock # << >> /\ net = None /\ sock' = t /\ lost' = lost \cup {h.vol}
      /\ UNCHANGED <<net, eventVec, ui, cacheVec>>
  BY <1>1 DEF ReadEvent, mode
<1>3. /\ sock = <<h>> \o t /\ <<h>> \in Seq(Event) /\ t \in Seq(Event)
  BY <1>1, <1>2, HeadAndTail DEF TypeOK
<1>4. PICK p \in Seq(Event) : p = eventVec \o Kept \o Read
  BY PipeType
<1>5. Pipe = p \o (<<h>> \o t) /\ Pipe' = p \o t
  BY <1>2, <1>3, <1>4 DEF Pipe, Kept, Read
<1>6. Pipe = p \o <<h>> \o t
  BY <1>3, <1>5, ConcatAssociative
<1>7. \A i \in DOMAIN <<h>> : <<h>>[i].vol # v
  <2>1. DOMAIN <<h>> = {1} /\ <<h>>[1] = h /\ h.vol # v
    BY <1>2
  <2>. QED BY <2>1
<1>8. Agree(p \o <<h>> \o t, p \o t, v)
  BY <1>3, <1>7, OthersSkipped
<1>. QED BY <1>5, <1>6, <1>8

\* ... while the mode is entered it goes on to the cache ...
LEMMA ReadGoesOn ==
  ASSUME TypeOK, ReadEvent, running, entering
  PROVE  Pipe' = Pipe
<1>1. PICK h, t : h = Head(sock) /\ t = Tail(sock)
  OBVIOUS
<1>2. /\ sock # << >> /\ net = None /\ sock' = t /\ net' = h
      /\ UNCHANGED <<eventVec, ui, cacheVec>>
  BY <1>1 DEF ReadEvent, mode
<1>3. /\ sock = <<h>> \o t /\ <<h>> \in Seq(Event) /\ t \in Seq(Event) /\ h \in Event
  BY <1>1, <1>2, HeadAndTail, HeadTailProperties DEF TypeOK
<1>4. PICK p \in Seq(Event) : p = eventVec \o Kept
  BY PipeType
<1>5. h # None => Pipe' = p \o <<h>> \o t
  BY <1>2, <1>4 DEF Pipe, Kept, Read
<1>6. h # None
  BY <1>3, NoneIsNoEvent
<1>7. Pipe = p \o << >> \o (<<h>> \o t)
  BY <1>2, <1>3, <1>4 DEF Pipe, Read
<1>8. p \o << >> = p
  BY ConcatEmptySeq
<1>9. p \o <<h>> \o t = p \o (<<h>> \o t)
  BY <1>3, ConcatAssociative
<1>. QED BY <1>5, <1>6, <1>7, <1>8, <1>9

\* ... and else right to the worker, past the cache, which holds nothing of v.
LEMMA ReadPosts ==
  ASSUME TypeOK, Phases, ReadEvent, running, ~entering, NEW v \in Local \ lost
  PROVE  Agree(Pipe, Pipe', v)
<1>1. PICK h, t : h = Head(sock) /\ t = Tail(sock)
  OBVIOUS
<1>2. /\ sock # << >> /\ net = None /\ sock' = t /\ net' = net
      /\ eventVec' = Append(eventVec, h) /\ UNCHANGED <<ui, cacheVec>>
  BY <1>1 DEF ReadEvent, mode
<1>3. /\ sock = <<h>> \o t /\ <<h>> \in Seq(Event) /\ t \in Seq(Event) /\ h \in Event
  BY <1>1, <1>2, HeadAndTail, HeadTailProperties DEF TypeOK
<1>4. PICK q, c \in Seq(Event) : q = eventVec /\ c = Kept
  BY PipeType
<1>5. PICK o \in Seq(Event) : o = <<h>>
  BY <1>3
<1>6. q \o c \in Seq(Event) /\ q \o o \in Seq(Event) /\ o \o t \in Seq(Event)
      /\ q \o o \o c \in Seq(Event)
  BY <1>3, ConcatProperties
<1>7. Pipe = q \o c \o (o \o t)
  <2>1. Pipe = q \o c \o << >> \o (o \o t)
    BY <1>2, <1>3, <1>4, <1>5, SMTT(30) DEF Pipe, Read
  <2>. QED BY <1>6, <2>1, ConcatEmptySeq
<1>8. Pipe' = q \o o \o c \o t
  <2>1. eventVec' = q \o o
    BY <1>2, <1>3, <1>4, <1>5, AppendIsConcat
  <2>2. Pipe' = q \o o \o c \o << >> \o t
    BY <1>2, <1>4, <2>1 DEF Pipe, Read, Kept
  <2>. QED BY <1>6, <2>2, ConcatEmptySeq
<1>9. \A i \in DOMAIN c : c[i].vol # v
  BY <1>4, LocalsAndModules, SMTT(30) DEF Phases, Kept
<1>10. Agree(Pipe, q \o (o \o t), v)
  BY <1>6, <1>7, <1>9, OthersSkipped
<1>11. q \o (o \o t) = q \o o \o t
  BY <1>3, <1>5, EventsAssociative, ZenonT(40)
<1>12. Agree(q \o o \o t, Pipe', v)
  BY <1>3, <1>6, <1>8, <1>9, OthersSkipped
<1>. QED BY <1>10, <1>11, <1>12, AgreeTransitive

LEMMA CachePasses ==
  ASSUME TypeOK, CacheEvent, NEW v \in Local \ lost'
  PROVE  Agree(Pipe, Pipe', v)
<1>1. /\ net # None /\ net' = None /\ cacheVec' = Append(cacheVec, net)
      /\ UNCHANGED <<eventVec, ui, sock>>
      /\ lost' = IF entering /\ ui # "flushed" THEN lost ELSE lost \cup {net.vol}
  BY DEF CacheEvent, manager, kernel
<1>2. net \in Event
  BY <1>1 DEF TypeOK
<1>3. PICK o \in Seq(Event) : o = <<net>>
  BY <1>1, PipeType DEF Read
<1>4. PICK q, c, s \in Seq(Event) : q = eventVec /\ c = cacheVec /\ s = sock
  BY PipeType
<1>5. CASE ui = "flushed"
  <2>1. Pipe = q \o << >> \o o \o s /\ Pipe' = q \o << >> \o << >> \o s
    BY <1>1, <1>3, <1>4, <1>5 DEF Pipe, Read, Kept
  <2>2. Pipe = q \o o \o s /\ Pipe' = q \o s
    BY <2>1, ConcatEmptySeq
  <2>3. \A i \in DOMAIN o : o[i].vol # v
    <3>1. DOMAIN o = {1} /\ o[1] = net /\ net.vol # v
      BY <1>1, <1>3, <1>5
    <3>. QED BY <3>1
  <2>. QED BY <2>2, <2>3, OthersSkipped
<1>6. CASE ui # "flushed"
  <2>1. cacheVec' = c \o o
    BY <1>1, <1>2, <1>3, <1>4, AppendIsConcat
  <2>2. Pipe = q \o c \o o \o s /\ Pipe' = q \o (c \o o) \o << >> \o s
    BY <1>1, <1>3, <1>4, <1>6, <2>1 DEF Pipe, Read, Kept
  <2>3. q \o (c \o o) = q \o c \o o /\ q \o c \in Seq(Event)
    <3>1. o \in Seq(Event)
      BY <1>3
    <3>2. q \o (c \o o) = q \o c \o o
      BY <3>1, EventsAssociative, ZenonT(40)
    <3>. QED BY <3>2, ConcatProperties
  <2>4. q \o c \o o \in Seq(Event)
    BY <2>3, ConcatProperties
  <2>5. Pipe' = Pipe
    BY <2>2, <2>3, <2>4, ConcatEmptySeq
  <2>. QED BY <2>5, AgreeSame
<1>. QED BY <1>5, <1>6

-----------------------------------------------------------------------------
(***************************************************************************)
(* The switch of the mode                                                  *)
(***************************************************************************)
\* An event of another volume is put behind the cache, or the cache is cleared.
LEMMA CacheChanges ==
  ASSUME TypeOK, NEW x \in Seq(Event), NEW v, ui # "flushed", ui' # "flushed",
         \/ cacheVec' = cacheVec \o x /\ \A i \in DOMAIN x : x[i].vol # v
         \/ cacheVec' = << >> /\ \A i \in DOMAIN cacheVec : cacheVec[i].vol # v,
         UNCHANGED <<eventVec, net, sock>>
  PROVE  Agree(Pipe, Pipe', v)
<1>1. PICK q, c, r, s \in Seq(Event) : q = eventVec /\ c = cacheVec /\ r = Read /\ s = sock
  BY PipeType
<1>2. q \o c \in Seq(Event) /\ r \o s \in Seq(Event) /\ q \o c \o r \in Seq(Event)
  BY ConcatProperties
<1>3. Pipe = q \o c \o r \o s /\ Read' = r
  BY <1>1 DEF Pipe, Kept, Read
<1>4. Pipe = q \o c \o (r \o s)
  <2>1. PICK p \in Seq(Event) : p = q \o c
    BY <1>2
  <2>2. p \o r \o s = p \o (r \o s)
    BY EventsAssociative, ZenonT(40)
  <2>. QED BY <1>3, <2>1, <2>2
<1>5. CASE cacheVec' = c \o x /\ \A i \in DOMAIN x : x[i].vol # v
  <2>1. Pipe' = q \o (c \o x) \o r \o s
    BY <1>1, <1>3, <1>5, SMTT(30) DEF Pipe, Kept
  <2>2. q \o (c \o x) = q \o c \o x
    BY EventsAssociative, ZenonT(40)
  <2>3. PICK p \in Seq(Event) : p = q \o c \o x
    BY <1>2, ConcatProperties
  <2>4. p \o r \o s = p \o (r \o s)
    BY EventsAssociative, ZenonT(40)
  <2>5. Pipe' = q \o c \o x \o (r \o s)
    BY <2>1, <2>2, <2>3, <2>4, Zenon
  <2>. QED BY <1>2, <1>4, <1>5, <2>5, OthersSkipped
<1>6. CASE cacheVec' = << >> /\ \A i \in DOMAIN c : c[i].vol # v
  <2>1. Pipe' = q \o << >> \o r \o s
    BY <1>1, <1>3, <1>6, SMTT(30) DEF Pipe, Kept
  <2>2. Pipe' = q \o r \o s
    BY <2>1, ConcatEmptySeq, SMTT(30)
  <2>3. Pipe' = q \o (r \o s)
    <3>1. q \o r \o s = q \o (r \o s)
      BY EventsAssociative, ZenonT(40)
    <3>. QED BY <2>2, <3>1
  <2>. QED BY <1>2, <1>4, <1>6, <2>3, OthersSkipped
<1>. QED BY <1>1, <1>5, <1>6

\* The cache, which holds nothing of v, is copied when the mode is left ...
LEMMA CacheCopied ==
  ASSUME TypeOK, NEW v, ui # "flushed", ui' # "flushed",
         \A i \in DOMAIN cacheVec : cacheVec[i].vol # v,
         eventVec' = eventVec \o cacheVec, UNCHANGED <<cacheVec, net, sock>>
  PROVE  Agree(Pipe, Pipe', v)
<1>1. PICK q, c, r, s \in Seq(Event) : q = eventVec /\ c = cacheVec /\ r = Read /\ s = sock
  BY PipeType
<1>2. q \o c \in Seq(Event) /\ c \o r \in Seq(Event) /\ c \o r \o s \in Seq(Event)
      /\ q \o c \o c \in Seq(Event) /\ r \o s \in Seq(Event) /\ c \o (r \o s) \in Seq(Event)
  BY ConcatProperties
<1>3. Pipe = q \o c \o r \o s /\ Pipe' = q \o c \o c \o r \o s
  BY <1>1 DEF Pipe, Kept, Read
<1>4. Pipe = q \o c \o (r \o s)
  <2>1. PICK p \in Seq(Event) : p = q \o c
    BY <1>2
  <2>2. p \o r \o s = p \o (r \o s)
    BY EventsAssociative, ZenonT(40)
  <2>. QED BY <1>3, <2>1, <2>2
<1>5. Pipe' = q \o c \o c \o (r \o s)
  <2>1. PICK p \in Seq(Event) : p = q \o c \o c
    BY <1>2
  <2>2. p \o r \o s = p \o (r \o s)
    BY EventsAssociative, ZenonT(40)
  <2>. QED BY <1>3, <2>1, <2>2
<1>6. Agree(Pipe, Pipe', v)
  BY <1>1, <1>2, <1>4, <1>5, OthersSkipped
<1>. QED BY <1>6

\* ... and the copy is what counts when the mode is entered.
LEMMA FlushPasses ==
  ASSUME TypeOK, Phases, Flush, NEW v \in Local \ lost'
  PROVE  Agree(Pipe, Pipe', v)
<1>1. /\ eventVec' = eventVec \o cacheVec /\ lost' = lost
      /\ UNCHANGED <<cacheVec, net, sock>>
  BY DEF Flush, kernel, history
<1>2. CASE ui = "check" /\ ui' = "flushed"
  <2>1. PICK q, c, r, s \in Seq(Event) : q = eventVec /\ c = cacheVec /\ r = Read /\ s = sock
    BY PipeType
  <2>2. q \o c \in Seq(Event)
    BY ConcatProperties
  <2>3. Pipe = q \o c \o r \o s /\ Pipe' = q \o c \o << >> \o r \o s
    BY <1>1, <1>2, <2>1 DEF Pipe, Kept, Read
  <2>4. Pipe' = Pipe
    BY <2>2, <2>3, ConcatEmptySeq
  <2>. QED BY <2>4, AgreeSame
<1>3. CASE ui = "exit" /\ ui' = "exiting"
  <2>1. \A i \in DOMAIN cacheVec : cacheVec[i].vol # v
    BY <1>1, <1>3, LocalsAndModules DEF Phases
  <2>. QED BY <1>1, <1>3, <2>1, CacheCopied
<1>. QED BY <1>2, <1>3 DEF Flush

LEMMA FlushClearsPasses ==
  ASSUME TypeOK, Phases, FlushClears, NEW v \in Local \ lost'
  PROVE  Agree(Pipe, Pipe', v)
<1>1. /\ cacheVec' = << >> /\ lost' = lost
      /\ UNCHANGED <<eventVec, net, sock>>
  BY DEF FlushClears, kernel, manager, history
<1>2. CASE ui = "flushed" /\ ui' = "wait"
  <2>1. Pipe' = Pipe
    BY <1>1, <1>2 DEF Pipe, Kept, Read
  <2>. QED BY <2>1, AgreeSame
<1>3. CASE ui = "exiting" /\ ui' = "leave"
  <2>1. \A i \in DOMAIN cacheVec : cacheVec[i].vol # v
    BY <1>1, <1>3, LocalsAndModules DEF Phases
  <2>2. << >> \in Seq(Event)
    BY EmptySeq
  <2>. QED BY <1>1, <1>3, <2>1, <2>2, CacheChanges
<1>. QED BY <1>2, <1>3 DEF FlushClears

LEMMA PowerOnPasses ==
  ASSUME TypeOK, ClearAndPowerOn, NEW v \in Local \ lost'
  PROVE  Agree(Pipe, Pipe', v)
<1>1. /\ cacheVec' = << >> /\ lost' = lost \cup Cached /\ ui = "clear" /\ ui' = "check"
      /\ UNCHANGED <<eventVec, net, sock>>
  BY DEF ClearAndPowerOn, kernel, manager
<1>2. \A i \in DOMAIN cacheVec : cacheVec[i].vol # v
  BY <1>1 DEF Cached
<1>3. << >> \in Seq(Event)
  BY EmptySeq
<1>. QED BY <1>1, <1>2, <1>3, CacheChanges

LEMMA RemovalPasses ==
  ASSUME TypeOK, NEW m \in Module, CacheRemoval(m), NEW v \in Local
  PROVE  Agree(Pipe, Pipe', v)
<1>1. PICK e : e = [act |-> "remove", src |-> "app", vol |-> m, dev |-> vol[m].dev, prio |-> 0]
  OBVIOUS
<1>2. /\ cacheVec' = Append(cacheVec, e) /\ ui = "exit" /\ ui' = ui
      /\ UNCHANGED <<eventVec, net, sock>>
  BY <1>1 DEF CacheRemoval, kernel, manager
<1>3. e \in Event
  <2>1. m \in Volume /\ vol[m].dev \in Dev \cup {None}
    BY DEF Volume, TypeOK
  <2>. QED BY <1>1, <2>1 DEF Event
<1>4. PICK o \in Seq(Event) : o = <<e>>
  <2>1. <<e>> \in Seq(Event)
    BY <1>3
  <2>. QED BY <2>1
<1>5. cacheVec' = cacheVec \o o
  BY <1>2, <1>3, <1>4, AppendIsConcat DEF TypeOK
<1>6. \A i \in DOMAIN o : o[i].vol # v
  <2>1. DOMAIN o = {1} /\ o[1] = e /\ e.vol = m /\ m # v
    BY <1>1, <1>4, LocalsAndModules
  <2>. QED BY <2>1
<1>. QED BY <1>2, <1>5, <1>6, CacheChanges

\* The other steps of the UI leave the events where they are.
LEMMA EventsWait ==
  ASSUME ui # "flushed", ui' # "flushed", UNCHANGED <<eventVec, cacheVec, net, sock>>, NEW v
  PROVE  Agree(Pipe, Pipe', v)
<1>1. Pipe' = Pipe
  BY DEF Pipe, Kept, Read
<1>. QED BY <1>1, AgreeSame

LEMMA EnterLeavesLocals ==
  ASSUME TypeOK, Enter, NEW v \in Local
  PROVE  /\ vol'[v] = vol[v] /\ fs'[v] = fs[v]
         /\ UNCHANGED <<slot, sock, net, running, eventVec, work, cacheVec, lost, todo>>
         /\ entering' = TRUE /\ ui = "normal" /\ ui' = "clear"
<1>1. PICK Mounted : /\ Mounted = {m \in Module : vol[m].state = "mounted"}
                     /\ v \in Volume /\ v \notin Mounted
  BY LocalsAndModules
<1>2. fs' = fs \/ fs' = [w \in Volume |-> IF w \in Mounted THEN Unmounted(fs[w]) ELSE fs[w]]
  BY <1>1 DEF Enter
<1>3. vol' = [w \in Volume |-> IF w \in Mounted THEN [vol[w] EXCEPT !.state = "idle"] ELSE vol[w]]
  BY <1>1 DEF Enter
<1>4. fs'[v] = fs[v] /\ vol'[v] = vol[v]
  BY <1>1, <1>2, <1>3
<1>. QED BY <1>4 DEF Enter

-----------------------------------------------------------------------------
(***************************************************************************)
(* The disks                                                               *)
(***************************************************************************)
LEMMA PipeGrows ==
  ASSUME TypeOK, NEW x \in Seq(Event), sock' = sock \o x,
         UNCHANGED <<eventVec, cacheVec, net, ui>>
  PROVE  Pipe' = Pipe \o x
<1>1. PICK p, s \in Seq(Event) : p = eventVec \o Kept \o Read /\ s = sock
  BY PipeType
<1>2. Pipe = p \o s /\ Pipe' = p \o (s \o x)
  BY <1>1 DEF Pipe, Kept, Read
<1>3. p \o s \o x = p \o (s \o x)
  BY EventsAssociative, ZenonT(40)
<1>. QED BY <1>2, <1>3

\* Events of another volume are sent.
LEMMA OthersSent ==
  ASSUME TypeOK, NEW u, NEW x \in Seq(Event), \A i \in DOMAIN x : x[i].vol = u,
         Pipe' = Pipe \o x, NEW v, v # u
  PROVE  Agree(Pipe, Pipe', v)
<1>1. PICK p \in Seq(Event) : p = Pipe
  BY PipeType
<1>2. << >> \in Seq(Event) /\ \A i \in DOMAIN x : x[i].vol # v
  BY EmptySeq
<1>3. Agree(p \o << >>, p \o x \o << >>, v)
  BY <1>2, OthersSkipped
<1>4. p \o << >> = p
  BY ConcatEmptySeq
<1>5. p \o x \in Seq(Event)
  BY ConcatProperties
<1>6. p \o x \o << >> = p \o x
  BY <1>5, ConcatEmptySeq
<1>. QED BY <1>1, <1>3, <1>4, <1>6

LEMMA DiskEventsOf ==
  ASSUME NEW u \in Volume, NEW disk \in Disk
  PROVE  /\ \A i \in DOMAIN AddEvents(u, disk) : AddEvents(u, disk)[i].vol = u
         /\ \A i \in DOMAIN RemoveEvents(u, disk) : RemoveEvents(u, disk)[i].vol = u
  BY EventsOfDisk

\* The manager is not told yet.
NotTold ==
  /\ UNCHANGED <<fs, vol, work, eventVec, cacheVec, net, running, entering, lost>>
  /\ UNCHANGED <<ui, todo>>

LEMMA NotToldYet ==
  ASSUME NotTold, NEW v, Stack(v)
  PROVE  Stack(v)' /\ (Has(v)' <=> Has(v)) /\ (Announced(v)' <=> Announced(v))
<1>1. Stack(v)'
  BY DEF NotTold, Stack, InHandOf
<1>2. Has(v)' <=> Has(v)
  BY DEF NotTold, Has, InHandOf
<1>3. Announced(v)' <=> Announced(v)
  BY DEF NotTold, Announced
<1>. QED BY <1>1, <1>2, <1>3

LEMMA OtherDisk ==
  ASSUME TypeOK, NotTold, NEW u \in Volume, NEW disk \in Disk,
         NEW x \in {AddEvents(u, disk), RemoveEvents(u, disk)},
         sock' = sock \o x, NEW v, v # u, slot'[v] = slot[v], Stack(v), Served(v)
  PROVE  Stack(v)' /\ Served(v)'
<1>1. x \in Seq(Event) /\ \A i \in DOMAIN x : x[i].vol = u
  BY DiskEvents, DiskEventsOf
<1>2. Pipe' = Pipe \o x
  BY <1>1, PipeGrows DEF NotTold
<1>3. Agree(Pipe, Pipe', v)
  BY <1>1, <1>2, OthersSent
<1>4. Unconcerned(v)
  BY DEF NotTold, Unconcerned, InHandOf, Announced
<1>. QED BY <1>3, <1>4, Passed

LEMMA PlugServes ==
  ASSUME TypeOK, NotTold, NEW u \in Volume, NEW disk \in Disk, slot[u] = None,
         slot' = [slot EXCEPT ![u] = disk], sock' = sock \o AddEvents(u, disk),
         NEW v \in Volume, Stack(v), Served(v)
  PROVE  Stack(v)' /\ Served(v)'
<1>1. CASE v # u
  <2>1. slot'[v] = slot[v]
    BY <1>1 DEF TypeOK
  <2>. QED BY <1>1, <2>1, OtherDisk
<1>2. CASE v = u
  <2>1. AddEvents(u, disk) \in Seq(Event)
    BY DiskEvents
  <2>2. PICK p \in Seq(Event) : p = Pipe
    BY PipeType
  <2>3. PICK t : t = p \o AddEvents(v, disk)
    OBVIOUS
  <2>4. Pipe' = t
    BY <1>2, <2>1, <2>2, <2>3, PipeGrows DEF NotTold
  <2>5. slot'[v] = disk /\ None \in {None, disk}
    BY <1>2 DEF TypeOK
  <2>6. /\ AddsFollowed(p, v, None) => AddsFollowed(t, v, disk)
        /\ \A dev : MountFollowed(p, v, None, dev) => MountFollowed(t, v, disk, dev)
        /\ (\E i \in DOMAIN disk.devs : disk.devs[i]) => Awaited(t, v, disk)
    BY <2>3, <2>5, AddsAppended
  <2>7. AddsFollowed(p, v, None) /\ (Has(v) => MountFollowed(p, v, None, vol[v].dev))
    BY <1>2, <2>2 DEF Served
  <2>8. Stack(v)' /\ (Has(v)' <=> Has(v)) /\ vol' = vol
    BY NotToldYet DEF NotTold
  <2>9. AddsFollowed(Pipe, v, slot[v])'
    BY <2>4, <2>5, <2>6, <2>7
  <2>10. Has(v)' => MountFollowed(Pipe, v, slot[v], vol[v].dev)'
    BY <2>4, <2>5, <2>6, <2>7, <2>8
  <2>11. Readable(v)' => Awaited(Pipe, v, slot[v])'
    BY <2>4, <2>5, <2>6 DEF Readable
  <2>. QED BY <2>8, <2>9, <2>10, <2>11 DEF Served
<1>. QED BY <1>1, <1>2

LEMMA PullServes ==
  ASSUME TypeOK, NotTold, NEW u \in Volume, slot[u] # None,
         slot' = [slot EXCEPT ![u] = None], sock' = sock \o RemoveEvents(u, slot[u]),
         NEW v \in Volume, Stack(v), Served(v)
  PROVE  Stack(v)' /\ Served(v)'
<1>0. PICK disk \in Disk : disk = slot[u]
  BY DEF TypeOK, Disk
<1>1. CASE v # u
  <2>1. slot'[v] = slot[v]
    BY <1>1 DEF TypeOK
  <2>. QED BY <1>0, <1>1, <2>1, OtherDisk
<1>2. CASE v = u
  <2>1. RemoveEvents(u, disk) \in Seq(Event)
    BY DiskEvents
  <2>2. PICK p \in Seq(Event) : p = Pipe
    BY PipeType
  <2>3. PICK t : t = p \o RemoveEvents(v, disk)
    OBVIOUS
  <2>4. Pipe' = t
    BY <1>0, <1>2, <2>1, <2>2, <2>3, PipeGrows DEF NotTold
  <2>5. slot'[v] = None
    BY <1>2 DEF TypeOK
  <2>6. /\ AddsFollowed(p, v, disk) => AddsFollowed(t, v, None)
        /\ \A dev : MountFollowed(p, v, disk, dev) => MountFollowed(t, v, None, dev)
    BY <2>3, RemovesAppended
  <2>7. AddsFollowed(p, v, disk) /\ (Has(v) => MountFollowed(p, v, disk, vol[v].dev))
    BY <1>0, <1>2, <2>2 DEF Served
  <2>8. Stack(v)' /\ (Has(v)' <=> Has(v)) /\ vol' = vol
    BY NotToldYet DEF NotTold
  <2>9. AddsFollowed(Pipe, v, slot[v])'
    BY <2>4, <2>5, <2>6, <2>7
  <2>10. Has(v)' => MountFollowed(Pipe, v, slot[v], vol[v].dev)'
    BY <2>4, <2>5, <2>6, <2>7, <2>8
  <2>11. ~Readable(v)'
    BY <2>5 DEF Readable
  <2>. QED BY <2>8, <2>9, <2>10, <2>11 DEF Served
<1>. QED BY <1>1, <1>2

LEMMA KernelsServe ==
  ASSUME TypeOK, DisksApart, Kernels
  PROVE  /\ DisksApart' /\ NotTold
         /\ \A v \in Volume : Stack(v) /\ Served(v) => Stack(v)' /\ Served(v)'
<1>1. \/ \E u \in Volume, devs \in Seq(BOOLEAN), prio \in Nat : PlugIn(u, devs, prio)
      \/ \E u \in Volume : PullOut(u)
  <2>1. CASE \E v \in Local : ChangeDisk(v)
    <3>1. PICK v \in Local : ChangeDisk(v)
      BY <2>1
    <3>2. CASE PullOut(v)
      BY <3>2, LocalsAndModules
    <3>3. CASE \E d \in Disks[v] : PlugIn(v, d.devs, d.prio)
      <4>1. PICK d \in Disks[v] : PlugIn(v, d.devs, d.prio)
        BY <3>3
      <4>2. d.devs \in Seq(BOOLEAN) /\ d.prio \in Nat
        BY VolumeAssumption
      <4>. QED BY <4>1, <4>2, LocalsAndModules
    <3>. QED BY <3>1, <3>2, <3>3 DEF ChangeDisk
  <2>2. CASE \E m \in Module : SwitchModule(m) \/ DropModule(m)
    <3>1. PICK m \in Module : SwitchModule(m) \/ DropModule(m)
      BY <2>2
    <3>2. m \in Volume
      BY DEF Volume
    <3>3. CASE \E d \in Card : PlugIn(m, d, 0)
      <4>1. PICK d \in Card : PlugIn(m, d, 0)
        BY <3>3
      <4>2. d \in Seq(BOOLEAN) /\ 0 \in Nat
        BY VolumeAssumption
      <4>. QED BY <3>2, <4>1, <4>2
    <3>. QED BY <3>1, <3>2, <3>3 DEF SwitchModule, DropModule
  <2>. QED BY <2>1, <2>2 DEF Kernels
<1>2. NotTold
  <2>1. UNCHANGED <<net, manager, mode, lost>>
    <3>1. CASE \E v \in Local : ChangeDisk(v)
      BY <3>1 DEF ChangeDisk, history
    <3>2. CASE \E m \in Module : SwitchModule(m) \/ DropModule(m)
      BY <3>2 DEF SwitchModule, DropModule, history
    <3>. QED BY <3>1, <3>2 DEF Kernels
  <2>2. fs' = fs
    BY <1>1 DEF PlugIn, PullOut
  <2>. QED BY <2>1, <2>2 DEF NotTold, manager, mode
<1>3. CASE \E u \in Volume, devs \in Seq(BOOLEAN), prio \in Nat : PlugIn(u, devs, prio)
  <2>1. PICK u \in Volume, devs \in Seq(BOOLEAN), prio \in Nat : PlugIn(u, devs, prio)
    BY <1>3
  <2>2. PICK disk \in Disk :
          /\ slot[u] = None
          /\ slot' = [slot EXCEPT ![u] = disk] /\ sock' = sock \o AddEvents(u, disk)
          /\ \A w \in Volume : slot[w] # None => slot[w].name # disk.name
    BY <2>1, PlugInEffect, SMTT(30)
  <2>3. DisksApart'
    BY <2>2 DEF DisksApart, TypeOK
  <2>4. \A v \in Volume : Stack(v) /\ Served(v) => Stack(v)' /\ Served(v)'
    BY <1>2, <2>2, PlugServes
  <2>. QED BY <1>2, <2>3, <2>4
<1>4. CASE \E u \in Volume : PullOut(u)
  <2>1. PICK u \in Volume : PullOut(u)
    BY <1>4
  <2>2. /\ slot[u] # None /\ slot' = [slot EXCEPT ![u] = None]
        /\ sock' = sock \o RemoveEvents(u, slot[u])
    BY <2>1 DEF PullOut
  <2>3. DisksApart'
    BY <2>2 DEF DisksApart, TypeOK
  <2>4. \A v \in Volume : Stack(v) /\ Served(v) => Stack(v)' /\ Served(v)'
    BY <1>2, <2>2, PullServes
  <2>. QED BY <1>2, <2>3, <2>4
<1>. QED BY <1>1, <1>3, <1>4

\* coldboot: the disks that are there are announced, perhaps a second time.
LEMMA ColdbootServes ==
  ASSUME TypeOK, NEW u \in Local, Coldboot(u), NEW v \in Local, Stack(v), Served(v)
  PROVE  Stack(v)' /\ Served(v)'
<1>1. /\ UNCHANGED <<slot, fs, net, running, vol, current, eventVec, work, cacheVec, ui, lost>>
      /\ ui = "coldboot" /\ todo' = todo \ {u}
      /\ sock' = IF slot[u] = None THEN sock ELSE sock \o AddEvents(u, slot[u])
  BY DEF Coldboot, manager, history
<1>2. u \in Volume /\ v \in Volume
  BY LocalsAndModules
<1>3. Stack(v)' /\ (Has(v)' <=> Has(v)) /\ (Readable(v)' <=> Readable(v))
  BY <1>1 DEF Stack, Has, InHandOf, Readable
<1>4. CASE slot[u] = None
  <2>1. Agree(Pipe, Pipe', v)
    BY <1>1, <1>4, EventsWait
  <2>2. CASE v # u
    <3>1. Unconcerned(v)
      BY <1>1, <2>2 DEF Unconcerned, InHandOf, Announced
    <3>. QED BY <2>1, <3>1, Passed
  <2>3. CASE v = u
    <3>1. ~Readable(v)'
      BY <1>1, <1>4, <2>3 DEF Readable
    <3>2. AddsFollowed(Pipe, v, slot[v])'
      <4>1. AddsFollowed(Pipe', v, slot[v])
        BY <2>1 DEF Agree, Served
      <4>. QED BY <1>1, <4>1
    <3>3. Has(v)' => MountFollowed(Pipe, v, slot[v], vol[v].dev)'
      <4>1. Has(v) => MountFollowed(Pipe', v, slot[v], vol[v].dev)
        BY <2>1 DEF Agree, Served
      <4>. QED BY <1>1, <1>3, <4>1
    <3>. QED BY <1>3, <3>1, <3>2, <3>3 DEF Served
  <2>. QED BY <2>2, <2>3
<1>5. CASE slot[u] # None
  <2>1. PICK disk \in Disk : disk = slot[u]
    BY <1>2, <1>5 DEF TypeOK, Disk
  <2>2. AddEvents(u, disk) \in Seq(Event)
    BY <1>2, DiskEvents
  <2>3. PICK p \in Seq(Event) : p = Pipe
    BY PipeType
  <2>4. PICK t : t = p \o AddEvents(u, disk)
    OBVIOUS
  <2>5. Pipe' = t
    BY <1>1, <1>5, <2>1, <2>2, <2>3, <2>4, PipeGrows
  <2>6. CASE v # u
    <3>1. Unconcerned(v)
      BY <1>1, <2>6 DEF Unconcerned, InHandOf, Announced
    <3>2. \A i \in DOMAIN AddEvents(u, disk) : AddEvents(u, disk)[i].vol = u
      BY <1>2, DiskEventsOf
    <3>3. Agree(Pipe, Pipe', v)
      BY <2>2, <2>3, <2>4, <2>5, <2>6, <3>2, OthersSent
    <3>. QED BY <3>1, <3>3, Passed
  <2>7. CASE v = u
    <3>1. disk \in {None, disk}
      OBVIOUS
    <3>2. /\ AddsFollowed(p, v, disk) => AddsFollowed(t, v, disk)
          /\ \A dev : MountFollowed(p, v, disk, dev) => MountFollowed(t, v, disk, dev)
          /\ (\E i \in DOMAIN disk.devs : disk.devs[i]) => Awaited(t, v, disk)
      BY <1>2, <2>4, <2>7, <3>1, AddsAppended
    <3>3. AddsFollowed(p, v, disk) /\ (Has(v) => MountFollowed(p, v, disk, vol[v].dev))
      BY <2>1, <2>3, <2>7 DEF Served
    <3>4. slot'[v] = disk /\ vol'[v] = vol[v]
      BY <1>1, <2>1, <2>7
    <3>5. AddsFollowed(Pipe, v, slot[v])'
      BY <2>5, <3>2, <3>3, <3>4
    <3>6. Has(v)' => MountFollowed(Pipe, v, slot[v], vol[v].dev)'
      BY <1>3, <2>5, <3>2, <3>3, <3>4
    <3>7. Readable(v)' => Awaited(Pipe, v, slot[v])'
      BY <2>5, <3>2, <3>4 DEF Readable
    <3>. QED BY <1>3, <3>5, <3>6, <3>7 DEF Served
  <2>. QED BY <2>6, <2>7
<1>. QED BY <1>4, <1>5

-----------------------------------------------------------------------------
(***************************************************************************)
(* The worker                                                              *)
(***************************************************************************)
LEMMA FirstOf ==
  ASSUME NEW e \in Event, NEW t \in Seq(Event)
  PROVE  <<e>> \o t # << >> /\ Head(<<e>> \o t) = e /\ Tail(<<e>> \o t) = t
<1>1. PICK n \in Nat : n = Len(t)
  BY LenProperties
<1>2. PICK o \in Seq(Event) : o = <<e>> /\ Len(o) = 1 /\ o[1] = e
  <2>1. <<e>> \in Seq(Event) /\ Len(<<e>>) = 1 /\ <<e>>[1] = e
    OBVIOUS
  <2>. QED BY <2>1
<1>3. PICK s \in Seq(Event) :
        /\ s = o \o t /\ Len(s) = 1 + n
        /\ \A i \in 1..(1 + n) : s[i] = IF i <= 1 THEN o[i] ELSE t[i - 1]
  <2>1. /\ o \o t \in Seq(Event) /\ Len(o \o t) = 1 + n
        /\ \A i \in 1..(1 + n) : (o \o t)[i] = IF i <= 1 THEN o[i] ELSE t[i - 1]
    BY <1>1, <1>2, ConcatProperties
  <2>. QED BY <2>1
<1>4. s # << >>
  BY <1>3, EmptySeq
<1>5. Head(s) = e
  <2>1. s[1] = e
    BY <1>2, <1>3
  <2>2. s[1] = Head(s)
    BY <1>4, TailFacts
  <2>. QED BY <2>1, <2>2
<1>6. Tail(s) = t
  <2>1. /\ Tail(s) \in Seq(Event) /\ Len(Tail(s)) = n
        /\ \A i \in 1..n : Tail(s)[i] = s[i + 1]
    BY <1>3, <1>4, HeadTailProperties
  <2>2. \A i \in 1..n : s[i + 1] = t[i]
    BY <1>3
  <2>. QED BY <1>1, <2>1, <2>2, SeqEqual
<1>. QED BY <1>2, <1>3, <1>4, <1>5, <1>6

LEMMA FirstOfConcat ==
  ASSUME NEW q \in Seq(Event), NEW k \in Seq(Event), q # << >>
  PROVE  /\ q \o k \in Seq(Event) /\ q \o k # << >>
         /\ Head(q \o k) = Head(q) /\ Tail(q \o k) = Tail(q) \o k
<1>1. PICK e \in Event, t \in Seq(Event) : e = Head(q) /\ t = Tail(q)
  BY HeadTailProperties
<1>2. PICK o \in Seq(Event) : o = <<e>> /\ q = o \o t
  <2>1. q = <<e>> \o t /\ <<e>> \in Seq(Event)
    BY <1>1, HeadAndTail
  <2>. QED BY <2>1
<1>3. PICK z \in Seq(Event) : z = t \o k
  BY ConcatProperties
<1>4. q \o k = <<e>> \o z
  <2>1. o \o t \o k = o \o (t \o k)
    BY EventsAssociative, ZenonT(40)
  <2>. QED BY <1>2, <1>3, <2>1
<1>5. <<e>> \o z # << >> /\ Head(<<e>> \o z) = e /\ Tail(<<e>> \o z) = z
  BY FirstOf
<1>6. q \o k \in Seq(Event)
  BY ConcatProperties
<1>. QED BY <1>1, <1>3, <1>4, <1>5, <1>6

LEMMA EventTaken ==
  ASSUME TypeOK, eventVec # << >>, eventVec' = Tail(eventVec),
         UNCHANGED <<cacheVec, net, sock, ui>>
  PROVE  Pipe # << >> /\ Head(Pipe) = Head(eventVec) /\ Pipe' = Tail(Pipe)
<1>1. /\ eventVec \in Seq(Event) /\ Kept \in Seq(Event) /\ Read \in Seq(Event)
      /\ sock \in Seq(Event)
  BY PipeType
<1>2. PICK a \in Seq(Event) : a = eventVec \o Kept /\ a # << >> /\ Head(a) = Head(eventVec)
                             /\ Tail(a) = Tail(eventVec) \o Kept
  BY <1>1, FirstOfConcat
<1>3. PICK b \in Seq(Event) : b = a \o Read /\ b # << >> /\ Head(b) = Head(eventVec)
                             /\ Tail(b) = Tail(a) \o Read
  <2>1. a # << >> /\ Head(a) = Head(eventVec)
    BY <1>2
  <2>2. PICK r \in Seq(Event) : r = Read
    BY <1>1
  <2>3. /\ a \o r \in Seq(Event) /\ a \o r # << >>
        /\ Head(a \o r) = Head(a) /\ Tail(a \o r) = Tail(a) \o r
    BY <2>1, FirstOfConcat
  <2>. QED BY <2>1, <2>2, <2>3
<1>4. b \o sock # << >> /\ Head(b \o sock) = Head(eventVec) /\ Tail(b \o sock) = Tail(b) \o sock
  BY <1>1, <1>3, FirstOfConcat
<1>5. Pipe = b \o sock
  BY <1>2, <1>3 DEF Pipe
<1>6. Pipe' = Tail(eventVec) \o Kept \o Read \o sock
  BY DEF Pipe, Kept, Read
<1>. QED BY <1>2, <1>3, <1>4, <1>5, <1>6

LEMMA Quietly ==
  ASSUME NEW v, slot' = slot, vol'[v] = vol[v], fs'[v] = fs[v],
         ~InHandOf(v), ~InHandOf(v)', UNCHANGED <<ui, todo>>
  PROVE  Unconcerned(v)
  BY DEF Unconcerned, Announced

\* The event in hand, or taken, is that of another volume.
LEMMA OthersWork ==
  ASSUME TypeOK, NEW v \in Local, Stack(v), Served(v),
         TakeAdd \/ TakeRemove \/ MountVolume \/ MountFails
           \/ UnmountFirst \/ UnmountVolume \/ UnmountFails,
         ~InHandOf(v), ~InHandOf(v)',
         TakeAdd \/ TakeRemove => Head(eventVec).vol # v
  PROVE  Stack(v)' /\ Served(v)'
<1>0. v \in Volume /\ vol \in [Volume -> Vol] /\ fs \in [Volume -> Seq(Dev \cup {None})]
  BY LocalsAndModules, VolType DEF TypeOK
<1>1. CASE TakeAdd \/ TakeRemove
  <2>1. /\ eventVec # << >> /\ eventVec' = Tail(eventVec) /\ Head(eventVec).vol # v
        /\ UNCHANGED <<slot, fs, cacheVec, net, sock, ui, todo>>
    BY <1>1 DEF TakeAdd, TakeRemove, kernel, mode
  <2>2. vol'[v] = vol[v]
    BY <1>0, <1>1, <2>1 DEF TakeAdd, TakeRemove
  <2>3. Agree(Pipe, Pipe', v)
    <3>1. PICK p \in Seq(Event) : p = Pipe
      BY PipeType
    <3>2. p # << >> /\ Head(p).vol # v /\ Pipe' = Tail(p)
      BY <2>1, <3>1, EventTaken
    <3>. QED BY <3>1, <3>2, OtherTaken
  <2>4. Unconcerned(v)
    BY <2>1, <2>2, Quietly
  <2>. QED BY <2>3, <2>4, Passed
<1>2. CASE MountVolume \/ MountFails \/ UnmountFirst \/ UnmountVolume \/ UnmountFails
  <2>1. work # Idle /\ work.evt.vol # v
    <3>1. work.pc \in {"mount", "unmount"}
      BY <1>2 DEF MountVolume, MountFails, UnmountFirst, UnmountVolume, UnmountFails
    <3>. QED BY <3>1, InHand DEF InHandOf
  <2>2. UNCHANGED <<slot, eventVec, cacheVec, net, sock, ui, todo>>
    BY <1>2 DEF MountVolume, MountFails, UnmountFirst, UnmountVolume, UnmountFails, kernel, mode
  <2>3. vol'[v] = vol[v]
    BY <1>0, <1>2, <2>1 DEF MountVolume, MountFails, UnmountFirst, UnmountVolume, UnmountFails
  <2>4. fs'[v] = fs[v]
    BY <1>0, <1>2, <2>1
       DEF MountVolume, MountFails, UnmountFirst, UnmountVolume, UnmountFails, kernel
  <2>5. Unconcerned(v)
    BY <2>2, <2>3, <2>4, Quietly
  <2>6. Pipe' = Pipe
    BY <2>2 DEF Pipe, Kept, Read
  <2>. QED BY <2>5, <2>6, AgreeSame, Passed
<1>. QED BY <1>1, <1>2

\* The volume of the event at the head of the queue is v, and the worker is free.
LEMMA TakenOf ==
  ASSUME TypeOK, TakeAdd \/ TakeRemove, NEW v \in Local, Head(eventVec).vol = v, Served(v)
  PROVE  \E s \in Seq(Event), t \in Seq(Event), e \in Event, disk \in Disk \cup {None} :
           /\ Pipe = s /\ s # << >> /\ Head(s) = e /\ Tail(s) = t /\ Pipe' = t
           /\ e = Head(eventVec) /\ e.vol = v /\ ~InHandOf(v)
           /\ disk = slot[v] /\ slot' = slot /\ fs' = fs /\ UNCHANGED <<ui, todo>>
           /\ AddsFollowed(t, v, disk)
           /\ e.act = "add" => DeviceOf(disk, e.dev) \/ RemovedLater(t, 0, v, e.dev)
           /\ Has(v) => \/ MountFollowed(t, v, disk, vol[v].dev)
                        \/ e.act = "remove" /\ e.dev = vol[v].dev
           /\ Readable(v) /\ Announced(v) =>
                \/ Has(v) /\ ~RemovedBehind(t, 0, v) /\ e.act # "remove"
                \/ Awaited(t, v, disk)
                \/ e.act = "add" /\ ReadableOf(disk, e.dev) /\ ~RemovedBehind(t, 0, v)
<1>1. /\ eventVec # << >> /\ eventVec' = Tail(eventVec) /\ work.pc = "idle"
      /\ UNCHANGED <<slot, fs, cacheVec, net, sock, ui, todo>>
  BY DEF TakeAdd, TakeRemove, kernel, mode
<1>2. ~InHandOf(v)
  BY <1>1 DEF TypeOK, InHandOf
<1>3. PICK s \in Seq(Event) : s = Pipe
  BY PipeType
<1>4. s # << >> /\ Head(s) = Head(eventVec) /\ Pipe' = Tail(s)
  BY <1>1, <1>3, EventTaken
<1>5. PICK e \in Event, t \in Seq(Event) : e = Head(s) /\ t = Tail(s)
  BY <1>4, HeadTailProperties
<1>6. PICK disk \in Disk \cup {None} : disk = slot[v]
  BY LocalsAndModules DEF TypeOK, Disk
<1>7. e.vol = v /\ e = Head(eventVec)
  BY <1>4, <1>5
<1>8. /\ AddsFollowed(s, v, disk)
      /\ Has(v) => MountFollowed(s, v, disk, vol[v].dev)
      /\ Readable(v) /\ Announced(v) =>
           (Has(v) /\ ~RemovedBehind(s, 0, v)) \/ Awaited(s, v, disk)
  BY <1>3, <1>6 DEF Served
<1>9. /\ AddsFollowed(s, v, disk) => AddsFollowed(t, v, disk)
      /\ AddsFollowed(s, v, disk) /\ e.act = "add" =>
           DeviceOf(disk, e.dev) \/ RemovedLater(t, 0, v, e.dev)
      /\ \A dev : MountFollowed(s, v, disk, dev) =>
           \/ MountFollowed(t, v, disk, dev)
           \/ e.act = "remove" /\ e.dev = dev
      /\ ~RemovedBehind(s, 0, v) => ~RemovedBehind(t, 0, v) /\ e.act # "remove"
      /\ Awaited(s, v, disk) =>
           \/ Awaited(t, v, disk)
           \/ e.act = "add" /\ ReadableOf(disk, e.dev) /\ ~RemovedBehind(t, 0, v)
  <2>1. /\ AddsFollowed(s, v, disk) => AddsFollowed(Tail(s), v, disk)
        /\ AddsFollowed(s, v, disk) /\ Head(s).vol = v /\ Head(s).act = "add" =>
             DeviceOf(disk, Head(s).dev) \/ RemovedLater(Tail(s), 0, v, Head(s).dev)
        /\ \A dev : MountFollowed(s, v, disk, dev) =>
             \/ MountFollowed(Tail(s), v, disk, dev)
             \/ Head(s).vol = v /\ Head(s).act = "remove" /\ Head(s).dev = dev
        /\ ~RemovedBehind(s, 0, v) =>
             /\ ~RemovedBehind(Tail(s), 0, v)
             /\ ~(Head(s).vol = v /\ Head(s).act = "remove")
        /\ Awaited(s, v, disk) =>
             \/ Awaited(Tail(s), v, disk)
             \/ /\ Head(s).vol = v /\ Head(s).act = "add" /\ ReadableOf(disk, Head(s).dev)
                /\ ~RemovedBehind(Tail(s), 0, v)
    BY <1>4, FirstTaken
  <2>. QED BY <1>5, <1>7, <2>1
<1>. QED BY <1>1, <1>2, <1>3, <1>4, <1>5, <1>6, <1>7, <1>8, <1>9

\* The device of an event is valid: so it is readable if it is one of the disk in slot v.
LEMMA ValidIsReadable ==
  ASSUME TypeOK, DisksApart, NEW v \in Local, NEW dev, DeviceOf(slot[v], dev)
  PROVE  /\ ValidFs(dev) <=> ReadableOf(slot[v], dev)
         /\ Exists(dev)
<1>1. v \in Volume
  BY LocalsAndModules
<1>2. \A w \in Volume : slot[w] # None /\ slot[w].name = dev[1] => w = v
  BY <1>1 DEF DisksApart, DeviceOf
<1>. QED BY <1>1, <1>2 DEF ValidFs, Exists, ReadableOf, DeviceOf

LEMMA TakeAddServes ==
  ASSUME IInv, DisksApart, TakeAdd, NEW v \in Local \ lost', Head(eventVec).vol = v,
         Stack(v), Served(v)
  PROVE  Stack(v)' /\ Served(v)'
<1>0. TypeOK /\ v \in Volume /\ vol \in [Volume -> Vol]
  BY LocalsAndModules, VolType DEF IInv
<1>1. PICK t \in Seq(Event), e \in Event, disk \in Disk \cup {None} :
        /\ Pipe' = t
        /\ e = Head(eventVec) /\ e.vol = v /\ ~InHandOf(v)
        /\ disk = slot[v] /\ slot' = slot /\ fs' = fs /\ UNCHANGED <<ui, todo>>
        /\ AddsFollowed(t, v, disk)
        /\ e.act = "add" => DeviceOf(disk, e.dev) \/ RemovedLater(t, 0, v, e.dev)
        /\ Readable(v) /\ Announced(v) =>
             \/ Has(v) /\ ~RemovedBehind(t, 0, v) /\ e.act # "remove"
             \/ Awaited(t, v, disk)
             \/ e.act = "add" /\ ReadableOf(disk, e.dev) /\ ~RemovedBehind(t, 0, v)
  BY <1>0, TakenOf
<1>2. e.act = "add" /\ work.pc = "idle"
  BY <1>1 DEF TakeAdd
<1>3. /\ Readable(v)' <=> Readable(v)
      /\ Announced(v)' <=> Announced(v)
      /\ AddsFollowed(Pipe, v, slot[v])'
  BY <1>1 DEF Readable, Announced
<1>4. CASE ~ValidFs(e.dev)
  <2>1. /\ vol' = [vol EXCEPT ![v].dev = None] /\ work' = work
        /\ lost' = IF vol[v].state = "mounted" THEN lost \cup {v} ELSE lost
    BY <1>1, <1>4 DEF TakeAdd
  <2>2. vol[v].state # "mounted"
    BY <2>1
  <2>3. vol'[v].state = vol[v].state
    BY <1>0, <2>1 DEF Vol
  <2>4. ~InHandOf(v)' /\ ~Has(v) /\ ~Has(v)'
    BY <1>1, <2>1, <2>2, <2>3 DEF InHandOf, Has
  <2>5. Stack(v)'
    BY <1>1, <2>2, <2>3, <2>4 DEF Stack
  <2>6. ~ReadableOf(disk, e.dev)
    BY <1>0, <1>1, <1>4, ValidIsReadable DEF ReadableOf
  <2>7. Readable(v)' /\ Announced(v)' => Awaited(Pipe, v, slot[v])'
    BY <1>1, <1>3, <2>4, <2>6
  <2>. QED BY <1>3, <2>4, <2>5, <2>7 DEF Served
<1>5. CASE ValidFs(e.dev)
  <2>1. /\ vol' = [vol EXCEPT ![v].dev = e.dev,
                              ![v].state = IF vol[v].state = "mounted" THEN "unmounting" ELSE @]
        /\ work' = [pc |-> IF vol[v].state = "mounted" THEN "unmount" ELSE "mount", evt |-> e]
    BY <1>1, <1>5 DEF TakeAdd
  <2>2. /\ vol'[v].dev = e.dev
        /\ vol'[v].state = IF vol[v].state = "mounted" THEN "unmounting" ELSE vol[v].state
    BY <1>0, <2>1 DEF Vol
  <2>3. InHandOf(v)' /\ work'.evt.act = "add"
    BY <1>1, <1>2, <2>1 DEF InHandOf, Idle
  <2>4. Has(v)'
    BY <2>3 DEF Has
  <2>5. Stack(v)'
    <3>1. vol[v].state # "unmounting"
      BY <1>1, <1>2 DEF IInv, SaveInv, UnmountingInHand
    <3>2. vol'[v].state # "mounted"
      BY <2>2
    <3>3. vol'[v].state = "unmounting" => \E dev : fs'[v] = <<dev>>
      BY <1>1, <2>2, <3>1 DEF Stack
    <3>4. vol'[v].state \notin {"mounted", "unmounting"} => fs'[v] = << >>
      BY <1>1, <2>2 DEF Stack
    <3>. QED BY <2>3, <3>2, <3>3, <3>4 DEF Stack
  <2>6. MountFollowed(Pipe, v, slot[v], vol[v].dev)'
    <3>1. CASE DeviceOf(disk, e.dev)
      <4>1. ReadableOf(disk, e.dev)
        BY <1>0, <1>1, <1>5, <3>1, ValidIsReadable
      <4>. QED BY <1>1, <2>2, <4>1 DEF MountFollowed
    <3>2. CASE RemovedLater(t, 0, v, e.dev)
      BY <1>1, <2>2, <3>2 DEF MountFollowed
    <3>. QED BY <1>1, <1>2, <3>1, <3>2
  <2>7. Readable(v)' /\ Announced(v)' =>
          ~RemovedBehind(Pipe, 0, v)' \/ Awaited(Pipe, v, slot[v])'
    BY <1>1, <1>3
  <2>. QED BY <1>3, <2>4, <2>5, <2>6, <2>7 DEF Served
<1>. QED BY <1>4, <1>5

LEMMA TakeRemoveServes ==
  ASSUME IInv, TakeRemove, NEW v \in Local \ lost', Head(eventVec).vol = v,
         Stack(v), Served(v)
  PROVE  Stack(v)' /\ Served(v)'
<1>0. TypeOK /\ v \in Volume /\ vol \in [Volume -> Vol]
  BY LocalsAndModules, VolType DEF IInv
<1>1. PICK t \in Seq(Event), e \in Event, disk \in Disk \cup {None} :
        /\ Pipe' = t
        /\ e = Head(eventVec) /\ e.vol = v /\ ~InHandOf(v)
        /\ disk = slot[v] /\ slot' = slot /\ fs' = fs /\ UNCHANGED <<ui, todo>>
        /\ AddsFollowed(t, v, disk)
        /\ Has(v) => \/ MountFollowed(t, v, disk, vol[v].dev)
                     \/ e.act = "remove" /\ e.dev = vol[v].dev
        /\ Readable(v) /\ Announced(v) =>
             \/ Has(v) /\ ~RemovedBehind(t, 0, v) /\ e.act # "remove"
             \/ Awaited(t, v, disk)
             \/ e.act = "add" /\ ReadableOf(disk, e.dev) /\ ~RemovedBehind(t, 0, v)
  BY <1>0, TakenOf
<1>2. e.act = "remove"
  BY <1>1 DEF TakeRemove
<1>3. /\ Readable(v)' <=> Readable(v)
      /\ Announced(v)' <=> Announced(v)
      /\ AddsFollowed(Pipe, v, slot[v])'
  BY <1>1 DEF Readable, Announced
<1>4. Readable(v)' /\ Announced(v)' => Awaited(Pipe, v, slot[v])'
  BY <1>1, <1>2, <1>3
<1>5. CASE (e.src = "kernel" => vol[v].dev = e.dev) /\ vol[v].state = "mounted"
  <2>1. /\ vol' = [vol EXCEPT ![v].state = "unmounting"]
        /\ work' = [pc |-> "unmount", evt |-> e]
    BY <1>1, <1>5 DEF TakeRemove
  <2>2. vol'[v].state = "unmounting"
    BY <1>0, <2>1 DEF Vol
  <2>3. ~Has(v)'
    BY <1>2, <2>1, <2>2 DEF Has
  <2>4. Stack(v)'
    <3>1. \E dev : fs'[v] = <<dev>>
      BY <1>1, <1>5 DEF Stack
    <3>. QED BY <2>1, <2>2, <3>1 DEF Stack
  <2>. QED BY <1>3, <1>4, <2>3, <2>4 DEF Served
<1>6. CASE ~((e.src = "kernel" => vol[v].dev = e.dev) /\ vol[v].state = "mounted")
  <2>1. vol' = vol /\ work' = work
    BY <1>1, <1>6 DEF TakeRemove
  <2>2. Stack(v)' /\ (Has(v)' <=> Has(v))
    BY <1>1, <2>1 DEF Stack, Has, InHandOf
  <2>3. Has(v) => e.dev # vol[v].dev
    BY <1>1, <1>6 DEF Has
  <2>4. Has(v)' => MountFollowed(Pipe, v, slot[v], vol[v].dev)'
    <3>1. Has(v) => MountFollowed(t, v, disk, vol[v].dev)
      BY <1>1, <2>3
    <3>. QED BY <1>1, <2>1, <2>2, <3>1
  <2>. QED BY <1>3, <1>4, <2>2, <2>4 DEF Served
<1>. QED BY <1>5, <1>6

\* The calls of the worker: what they do to the volume in hand.
LEMMA InHandWork ==
  ASSUME TypeOK, NEW v \in Local, InHandOf(v),
         MountVolume \/ MountFails \/ UnmountFirst \/ UnmountVolume \/ UnmountFails
  PROVE  /\ v \in Volume /\ vol \in [Volume -> Vol] /\ fs \in [Volume -> Seq(Dev \cup {None})]
         /\ work # Idle /\ work.evt.vol = v /\ work.evt \in Event
         /\ UNCHANGED <<slot, ui, todo>> /\ Pipe' = Pipe
         /\ Readable(v)' <=> Readable(v)
         /\ Announced(v)' <=> Announced(v)
<1>1. UNCHANGED <<slot, eventVec, cacheVec, net, sock, ui, todo>>
  BY DEF MountVolume, MountFails, UnmountFirst, UnmountVolume, UnmountFails, kernel, mode
<1>2. Pipe' = Pipe
  BY <1>1 DEF Pipe, Kept, Read
<1>3. v \in Volume /\ vol \in [Volume -> Vol] /\ fs \in [Volume -> Seq(Dev \cup {None})]
  BY LocalsAndModules, VolType DEF TypeOK
<1>4. work # Idle /\ work.evt.vol = v /\ work.evt \in Event
  BY DEF InHandOf, TypeOK
<1>5. (Readable(v)' <=> Readable(v)) /\ (Announced(v)' <=> Announced(v))
  BY <1>1 DEF Readable, Announced
<1>. QED BY <1>1, <1>2, <1>3, <1>4, <1>5

LEMMA MountVolumeServes ==
  ASSUME IInv, MountVolume, NEW v \in Local \ lost', InHandOf(v), Stack(v), Served(v)
  PROVE  Stack(v)' /\ Served(v)'
<1>1. /\ v \in Volume /\ vol \in [Volume -> Vol] /\ fs \in [Volume -> Seq(Dev \cup {None})]
      /\ work # Idle /\ work.evt.vol = v /\ work.pc = "mount" /\ slot' = slot /\ Pipe' = Pipe
      /\ Readable(v)' <=> Readable(v)
      /\ Announced(v)' <=> Announced(v)
  BY InHandWork DEF IInv, MountVolume
<1>2. work.evt.act = "add" /\ vol[v].state \notin {"mounted", "unmounting"}
  BY <1>1 DEF Stack, IInv, SaveInv, UnmountingInHand
<1>3. /\ fs' = [fs EXCEPT ![v] = <<vol[v].dev>> \o @]
      /\ vol' = [vol EXCEPT ![v].state = "mounted",
                            ![v].prio = IF v \in Local THEN work.evt.prio ELSE @]
      /\ work' = Idle
  BY <1>1 DEF MountVolume
<1>4. vol'[v].state = "mounted" /\ vol'[v].dev = vol[v].dev
  BY <1>1, <1>3 DEF Vol
<1>5. fs'[v] = <<vol[v].dev>>
  <2>1. fs[v] = << >>
    BY <1>2 DEF Stack
  <2>2. <<vol[v].dev>> \in Seq(Dev \cup {None})
    <3>1. vol[v].dev \in Dev \cup {None}
      BY <1>1 DEF Vol
    <3>. QED BY <3>1
  <2>3. <<vol[v].dev>> \o << >> = <<vol[v].dev>>
    BY <2>2, ConcatEmptySeq
  <2>. QED BY <1>1, <1>3, <2>1, <2>3
<1>6. ~InHandOf(v)' /\ Has(v)' /\ Has(v)
  BY <1>1, <1>2, <1>3, <1>4 DEF InHandOf, Has
<1>7. Stack(v)'
  BY <1>4, <1>5, <1>6 DEF Stack
<1>8. AddsFollowed(Pipe, v, slot[v])' /\ MountFollowed(Pipe, v, slot[v], vol[v].dev)'
  BY <1>1, <1>4, <1>6 DEF Served
<1>9. Readable(v)' /\ Announced(v)' =>
        ~RemovedBehind(Pipe, 0, v)' \/ Awaited(Pipe, v, slot[v])'
  BY <1>1, <1>6 DEF Served
<1>. QED BY <1>6, <1>7, <1>8, <1>9 DEF Served

LEMMA MountFailsServes ==
  ASSUME IInv, DisksApart, MountFails, NEW v \in Local \ lost', InHandOf(v), Stack(v), Served(v)
  PROVE  Stack(v)' /\ Served(v)'
<1>1. /\ v \in Volume /\ vol \in [Volume -> Vol]
      /\ work # Idle /\ work.evt.vol = v /\ work.pc = "mount" /\ slot' = slot /\ Pipe' = Pipe
      /\ Readable(v)' <=> Readable(v)
      /\ Announced(v)' <=> Announced(v)
  BY InHandWork DEF IInv, MountFails
<1>2. vol[v].state \notin {"mounted", "unmounting"}
  BY <1>1 DEF Stack, IInv, SaveInv, UnmountingInHand
<1>3. /\ vol' = [vol EXCEPT ![v].state = "nomedia"] /\ work' = Idle /\ fs' = fs
      /\ lost' = IF Exists(vol[v].dev) THEN lost \cup {v} ELSE lost
  BY <1>1 DEF MountFails, kernel
<1>4. vol'[v].state = "nomedia"
  BY <1>1, <1>3 DEF Vol
<1>5. ~InHandOf(v)' /\ ~Has(v)'
  BY <1>3, <1>4 DEF InHandOf, Has
<1>6. Stack(v)'
  BY <1>2, <1>3, <1>4, <1>5 DEF Stack
<1>7. AddsFollowed(Pipe, v, slot[v])'
  BY <1>1 DEF Served
<1>8. ~(Has(v) /\ ~RemovedBehind(Pipe, 0, v))
  <2>1. ~DeviceOf(slot[v], vol[v].dev)
    BY <1>3, ValidIsReadable DEF IInv
  <2>2. Has(v) => RemovedLater(Pipe, 0, v, vol[v].dev)
    BY <2>1 DEF Served, MountFollowed, ReadableOf
  <2>3. RemovedLater(Pipe, 0, v, vol[v].dev) => RemovedBehind(Pipe, 0, v)
    BY DEF RemovedLater, RemovedBehind
  <2>. QED BY <2>2, <2>3
<1>9. Readable(v)' /\ Announced(v)' => Awaited(Pipe, v, slot[v])'
  BY <1>1, <1>8 DEF Served
<1>. QED BY <1>5, <1>6, <1>7, <1>9 DEF Served

\* umount takes the only device from the path.
LEMMA OneUnmounted ==
  ASSUME NEW stack, NEW dev, stack = <<dev>>
  PROVE  Unmounted(stack) = << >>
  BY DEF Unmounted

LEMMA UnmountFirstServes ==
  ASSUME IInv, UnmountFirst, NEW v \in Local \ lost', InHandOf(v), Stack(v), Served(v)
  PROVE  Stack(v)' /\ Served(v)'
<1>1. /\ v \in Volume /\ vol \in [Volume -> Vol] /\ fs \in [Volume -> Seq(Dev \cup {None})]
      /\ work # Idle /\ work.evt.vol = v /\ work.pc = "unmount" /\ work.evt.act = "add"
      /\ work.evt \in Event /\ slot' = slot /\ Pipe' = Pipe
      /\ Readable(v)' <=> Readable(v)
      /\ Announced(v)' <=> Announced(v)
  BY InHandWork DEF IInv, UnmountFirst
<1>2. vol[v].state = "unmounting"
  BY <1>1 DEF IInv, SaveInv, UnmountingInHand
<1>3. /\ vol' = [vol EXCEPT ![v].state = "init"]
      /\ work' = [work EXCEPT !.pc = "mount"]
      /\ fs' = [fs EXCEPT ![v] = Unmounted(@)]
  BY <1>1 DEF UnmountFirst
<1>4. vol'[v].state = "init" /\ vol'[v].dev = vol[v].dev
  BY <1>1, <1>3 DEF Vol
<1>5. fs'[v] = << >>
  <2>1. PICK dev : fs[v] = <<dev>>
    BY <1>2 DEF Stack
  <2>2. Unmounted(fs[v]) = << >>
    BY <2>1, OneUnmounted
  <2>. QED BY <1>1, <1>3, <2>2
<1>6. work'.pc = "mount" /\ work'.evt = work.evt /\ InHandOf(v)' /\ Has(v)' /\ Has(v)
  <2>1. work \in [pc : {"mount", "unmount"}, evt : Event]
    BY <1>1 DEF IInv, TypeOK
  <2>2. work'.pc = "mount" /\ work'.evt = work.evt
    BY <1>3, <2>1
  <2>3. InHandOf(v)'
    BY <1>1, <2>2 DEF InHandOf, Idle
  <2>. QED BY <1>1, <2>2, <2>3 DEF Has
<1>7. Stack(v)'
  BY <1>1, <1>4, <1>5, <1>6 DEF Stack
<1>8. AddsFollowed(Pipe, v, slot[v])' /\ MountFollowed(Pipe, v, slot[v], vol[v].dev)'
  BY <1>1, <1>4, <1>6 DEF Served
<1>9. Readable(v)' /\ Announced(v)' =>
        ~RemovedBehind(Pipe, 0, v)' \/ Awaited(Pipe, v, slot[v])'
  BY <1>1, <1>6 DEF Served
<1>. QED BY <1>6, <1>7, <1>8, <1>9 DEF Served

LEMMA UnmountVolumeServes ==
  ASSUME IInv, UnmountVolume, NEW v \in Local \ lost', InHandOf(v), Stack(v), Served(v)
  PROVE  Stack(v)' /\ Served(v)'
<1>1. /\ v \in Volume /\ vol \in [Volume -> Vol] /\ fs \in [Volume -> Seq(Dev \cup {None})]
      /\ work # Idle /\ work.evt.vol = v /\ work.pc = "unmount" /\ work.evt.act = "remove"
      /\ slot' = slot /\ Pipe' = Pipe
      /\ Readable(v)' <=> Readable(v)
      /\ Announced(v)' <=> Announced(v)
  BY InHandWork DEF IInv, UnmountVolume
<1>2. vol[v].state = "unmounting"
  BY <1>1 DEF IInv, SaveInv, UnmountingInHand
<1>3. /\ vol' = [vol EXCEPT ![v].state = "init",
                            ![v].prio = IF v = current THEN 0
                                        ELSE IF v \in Local THEN work.evt.prio ELSE @]
      /\ work' = Idle /\ fs' = [fs EXCEPT ![v] = Unmounted(@)]
  BY <1>1 DEF UnmountVolume
<1>4. vol'[v].state = "init"
  BY <1>1, <1>3 DEF Vol
<1>5. fs'[v] = << >>
  <2>1. PICK dev : fs[v] = <<dev>>
    BY <1>2 DEF Stack
  <2>2. Unmounted(fs[v]) = << >>
    BY <2>1, OneUnmounted
  <2>. QED BY <1>1, <1>3, <2>2
<1>6. ~InHandOf(v)' /\ ~Has(v)' /\ ~Has(v)
  BY <1>1, <1>2, <1>3, <1>4 DEF InHandOf, Has
<1>7. Stack(v)'
  BY <1>4, <1>5, <1>6 DEF Stack
<1>8. AddsFollowed(Pipe, v, slot[v])'
  BY <1>1 DEF Served
<1>9. Readable(v)' /\ Announced(v)' => Awaited(Pipe, v, slot[v])'
  BY <1>1, <1>6 DEF Served
<1>. QED BY <1>6, <1>7, <1>8, <1>9 DEF Served

LEMMA WorkerServes ==
  ASSUME IInv, DisksApart, Worker, NEW v \in Local \ lost', Stack(v), Served(v)
  PROVE  Stack(v)' /\ Served(v)'
<1>1. TypeOK
  BY DEF IInv
<1>2. CASE TakeAdd \/ TakeRemove
  <2>1. CASE Head(eventVec).vol = v
    BY <1>2, <2>1, TakeAddServes, TakeRemoveServes
  <2>2. CASE Head(eventVec).vol # v
    <3>1. ~InHandOf(v)
      BY <1>1, <1>2 DEF TakeAdd, TakeRemove, TypeOK, InHandOf
    <3>2. ~InHandOf(v)'
      <4>1. work' = work \/ work'.evt = Head(eventVec)
        BY <1>2 DEF TakeAdd, TakeRemove
      <4>. QED BY <2>2, <3>1, <4>1 DEF InHandOf
    <3>. QED BY <1>1, <1>2, <2>2, <3>1, <3>2, OthersWork
  <2>. QED BY <2>1, <2>2
<1>3. CASE MountVolume \/ MountFails \/ UnmountFirst \/ UnmountVolume \/ UnmountFails
  <2>0. work \in [pc : {"mount", "unmount"}, evt : Event]
    BY <1>1, <1>3, InHand
       DEF MountVolume, MountFails, UnmountFirst, UnmountVolume, UnmountFails
  <2>1. CASE InHandOf(v)
    <3>1. ~UnmountFails
      BY <2>1 DEF UnmountFails, InHandOf
    <3>. QED BY <1>3, <2>1, <3>1, MountVolumeServes, MountFailsServes, UnmountFirstServes,
                UnmountVolumeServes
  <2>2. CASE ~InHandOf(v)
    <3>1. work'.pc = "idle" \/ work'.evt = work.evt
      BY <1>3, <2>0
         DEF MountVolume, MountFails, UnmountFirst, UnmountVolume, UnmountFails, Idle
    <3>2. work # Idle
      BY <2>0 DEF Idle
    <3>3. TypeOK'
      BY <1>1, WorkerType
    <3>4. ~InHandOf(v)'
      BY <2>2, <3>1, <3>2, <3>3 DEF InHandOf, TypeOK
    <3>5. ~TakeAdd /\ ~TakeRemove
      BY <2>0 DEF TakeAdd, TakeRemove
    <3>. QED BY <1>1, <1>3, <2>2, <3>4, <3>5, OthersWork
  <2>. QED BY <2>1, <2>2
<1>. QED BY <1>2, <1>3 DEF Worker

-----------------------------------------------------------------------------
(***************************************************************************)
(* Every step                                                              *)
(***************************************************************************)
LEMMA ListenerServes ==
  ASSUME TypeOK, Phases, Listener, NEW v \in Local \ lost', Stack(v), Served(v)
  PROVE  Stack(v)' /\ Served(v)'
<1>1. UNCHANGED <<slot, fs, vol, work, ui, todo>> /\ lost \subseteq lost'
  BY DEF Listener, ReadEvent, CacheEvent, kernel, manager, mode
<1>2. Unconcerned(v)
  BY <1>1 DEF Unconcerned, InHandOf, Announced
<1>3. Agree(Pipe, Pipe', v)
  <2>1. CASE ReadEvent /\ ~running
    BY <2>1, ReadDrops
  <2>2. CASE ReadEvent /\ running /\ entering
    BY <2>2, ReadGoesOn, AgreeSame
  <2>3. CASE ReadEvent /\ running /\ ~entering
    BY <1>1, <2>3, ReadPosts
  <2>4. CASE CacheEvent
    BY <2>4, CachePasses
  <2>. QED BY <2>1, <2>2, <2>3, <2>4 DEF Listener
<1>. QED BY <1>2, <1>3, Passed

\* When the listener starts, a slot with nothing to announce is empty.
LEMMA ListenServes ==
  ASSUME Listen, NEW v \in Local, Stack(v), Served(v)
  PROVE  Stack(v)' /\ Served(v)'
<1>1. /\ UNCHANGED <<slot, fs, vol, work, eventVec, cacheVec, net, sock>>
      /\ ui = "start" /\ ui' = "coldboot" /\ todo' = {u \in Local : slot[u] # None}
  BY DEF Listen, kernel, manager
<1>2. Pipe' = Pipe
  BY <1>1 DEF Pipe, Kept, Read
<1>3. Stack(v)' /\ (Has(v)' <=> Has(v))
  BY <1>1 DEF Stack, Has, InHandOf
<1>4. AddsFollowed(Pipe, v, slot[v])'
      /\ (Has(v)' => MountFollowed(Pipe, v, slot[v], vol[v].dev)')
  BY <1>1, <1>2, <1>3 DEF Served
<1>5. ~(Readable(v)' /\ Announced(v)')
  BY <1>1 DEF Readable, Announced
<1>. QED BY <1>3, <1>4, <1>5 DEF Served

\* The steps of the UI thread, once every disk has been announced.
LEMMA SwitchServes ==
  ASSUME TypeOK, Phases, StartWorkThread \/ Enter \/ SwitchOn \/ Exit \/ SwitchOff,
         NEW v \in Local \ lost', Stack(v), Served(v)
  PROVE  Stack(v)' /\ Served(v)'
<1>1. CASE Enter
  <2>1. /\ vol'[v] = vol[v] /\ fs'[v] = fs[v] /\ ui = "normal" /\ ui' = "clear"
        /\ UNCHANGED <<slot, sock, net, eventVec, work, cacheVec, todo>>
    BY <1>1, EnterLeavesLocals
  <2>2. Unconcerned(v)
    BY <2>1 DEF Unconcerned, InHandOf, Announced
  <2>3. Agree(Pipe, Pipe', v)
    BY <2>1, EventsWait
  <2>. QED BY <2>2, <2>3, Passed
<1>2. CASE StartWorkThread \/ SwitchOn \/ Exit \/ SwitchOff
  <2>1. UNCHANGED <<slot, fs, vol, work, net, sock>>
    BY <1>2 DEF StartWorkThread, SwitchOn, ClearAndPowerOn, GiveUp, Flush, FlushClears, EndEnter,
       Exit, SwitchOff, CacheRemoval, EndExit, kernel, manager
  <2>2. (ui = "coldboot" /\ todo = {}) \/ ui \notin {"start", "coldboot"}
    BY <1>2 DEF StartWorkThread, SwitchOn, ClearAndPowerOn, GiveUp, Flush, FlushClears, EndEnter,
       Exit, SwitchOff, CacheRemoval, EndExit
  <2>3. Unconcerned(v)
    BY <2>1, <2>2 DEF Unconcerned, InHandOf, Announced
  <2>4. Agree(Pipe, Pipe', v)
    <3>1. CASE Flush
      BY <3>1, FlushPasses
    <3>2. CASE FlushClears
      BY <3>2, FlushClearsPasses
    <3>3. CASE ClearAndPowerOn
      BY <3>3, PowerOnPasses
    <3>4. CASE \E m \in Module : CacheRemoval(m)
      BY <3>4, RemovalPasses
    <3>5. CASE StartWorkThread \/ GiveUp \/ EndEnter \/ Exit \/ EndExit
      <4>1. UNCHANGED <<eventVec, cacheVec>> /\ ui # "flushed" /\ ui' # "flushed"
        BY <3>5 DEF StartWorkThread, GiveUp, EndEnter, Exit, EndExit, manager
      <4>. QED BY <2>1, <4>1, EventsWait
    <3>. QED BY <1>2, <3>1, <3>2, <3>3, <3>4, <3>5 DEF SwitchOn, SwitchOff
  <2>. QED BY <2>3, <2>4, Passed
<1>. QED BY <1>1, <1>2

\* The cache is left with events that do not matter only.
LEMMA CacheLeft ==
  ASSUME UNCHANGED cacheVec, lost' = lost \cup Cached
  PROVE  \A i \in DOMAIN cacheVec' : cacheVec'[i].vol \in lost'
  BY DEF Cached

LEMMA LastOrBefore ==
  ASSUME NEW n \in Nat, NEW i \in 1..(n + 1)
  PROVE  i = n + 1 \/ i \in 1..n
  OBVIOUS

LEMMA CacheAppended ==
  ASSUME TypeOK, NEW e \in Event, cacheVec' = Append(cacheVec, e), NEW S,
         e.vol \in S, \A i \in DOMAIN cacheVec : cacheVec[i].vol \in S
  PROVE  \A i \in DOMAIN cacheVec' : cacheVec'[i].vol \in S
<1>1. PICK c \in Seq(Event) : c = cacheVec
  BY DEF TypeOK
<1>2. PICK n \in Nat : n = Len(c) /\ DOMAIN c = 1..n
  BY <1>1, LenProperties
<1>3. /\ Append(c, e) \in Seq(Event) /\ Len(Append(c, e)) = n + 1
      /\ \A i \in 1..n : Append(c, e)[i] = c[i]
      /\ Append(c, e)[n + 1] = e
  BY <1>2, AppendProperties
<1>4. DOMAIN Append(c, e) = 1..(n + 1)
  BY <1>3, LenProperties
<1>5. ASSUME NEW i \in 1..(n + 1)
      PROVE  Append(c, e)[i].vol \in S
  <2>1. CASE i = n + 1
    BY <1>3, <2>1
  <2>2. CASE i \in 1..n
    BY <1>1, <1>2, <1>3, <2>2
  <2>. QED BY <2>1, <2>2, LastOrBefore
<1>. QED BY <1>1, <1>4, <1>5

LEMMA PhasesNext ==
  ASSUME TypeOK, Phases, Next
  PROVE  Phases'
<1>1. CASE UNCHANGED <<cacheVec, entering, ui, running>> /\ lost \subseteq lost'
  BY <1>1 DEF Phases
<1>2. CASE Kernels \/ ReadEvent \/ Worker \/ \E v \in Local : Coldboot(v)
  <2>1. UNCHANGED <<cacheVec, entering, ui, running>>
    <3>1. CASE Kernels
      BY <3>1 DEF Kernels, ChangeDisk, SwitchModule, DropModule, manager, mode
    <3>2. CASE ReadEvent \/ \E v \in Local : Coldboot(v)
      BY <3>2 DEF ReadEvent, Coldboot, manager, mode
    <3>3. CASE Worker
      BY <3>3 DEF Worker, TakeAdd, TakeRemove, MountVolume, MountFails, UnmountFirst,
         UnmountVolume, UnmountFails, mode
    <3>. QED BY <1>2, <3>1, <3>2, <3>3
  <2>2. lost \subseteq lost'
    <3>1. CASE Kernels
      BY <3>1 DEF Kernels, ChangeDisk, SwitchModule, DropModule, history
    <3>2. CASE ReadEvent \/ \E v \in Local : Coldboot(v)
      BY <3>2 DEF ReadEvent, Coldboot, history
    <3>3. CASE Worker
      BY <3>3 DEF Worker, TakeAdd, TakeRemove, MountVolume, MountFails, UnmountFirst,
         UnmountVolume, UnmountFails, history
    <3>. QED BY <1>2, <3>1, <3>2, <3>3
  <2>. QED BY <1>1, <2>1, <2>2
<1>3. CASE CacheEvent
  <2>1. /\ net # None /\ cacheVec' = Append(cacheVec, net)
        /\ lost' = IF entering /\ ui # "flushed" THEN lost ELSE lost \cup {net.vol}
        /\ UNCHANGED <<entering, ui, running>>
    BY <1>3 DEF CacheEvent, manager
  <2>2. net \in Event
    BY <2>1 DEF TypeOK
  <2>3. ~entering => \A i \in DOMAIN cacheVec' : cacheVec'[i].vol \in Module \cup lost'
    <3>1. ASSUME ~entering
          PROVE  /\ net.vol \in Module \cup lost'
                 /\ \A i \in DOMAIN cacheVec : cacheVec[i].vol \in Module \cup lost'
      BY <2>1, <3>1 DEF Phases
    <3>. QED BY <2>1, <2>2, <3>1, CacheAppended
  <2>. QED BY <2>1, <2>3 DEF Phases
<1>4. CASE Listen \/ StartWorkThread \/ Exit \/ EndExit
  <2>1. /\ UNCHANGED <<cacheVec, entering, lost>>
        /\ ui \in {"start", "coldboot", "inside", "leave"}
        /\ \/ ui' \in {"normal", "exit"}
           \/ ui = "start" /\ ui' = "coldboot" /\ running' = running
    BY <1>4 DEF Listen, StartWorkThread, Exit, EndExit, manager, history
  <2>2. ~entering
    BY <2>1 DEF Phases
  <2>. QED BY <2>1, <2>2 DEF Phases
<1>5. CASE Enter
  <2>1. entering' = TRUE /\ ui' = "clear"
    BY <1>5 DEF Enter
  <2>. QED BY <2>1 DEF Phases
<1>6. CASE ClearAndPowerOn \/ FlushClears
  <2>1. /\ cacheVec' = << >> /\ UNCHANGED <<entering, running>>
        /\ \/ ui = "clear" /\ ui' = "check"
           \/ ui = "flushed" /\ ui' = "wait"
           \/ ui = "exiting" /\ ui' = "leave"
    BY <1>6 DEF ClearAndPowerOn, FlushClears, manager
  <2>. QED BY <2>1 DEF Phases
<1>7. CASE Flush
  <2>1. /\ UNCHANGED <<cacheVec, entering, running, lost>>
        /\ \/ ui = "check" /\ ui' = "flushed"
           \/ ui = "exit" /\ ui' = "exiting"
    BY <1>7 DEF Flush, history
  <2>. QED BY <2>1 DEF Phases
<1>8. CASE GiveUp \/ EndEnter
  <2>1. /\ UNCHANGED <<cacheVec, running>>
        /\ \/ ui = "check" /\ ui' = "clear" /\ UNCHANGED <<entering, lost>>
           \/ ui' = "inside" /\ entering' = FALSE /\ lost' = lost \cup Cached
    BY <1>8 DEF GiveUp, EndEnter, manager, history
  <2>2. CASE ui' = "inside" /\ entering' = FALSE /\ lost' = lost \cup Cached
    <3>1. \A i \in DOMAIN cacheVec' : cacheVec'[i].vol \in lost'
      BY <2>1, <2>2, CacheLeft
    <3>. QED BY <2>2, <3>1 DEF Phases
  <2>. QED BY <2>1, <2>2 DEF Phases
<1>9. CASE \E m \in Module : CacheRemoval(m)
  <2>1. PICK m \in Module : CacheRemoval(m)
    BY <1>9
  <2>2. PICK e : e = [act |-> "remove", src |-> "app", vol |-> m, dev |-> vol[m].dev, prio |-> 0]
    OBVIOUS
  <2>3. /\ cacheVec' = Append(cacheVec, e) /\ ui = "exit"
        /\ UNCHANGED <<entering, running, lost, ui>>
    BY <2>1, <2>2 DEF CacheRemoval, manager, history
  <2>4. e \in Event /\ e.vol \in Module \cup lost
    <3>1. m \in Volume /\ vol[m].dev \in Dev \cup {None}
      BY DEF Volume, TypeOK
    <3>. QED BY <2>2, <3>1 DEF Event
  <2>5. ~entering
    BY <2>3 DEF Phases
  <2>6. \A i \in DOMAIN cacheVec : cacheVec[i].vol \in Module \cup lost
    BY <2>5 DEF Phases
  <2>7. \A i \in DOMAIN cacheVec' : cacheVec'[i].vol \in Module \cup lost
    BY <2>3, <2>4, <2>6, CacheAppended
  <2>. QED BY <2>3, <2>5, <2>7 DEF Phases
<1>. QED BY <1>2, <1>3, <1>4, <1>5, <1>6, <1>7, <1>8, <1>9
         DEF Next, Listener, Start, SwitchOn, SwitchOff

LEMMA LostGrows ==
  ASSUME Next
  PROVE  lost \subseteq lost'
<1>1. CASE Kernels \/ Listener
  BY <1>1 DEF Kernels, ChangeDisk, SwitchModule, DropModule, Listener, ReadEvent, CacheEvent,
     history
<1>2. CASE Worker
  BY <1>2 DEF Worker, TakeAdd, TakeRemove, MountVolume, MountFails, UnmountFirst, UnmountVolume,
     UnmountFails, history
<1>3. CASE Start \/ Enter \/ SwitchOn \/ Exit \/ SwitchOff
  BY <1>3 DEF Start, Listen, Coldboot, StartWorkThread, Enter, SwitchOn, ClearAndPowerOn, GiveUp,
     Flush, FlushClears, EndEnter, Exit, SwitchOff, CacheRemoval, EndExit, history
<1>. QED BY <1>1, <1>2, <1>3 DEF Next

LEMMA SettledNext ==
  ASSUME IInv, SettledInv, [Next]_vars
  PROVE  SettledInv'
<1>1. CASE Next
  <2>1. Phases' /\ lost \subseteq lost' /\ TypeOK /\ DisksApart /\ Phases
    BY <1>1, PhasesNext, LostGrows DEF IInv, SettledInv
  <2>2. DisksApart'
    <3>1. CASE Kernels
      BY <2>1, <3>1, KernelsServe
    <3>2. CASE ~Kernels
      <4>1. slot' = slot
        <5>1. CASE Listener \/ Start \/ Enter
          BY <5>1 DEF Listener, ReadEvent, CacheEvent, Start, Listen, Coldboot, StartWorkThread,
             Enter, kernel
        <5>2. CASE Worker
          BY <5>2 DEF Worker, TakeAdd, TakeRemove, MountVolume, MountFails, UnmountFirst,
             UnmountVolume, UnmountFails, kernel
        <5>3. CASE SwitchOn \/ Exit \/ SwitchOff
          BY <5>3 DEF SwitchOn, ClearAndPowerOn, GiveUp, Flush, FlushClears, EndEnter, Exit,
             SwitchOff, CacheRemoval, EndExit, kernel
        <5>. QED BY <1>1, <3>2, <5>1, <5>2, <5>3 DEF Next
      <4>. QED BY <2>1, <4>1 DEF DisksApart
    <3>. QED BY <3>1, <3>2
  <2>3. ASSUME NEW v \in Local \ lost'
        PROVE  Stack(v)' /\ Served(v)'
    <3>1. Stack(v) /\ Served(v) /\ v \in Volume
      BY <2>1, LocalsAndModules DEF SettledInv
    <3>2. CASE Kernels
      BY <2>1, <3>1, <3>2, KernelsServe
    <3>3. CASE Listener
      BY <2>1, <3>1, <3>3, ListenerServes
    <3>4. CASE Worker
      BY <2>1, <3>1, <3>4, WorkerServes
    <3>5. CASE Listen
      BY <3>1, <3>5, ListenServes
    <3>6. CASE \E u \in Local : Coldboot(u)
      BY <2>1, <3>1, <3>6, ColdbootServes
    <3>7. CASE StartWorkThread \/ Enter \/ SwitchOn \/ Exit \/ SwitchOff
      BY <2>1, <3>1, <3>7, SwitchServes
    <3>. QED BY <1>1, <3>2, <3>3, <3>4, <3>5, <3>6, <3>7 DEF Next, Start
  <2>. QED BY <2>1, <2>2, <2>3 DEF SettledInv
<1>2. CASE UNCHANGED vars
  <2>1. /\ UNCHANGED <<slot, fs, sock, net, vol, eventVec, work, cacheVec>>
        /\ UNCHANGED <<entering, running, ui, todo, lost>>
    BY <1>2 DEF vars, kernel, manager, mode, history
  <2>2. DisksApart' /\ Phases'
    BY <2>1 DEF SettledInv, DisksApart, Phases
  <2>3. ASSUME NEW v \in Local \ lost
        PROVE  Stack(v)' /\ Served(v)'
    <3>1. Pipe' = Pipe
      BY <2>1 DEF Pipe, Kept, Read
    <3>2. Unconcerned(v)
      BY <2>1 DEF Unconcerned, InHandOf, Announced
    <3>. QED BY <2>3, <3>1, <3>2, AgreeSame, Passed DEF SettledInv
  <2>. QED BY <2>1, <2>2, <2>3 DEF SettledInv
<1>. QED BY <1>1, <1>2

LEMMA SettledInit ==
  ASSUME Init
  PROVE  SettledInv
<1>1. DisksApart
  <2>1. PICK name \in First, disk \in [Local -> UNION {Disks[v] : v \in Local}] :
          slot = [v \in Volume |->
            IF v \in Local /\ name[v] # 0
            THEN [name |-> name[v], devs |-> disk[v].devs, prio |-> disk[v].prio]
            ELSE None]
    BY DEF Init
  <2>2. \A v \in Volume : slot[v] # None =>
          v \in Local /\ name[v] # 0 /\ slot[v].name = name[v]
    BY <2>1
  <2>3. \A u, v \in Local : name[u] = name[v] /\ name[u] # 0 => u = v
    BY VolumeAssumption
  <2>. QED BY <2>2, <2>3 DEF DisksApart
<1>2. /\ eventVec = << >> /\ cacheVec = << >> /\ net = None /\ sock = << >> /\ work = Idle
      /\ ui = "start" /\ ~entering /\ ~running
  BY DEF Init
<1>3. Phases
  BY <1>2 DEF Phases
<1>4. Pipe = << >>
  <2>1. << >> \o << >> = << >>
    BY EmptySeq, ConcatEmptySeq
  <2>2. Pipe = << >> \o << >> \o << >> \o << >>
    BY <1>2 DEF Pipe, Kept, Read
  <2>. QED BY <2>1, <2>2
<1>5. ASSUME NEW v \in Local
      PROVE  Stack(v) /\ Served(v)
  <2>1. vol[v].state = "init" /\ fs[v] = << >> /\ ~InHandOf(v)
    BY <1>2, LocalsAndModules DEF Init, InHandOf
  <2>2. ~Has(v) /\ ~Announced(v)
    BY <1>2, <2>1 DEF Has, Announced
  <2>3. AddsFollowed(Pipe, v, slot[v])
    BY <1>4 DEF AddsFollowed, AddedAt
  <2>4. Stack(v)
    BY <2>1 DEF Stack
  <2>. QED BY <2>2, <2>3, <2>4 DEF Served
<1>. QED BY <1>1, <1>3, <1>5 DEF SettledInv

\* No event of v is in the sequence.
Free(s, v) == \A i \in DOMAIN s : s[i].vol # v

LEMMA FreeConcat ==
  ASSUME NEW s \in Seq(Event), NEW x \in Seq(Event), NEW v, Free(s, v), Free(x, v)
  PROVE  Free(s \o x, v) /\ s \o x \in Seq(Event)
<1>1. PICK t \in Seq(Event) : t = s \o x
  BY ConcatProperties
<1>2. PICK n \in Nat :
        /\ \A i \in Nat : i \in DOMAIN s => t[i] = s[i]
        /\ \A i \in Nat : i \in DOMAIN x => t[n + i] = x[i]
        /\ \A i \in Nat : i \in DOMAIN t =>
             i \in DOMAIN s \/ \E j \in Nat : j \in DOMAIN x /\ i = n + j
  <2>1. \E n \in Nat :
          /\ \A i \in Nat : i \in DOMAIN s => /\ i <= n /\ i \in DOMAIN (s \o x)
                                              /\ (s \o x)[i] = s[i]
          /\ \A i \in Nat : i \in DOMAIN x => /\ n + i \in DOMAIN (s \o x) /\ i > 0
                                              /\ (s \o x)[n + i] = x[i]
          /\ \A i \in Nat : i \in DOMAIN (s \o x) =>
               \/ i \in DOMAIN s
               \/ \E j \in Nat : j \in DOMAIN x /\ i = n + j
    BY ConcatFacts
  <2>. QED BY <1>1, <2>1
<1>3. ASSUME NEW i \in DOMAIN t
      PROVE  t[i].vol # v
  <2>1. i \in Nat
    BY <1>1, LenProperties
  <2>2. CASE i \in DOMAIN s
    BY <1>2, <2>1, <2>2 DEF Free
  <2>3. CASE \E j \in Nat : j \in DOMAIN x /\ i = n + j
    BY <1>2, <2>3 DEF Free
  <2>. QED BY <1>2, <2>1, <2>2, <2>3
<1>. QED BY <1>1, <1>3 DEF Free

LEMMA NothingPending ==
  ASSUME TypeOK, NEW v, ~Pending(v)
  PROVE  Free(Pipe, v) /\ ~InHandOf(v)
<1>1. /\ Free(sock, v) /\ Free(eventVec, v) /\ Free(cacheVec, v)
      /\ net # None => net.vol # v
      /\ ~InHandOf(v)
  BY DEF Pending, OnTheWay, Free, InHandOf
<1>2. Free(Kept, v) /\ Free(Read, v)
  BY <1>1 DEF Kept, Read, Free
<1>3. PICK q, k, r, s \in Seq(Event) : q = eventVec /\ k = Kept /\ r = Read /\ s = sock
  BY PipeType
<1>4. Free(q \o k, v) /\ q \o k \in Seq(Event)
  BY <1>1, <1>2, <1>3, FreeConcat
<1>5. Free(q \o k \o r, v) /\ q \o k \o r \in Seq(Event)
  BY <1>2, <1>3, <1>4, FreeConcat
<1>6. Free(q \o k \o r \o s, v)
  BY <1>1, <1>3, <1>5, FreeConcat
<1>. QED BY <1>1, <1>3, <1>6 DEF Pipe

LEMMA SettledFromInv ==
  ASSUME IInv, SettledInv
  PROVE  Settled
<1>1. TypeOK /\ Phases
  BY DEF IInv, SettledInv
<1>2. ASSUME NEW v \in Local \ lost, running, ~Pending(v)
      PROVE  IF Readable(v)
             THEN /\ vol[v].state = "mounted" /\ Head(fs[v]) = vol[v].dev
                  /\ vol[v].dev[1] = slot[v].name /\ slot[v].devs[vol[v].dev[2]]
             ELSE vol[v].state # "mounted" /\ fs[v] = << >>
  <2>1. Free(Pipe, v) /\ ~InHandOf(v) /\ Stack(v) /\ Served(v) /\ Announced(v)
    BY <1>1, <1>2, NothingPending DEF SettledInv, Phases, Announced
  <2>2. /\ \A dev : ~RemovedLater(Pipe, 0, v, dev)
        /\ \A disk : ~Awaited(Pipe, v, disk)
    BY <2>1 DEF Free, RemovedLater, RemovedAt, Awaited, AddedAt
  <2>3. Has(v) => vol[v].state = "mounted" /\ ReadableOf(slot[v], vol[v].dev)
    BY <2>1, <2>2 DEF Has, Served, MountFollowed
  <2>4. CASE Readable(v)
    <3>1. vol[v].state = "mounted" /\ ReadableOf(slot[v], vol[v].dev)
      BY <2>1, <2>2, <2>3, <2>4 DEF Served
    <3>2. fs[v] = <<vol[v].dev>>
      BY <2>1, <3>1 DEF Stack
    <3>3. Head(fs[v]) = vol[v].dev
      BY <3>2
    <3>. QED BY <2>4, <3>1, <3>3 DEF ReadableOf, DeviceOf
  <2>5. CASE ~Readable(v)
    <3>1. vol[v].state # "mounted"
      BY <2>3, <2>5 DEF Has, ReadableOf, DeviceOf, Readable
    <3>2. vol[v].state # "unmounting"
      BY <1>2, <2>1, LocalsAndModules DEF IInv, SaveInv, UnmountingInHand, InHandOf, Idle
    <3>. QED BY <2>1, <2>5, <3>1, <3>2 DEF Stack
  <2>. QED BY <2>4, <2>5
<1>. QED BY <1>2 DEF Settled

\* The inductive invariant of AlwaysSettled, for any volumes, any disks and any number
\* of events: of a volume that lost no event, the manager and the queues together know
\* the disk that is in its slot, whatever is held back, copied or overtaken.
THEOREM SettledInvariance == Spec => []SettledInv
<1>1. Init => SettledInv
  BY SettledInit
<1>2. IInv /\ SettledInv /\ [Next]_vars => SettledInv'
  BY SettledNext
<1>. QED BY <1>1, <1>2, VolumeInvariance, PTL DEF Spec

\* Settled: once no event of a local volume is on its way, it is mounted, with a device
\* of the disk that is there, exactly when that disk is readable, through every switch
\* of the mode (handleBlockEvent, flushAllUdiskEvent2Worker, volWorkerEntry).
THEOREM AlwaysSettled == Spec => []Settled
<1>1. IInv /\ SettledInv => Settled
  BY SettledFromInv
<1>. QED BY <1>1, VolumeInvariance, SettledInvariance, PTL
=============================================================================
