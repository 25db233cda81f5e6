----------------------------- MODULE Ide_proofs -----------------------------
(***************************************************************************)
(* A read of a disk returns what was last written, for any number of       *)
(* threads, disks, sectors and spurious interrupts.                        *)
(***************************************************************************)
EXTENDS Ide, TLAPS

Contents == Value \cup {0}
Loc == {"idle", "lock", "select", "command", "issue", "completion", "busy",
        "transfer", "release"}
Requests == {Idle} \cup [op : {"identify"}, place : Place]
              \cup [op : {"read", "write"}, place : Place, buffer : Contents]

TypeOK ==
  /\ pc \in [Thread -> Loc] /\ req \in [Thread -> Requests]
  /\ is_ata \subseteq Disk /\ boot \subseteq Disk
  /\ data \in Contents
  /\ media \in [Place -> Contents] /\ written \in [Place -> Contents]

\* Thread t uses the channel.
Active(t) == pc[t] \notin {"idle", "lock"}

\* One thread uses the channel: the one that has its lock, or, while the
\* kernel boots, the one that identifies a disk.
ChannelAt(t) ==
  /\ pc[t] = "idle" <=> req[t].op = "none"
  /\ Active(t) /\ req[t].op # "identify" => lock = t
  /\ req[t].op = "identify" =>
       pc[t] # "lock" /\ \A u \in Thread \ {t} : pc[u] = "idle"

\* How far a request has got tells what the disk may be doing.
DiskAt(t) ==
  /\ pc[t] \in {"command", "issue"} => state = "idle"
  /\ pc[t] = "select" => state \in {"idle", "storing"}
  /\ pc[t] = "transfer" => state = "ready"
  /\ req[t].op = "write" =>
       /\ pc[t] = "busy" => state \in {"idle", "preparing", "ready"}
       /\ pc[t] \in {"completion", "release"} => state \in {"idle", "storing"}
  /\ req[t].op # "write" =>
       /\ pc[t] \in {"completion", "busy"} => state \in {"idle", "reading", "ready"}
       /\ pc[t] = "release" => state = "idle"

\* What thread t has read, or is about to read.
DataAt(t) ==
  /\ Active(t) /\ pc[t] # "select" => selected = req[t].place
  /\ req[t].op = "read" /\ pc[t] \in {"completion", "busy", "transfer"} /\ state = "ready"
       => data = written[req[t].place]
  /\ req[t].op = "read" /\ pc[t] = "release" => req[t].buffer = written[req[t].place]

\* A sector differs from what was handed to its disk only while it is stored.
MediaOK ==
  /\ state = "storing" => selected \in Place /\ data = written[selected]
  /\ \A p \in Place : media[p] = written[p] \/ (state = "storing" /\ selected = p)

IdeInv ==
  /\ TypeOK /\ MediaOK
  /\ \A t \in Thread : ChannelAt(t) /\ DiskAt(t) /\ DataAt(t)
  /\ (\A t \in Thread : ~Active(t)) => state \in {"idle", "storing"}
-----------------------------------------------------------------------------
\* What the constants are: a thread is not NoThread, a disk has sectors.
Constants == NoThread \notin Thread /\ Size \in Nat \ {0}

\* One thread uses the channel.
LEMMA OneActive ==
  ASSUME IdeInv, NEW t \in Thread, NEW u \in Thread, Active(t), Active(u)
  PROVE  t = u
<1>1. ChannelAt(t) /\ ChannelAt(u)
  BY Zenon DEF IdeInv
<1>2. CASE req[t].op = "identify" \/ req[u].op = "identify"
  BY <1>1, <1>2, Zenon DEF ChannelAt, Active
<1>3. CASE req[t].op # "identify" /\ req[u].op # "identify"
  BY <1>1, <1>3, Zenon DEF ChannelAt
<1> QED BY <1>2, <1>3, Zenon

\* A thread that does not use the channel knows nothing of the disk.
LEMMA Outside ==
  ASSUME NEW u \in Thread, ~Active(u), pc'[u] = pc[u]
  PROVE  DiskAt(u)' /\ DataAt(u)'
<1>1. pc[u] = "idle" \/ pc[u] = "lock"
  BY Zenon DEF Active
<1>2. pc'[u] = "idle" \/ pc'[u] = "lock"
  BY <1>1, Zenon
<1> QED BY <1>2 DEF DiskAt, DataAt, Active

\* A step of the thread that uses the channel, or of one that begins to while
\* no other does.
LEMMA ActiveStep ==
  ASSUME IdeInv, NEW t \in Thread, TypeOK', MediaOK',
         \A u \in Thread : Active(u) => u = t,
         \A u \in Thread \ {t} : pc'[u] = pc[u] /\ req'[u] = req[u],
         ChannelAt(t)', DiskAt(t)', DataAt(t)',
         Active(t)' \/ state' \in {"idle", "storing"}
  PROVE  IdeInv'
<1>1. \A u \in Thread \ {t} : DiskAt(u)' /\ DataAt(u)'
  BY Outside, Zenon
<1>2. (\A u \in Thread : ~Active(u)') => state' \in {"idle", "storing"}
  BY Zenon
<1>3. ASSUME NEW u \in Thread \ {t}  PROVE ChannelAt(u)'
  <2>1. ChannelAt(u) /\ ~Active(u) /\ pc'[u] = pc[u] /\ req'[u] = req[u]
    BY <1>3, Zenon DEF IdeInv
  <2>2. req[u].op # "identify"
    BY <2>1 DEF ChannelAt, Active
  <2> QED BY <2>1, <2>2, Zenon DEF ChannelAt, Active
<1> QED BY <1>1, <1>2, <1>3, Zenon DEF IdeInv

\* A step that leaves the disk alone keeps what is on it.
LEMMA MediaKept ==
  ASSUME MediaOK, UNCHANGED <<state, selected, data, media, written>>
  PROVE  MediaOK'
BY Zenon DEF MediaOK

\* What a request has, by its kind.
LEMMA RequestFields ==
  ASSUME NEW r \in Requests
  PROVE  /\ r.op \in {"none", "identify", "read", "write"}
         /\ r.op # "none" => r.place \in Place
         /\ r.op \in {"read", "write"} =>
              r.buffer \in Contents /\ \A b \in Contents : [r EXCEPT !.buffer = b] \in Requests
BY DEF Requests, Idle

\* Threads keep the invariant.
LEMMA ThreadStep ==
  ASSUME Constants, IdeInv, NEW t \in Thread, Proceed(t)
  PROVE  IdeInv'
<1>0. /\ TypeOK /\ MediaOK /\ ChannelAt(t) /\ DiskAt(t) /\ DataAt(t)
      /\ \A u \in Thread : ChannelAt(u)
  BY Zenon DEF IdeInv
<1>f. /\ pc \in [Thread -> Loc] /\ req \in [Thread -> Requests] /\ req[t] \in Requests
      /\ \A l \in Loc : [pc EXCEPT ![t] = l] \in [Thread -> Loc]
      /\ \A r \in Requests : [req EXCEPT ![t] = r] \in [Thread -> Requests]
  BY <1>0, Zenon DEF TypeOK
<1>l. \A l \in {"idle", "select", "command", "issue", "completion", "busy", "transfer",
                "release"} : l \in Loc
  BY DEF Loc
<1>i. Idle \in Requests /\ Idle.op = "none"
  BY DEF Requests, Idle
<1>a. Active(t) => \A u \in Thread : Active(u) => u = t
  BY OneActive, Zenon
<1>1. CASE AcquireChannel(t)
  <2>1. /\ pc[t] = "lock" /\ lock = NoThread /\ lock' = t
        /\ pc' = [pc EXCEPT ![t] = "select"]
        /\ UNCHANGED <<req, is_ata, boot, selected, state, data, media, written>>
    BY <1>1, Zenon DEF AcquireChannel, Goto, diskVars
  <2>2. \A u \in Thread : ~Active(u)
    <3>1. ASSUME NEW u \in Thread, Active(u)  PROVE FALSE
      <4>1. req[u].op # "identify"
        BY <1>0, <2>1 DEF ChannelAt
      <4>2. u = NoThread
        BY <1>0, <2>1, <3>1, <4>1, Zenon DEF ChannelAt
      <4> QED BY <3>1, <4>2, Zenon DEF Constants
    <3> QED BY <3>1, Zenon
  <2>3. pc'[t] = "select" /\ state \in {"idle", "storing"} /\ req[t].op # "identify"
    BY <1>0, <1>f, <2>1, <2>2 DEF IdeInv, ChannelAt
  <2>4. TypeOK' /\ MediaOK'
    BY <1>0, <1>f, <1>l, <2>1, MediaKept, Zenon DEF TypeOK
  <2>5. ChannelAt(t)' /\ DiskAt(t)' /\ DataAt(t)' /\ Active(t)'
    BY <1>0, <2>1, <2>3 DEF ChannelAt, DiskAt, DataAt, Active
  <2> QED BY <1>f, <2>1, <2>2, <2>4, <2>5, ActiveStep, Zenon
<1>2. CASE select_sector(t)
  <2>1. /\ pc[t] = "select" /\ pc' = [pc EXCEPT ![t] = "command"]
        /\ state = "idle" /\ selected' = req[t].place
        /\ UNCHANGED <<req, lock, is_ata, boot, state, data, media, written>>
    BY <1>2, Zenon DEF select_sector, Goto, select_device_wait, wait_until_idle, driverVars
  <2>2. pc'[t] = "command" /\ Active(t)
    BY <1>f, <2>1 DEF Active
  <2>3. TypeOK' /\ MediaOK'
    <3>1. TypeOK'
      BY <1>0, <1>f, <1>l, <2>1, Zenon DEF TypeOK
    <3>2. state # "storing" /\ state' # "storing"
      BY <2>1
    <3> QED BY <1>0, <2>1, <3>1, <3>2, Zenon DEF MediaOK
  <2>4. ChannelAt(t)' /\ DiskAt(t)' /\ DataAt(t)' /\ Active(t)'
    <3>1. \A u \in Thread \ {t} : pc'[u] = pc[u]
      BY <1>f, <2>1, Zenon
    <3> QED BY <1>0, <2>1, <2>2, <3>1 DEF ChannelAt, DiskAt, DataAt, Active
  <2> QED BY <1>a, <1>f, <2>1, <2>2, <2>3, <2>4, ActiveStep, Zenon
<1>3. CASE issue_pio_command(t)
  <2>1. UNCHANGED <<req, lock, is_ata, boot, selected, data, media, written>>
    BY <1>3, Zenon DEF issue_pio_command
  <2>2. CASE pc[t] = "command" /\ pc' = [pc EXCEPT ![t] = "issue"] /\ UNCHANGED state
    <3>1. pc'[t] = "issue" /\ Active(t) /\ \A u \in Thread \ {t} : pc'[u] = pc[u]
      BY <1>f, <2>2 DEF Active
    <3>2. TypeOK' /\ MediaOK'
      BY <1>0, <1>f, <1>l, <2>1, <2>2, MediaKept, Zenon DEF TypeOK
    <3>3. ChannelAt(t)' /\ DiskAt(t)' /\ DataAt(t)' /\ Active(t)'
      BY <1>0, <2>1, <2>2, <3>1 DEF ChannelAt, DiskAt, DataAt, Active
    <3> QED BY <1>a, <2>1, <3>1, <3>2, <3>3, ActiveStep, Zenon
  <2>3. CASE /\ pc[t] = "issue"
             /\ pc' = [pc EXCEPT ![t] = IF req[t].op = "write" THEN "busy" ELSE "completion"]
             /\ state' = IF req[t].op = "write" THEN "preparing" ELSE "reading"
    <3>1. /\ pc'[t] = IF req[t].op = "write" THEN "busy" ELSE "completion"
          /\ Active(t) /\ \A u \in Thread \ {t} : pc'[u] = pc[u]
      BY <1>f, <2>3 DEF Active
    <3>2. TypeOK' /\ MediaOK'
      <4>1. TypeOK'
        BY <1>0, <1>f, <1>l, <2>1, <2>3, Zenon DEF TypeOK
      <4>2. state # "storing" /\ state' # "storing"
        BY <1>0, <2>3 DEF DiskAt
      <4> QED BY <1>0, <2>1, <4>1, <4>2, Zenon DEF MediaOK
    <3>3. ChannelAt(t)' /\ DiskAt(t)' /\ DataAt(t)' /\ Active(t)'
      BY <1>0, <2>1, <2>3, <3>1 DEF ChannelAt, DiskAt, DataAt, Active
    <3> QED BY <1>a, <2>1, <3>1, <3>2, <3>3, ActiveStep, Zenon
  <2> QED BY <1>3, <2>2, <2>3, Zenon DEF issue_pio_command, Goto, StartDisk
<1>4. CASE AwaitCompletion(t)
  <2>1. /\ pc[t] = "completion"
        /\ pc' = [pc EXCEPT ![t] = IF req[t].op = "write" THEN "release" ELSE "busy"]
        /\ UNCHANGED <<req, lock, is_ata, boot, selected, state, data, media, written>>
    BY <1>4, Zenon DEF AwaitCompletion, Goto, diskVars
  <2>2. /\ pc'[t] = IF req[t].op = "write" THEN "release" ELSE "busy"
        /\ Active(t) /\ \A u \in Thread \ {t} : pc'[u] = pc[u]
    BY <1>f, <2>1 DEF Active
  <2>3. TypeOK' /\ MediaOK'
    BY <1>0, <1>f, <1>l, <2>1, MediaKept, Zenon DEF TypeOK
  <2>4. ChannelAt(t)' /\ DiskAt(t)' /\ DataAt(t)' /\ Active(t)'
    BY <1>0, <2>1, <2>2 DEF ChannelAt, DiskAt, DataAt, Active
  <2> QED BY <1>a, <2>1, <2>2, <2>3, <2>4, ActiveStep, Zenon
<1>5. CASE wait_while_busy(t)
  <2>0. /\ pc[t] = "busy" /\ Active(t)
        /\ UNCHANGED <<lock, boot, selected, state, data, media, written>>
    BY <1>5 DEF wait_while_busy, diskVars, Active
  <2>1. CASE state = "ready" /\ pc' = [pc EXCEPT ![t] = "transfer"] /\ UNCHANGED <<req, is_ata>>
    <3>1. pc'[t] = "transfer" /\ \A u \in Thread \ {t} : pc'[u] = pc[u]
      BY <1>f, <2>1, Zenon
    <3>2. TypeOK' /\ MediaOK'
      BY <1>0, <1>f, <1>l, <2>0, <2>1, MediaKept, Zenon DEF TypeOK
    <3>3. ChannelAt(t)' /\ DiskAt(t)' /\ DataAt(t)' /\ Active(t)'
      BY <1>0, <2>0, <2>1, <3>1 DEF ChannelAt, DiskAt, DataAt, Active
    <3> QED BY <1>a, <2>0, <2>1, <3>1, <3>2, <3>3, ActiveStep, Zenon
  <2>2. CASE /\ state = "idle" /\ req[t].op = "identify"
             /\ is_ata' \subseteq is_ata
             /\ req' = [req EXCEPT ![t] = Idle] /\ pc' = [pc EXCEPT ![t] = "idle"]
    <3>1. /\ pc'[t] = "idle" /\ req'[t] = Idle
          /\ \A u \in Thread \ {t} : pc'[u] = pc[u] /\ req'[u] = req[u]
      BY <1>f, <2>2, Zenon
    <3>2. TypeOK' /\ MediaOK'
      BY <1>0, <1>f, <1>i, <1>l, <2>0, <2>2, MediaKept, Zenon DEF TypeOK
    <3>3. ChannelAt(t)' /\ DiskAt(t)' /\ DataAt(t)' /\ state' = "idle"
      BY <1>i, <2>0, <2>2, <3>1 DEF ChannelAt, DiskAt, DataAt, Active
    <3> QED BY <1>a, <2>0, <3>1, <3>2, <3>3, ActiveStep, Zenon
  <2>3. CASE UNCHANGED <<pc, req, is_ata>>
    <3>1. TypeOK' /\ MediaOK'
      BY <1>0, <2>0, <2>3, MediaKept, Zenon DEF TypeOK
    <3>2. ChannelAt(t)' /\ DiskAt(t)' /\ DataAt(t)' /\ Active(t)'
      BY <1>0, <2>0, <2>3, Zenon DEF ChannelAt, DiskAt, DataAt, Active
    <3> QED BY <1>a, <2>0, <2>3, <3>1, <3>2, ActiveStep, Zenon
  <2>4. CASE state = "ready"
    BY <1>5, <2>1, <2>4, Zenon DEF wait_while_busy, Goto
  <2>5. CASE state # "ready"
    <3>1. state = "idle"
      BY <1>5, <2>5, Zenon DEF wait_while_busy
    <3> QED BY <1>5, <2>2, <2>3, <2>5, <3>1, Zenon DEF wait_while_busy, Goto
  <2> QED BY <2>4, <2>5, Zenon
<1>6. CASE Transfer(t)
  <2>0. /\ pc[t] = "transfer" /\ Active(t) /\ state = "ready"
        /\ UNCHANGED <<lock, boot, selected, media>>
        /\ selected = req[t].place
    BY <1>0, <1>6 DEF Transfer, Active, DiskAt, DataAt
  <2>1. CASE /\ req[t].op = "write"
             /\ data' = req[t].buffer /\ state' = "storing"
             /\ written' = [written EXCEPT ![req[t].place] = req[t].buffer]
             /\ pc' = [pc EXCEPT ![t] = "completion"] /\ UNCHANGED <<req, is_ata>>
    <3>1. pc'[t] = "completion" /\ \A u \in Thread \ {t} : pc'[u] = pc[u]
      BY <1>f, <2>1, Zenon
    <3>2. req[t].place \in Place /\ req[t].buffer \in Contents
      BY <1>f, <2>1, RequestFields
    <3>3. /\ written'[req[t].place] = req[t].buffer
          /\ \A p \in Place : p # req[t].place => written'[p] = written[p]
      BY <1>0, <2>1, <3>2, Zenon DEF TypeOK
    <3>4. TypeOK'
      <4>1. written' \in [Place -> Contents]
        BY <1>0, <2>1, <3>2, Zenon DEF TypeOK
      <4> QED BY <1>0, <1>f, <1>l, <2>0, <2>1, <3>2, <4>1, Zenon DEF TypeOK
    <3>5. MediaOK'
      <4>1. \A p \in Place : media[p] = written[p]
        BY <1>0, <2>0 DEF MediaOK
      <4> QED BY <2>0, <2>1, <3>2, <3>3, <4>1, Zenon DEF MediaOK
    <3>6. ChannelAt(t)' /\ DiskAt(t)' /\ DataAt(t)' /\ Active(t)'
      BY <1>0, <2>0, <2>1, <3>1 DEF ChannelAt, DiskAt, DataAt, Active
    <3> QED BY <1>a, <2>0, <2>1, <3>1, <3>4, <3>5, <3>6, ActiveStep, Zenon
  <2>2. CASE /\ req[t].op = "read" /\ req' = [req EXCEPT ![t].buffer = data]
             /\ state' = "idle" /\ pc' = [pc EXCEPT ![t] = "release"]
             /\ UNCHANGED <<data, written, is_ata>>
    <3>0. [req[t] EXCEPT !.buffer = data] \in Requests
      <4>1. data \in Contents /\ req[t].op \in {"read", "write"}
        BY <1>0, <2>2, Zenon DEF TypeOK
      <4> QED BY <1>f, <4>1, RequestFields, Zenon
    <3>1. /\ pc'[t] = "release" /\ req'[t] = [req[t] EXCEPT !.buffer = data]
          /\ \A u \in Thread \ {t} : pc'[u] = pc[u] /\ req'[u] = req[u]
          /\ req' \in [Thread -> Requests]
      BY <1>f, <2>2, <3>0, Zenon
    <3>2. req'[t].op = "read" /\ req'[t].place = req[t].place /\ req'[t].buffer = data
      <4>1. req[t].op # "none" /\ req[t].op # "identify"
        BY <2>2
      <4>2. req[t] \in [op : {"read", "write"}, place : Place, buffer : Contents]
        BY <1>f, <4>1 DEF Requests, Idle
      <4> QED BY <2>2, <3>1, <4>2
    <3>3. TypeOK'
      BY <1>0, <1>f, <1>l, <2>0, <2>2, <3>1, Zenon DEF TypeOK
    <3>4. MediaOK'
      <4>1. state # "storing" /\ state' # "storing"
        BY <2>0, <2>2
      <4> QED BY <1>0, <2>0, <2>2, <4>1, Zenon DEF MediaOK
    <3>5. data = written[req[t].place]
      BY <1>0, <2>0, <2>2 DEF DataAt
    <3>6. ChannelAt(t)' /\ DiskAt(t)' /\ DataAt(t)' /\ Active(t)'
      BY <1>0, <2>0, <2>2, <3>1, <3>2, <3>5 DEF ChannelAt, DiskAt, DataAt, Active
    <3> QED BY <1>a, <2>0, <2>2, <3>1, <3>3, <3>4, <3>6, ActiveStep, Zenon
  <2>3. CASE /\ req[t].op = "identify" /\ is_ata' \subseteq is_ata
             /\ req' = [req EXCEPT ![t] = Idle] /\ state' = "idle"
             /\ pc' = [pc EXCEPT ![t] = "idle"] /\ UNCHANGED <<data, written>>
    <3>1. /\ pc'[t] = "idle" /\ req'[t] = Idle
          /\ \A u \in Thread \ {t} : pc'[u] = pc[u] /\ req'[u] = req[u]
      BY <1>f, <2>3, Zenon
    <3>2. TypeOK' /\ MediaOK'
      <4>1. TypeOK'
        BY <1>0, <1>f, <1>i, <1>l, <2>0, <2>3, Zenon DEF TypeOK
      <4>2. state # "storing" /\ state' # "storing"
        BY <2>0, <2>3
      <4> QED BY <1>0, <2>0, <2>3, <4>1, <4>2, Zenon DEF MediaOK
    <3>3. ChannelAt(t)' /\ DiskAt(t)' /\ DataAt(t)'
      BY <1>i, <2>0, <2>3, <3>1 DEF ChannelAt, DiskAt, DataAt, Active
    <3> QED BY <1>a, <2>0, <2>3, <3>1, <3>2, <3>3, ActiveStep, Zenon
  <2> QED BY <1>6, <2>1, <2>2, <2>3, Zenon DEF Transfer, Goto
<1>7. CASE ReleaseChannel(t)
  <2>1. /\ pc[t] = "release" /\ lock' = NoThread
        /\ pc' = [pc EXCEPT ![t] = "idle"] /\ req' = [req EXCEPT ![t] = Idle]
        /\ UNCHANGED <<is_ata, boot, selected, state, data, media, written>>
    BY <1>7, Zenon DEF ReleaseChannel, Goto, diskVars
  <2>2. /\ pc'[t] = "idle" /\ req'[t] = Idle
        /\ \A u \in Thread \ {t} : pc'[u] = pc[u] /\ req'[u] = req[u]
    BY <1>f, <2>1, Zenon
  <2>3. Active(t) /\ state \in {"idle", "storing"}
    BY <1>0, <2>1 DEF Active, DiskAt
  <2>4. TypeOK' /\ MediaOK'
    BY <1>0, <1>f, <1>i, <1>l, <2>1, MediaKept, Zenon DEF TypeOK
  <2>5. ChannelAt(t)' /\ DiskAt(t)' /\ DataAt(t)'
    BY <1>i, <2>2 DEF ChannelAt, DiskAt, DataAt, Active
  <2> QED BY <1>a, <2>1, <2>2, <2>3, <2>4, <2>5, ActiveStep, Zenon
<1> QED BY <1>1, <1>2, <1>3, <1>4, <1>5, <1>6, <1>7, Zenon DEF Proceed

\* A thread that begins a request, or identifies a disk.
LEMMA BeginStep ==
  ASSUME Constants, IdeInv, NEW t \in Thread, Identify(t) \/ Request(t)
  PROVE  IdeInv'
<1>0. TypeOK /\ MediaOK /\ \A u \in Thread : ChannelAt(u) /\ DiskAt(u) /\ DataAt(u)
  BY Zenon DEF IdeInv
<1>f. /\ pc \in [Thread -> Loc] /\ req \in [Thread -> Requests]
      /\ \A l \in Loc : [pc EXCEPT ![t] = l] \in [Thread -> Loc]
      /\ \A r \in Requests : [req EXCEPT ![t] = r] \in [Thread -> Requests]
  BY <1>0, Zenon DEF TypeOK
<1>1. CASE Identify(t)
  <2>1. /\ \A u \in Thread : pc[u] = "idle"
        /\ pc' = [pc EXCEPT ![t] = "select"]
        /\ boot' \subseteq boot
        /\ UNCHANGED <<lock, is_ata, selected, state, data, media, written>>
    BY <1>1, Zenon DEF Identify, Goto, diskVars
  <2>2. PICK d \in boot : req' = [req EXCEPT ![t] = [op |-> "identify", place |-> <<d, 0>>]]
    BY <1>1, Zenon DEF Identify
  <2>3. \A u \in Thread : ~Active(u)
    BY <2>1 DEF Active
  <2>4. /\ [op |-> "identify", place |-> <<d, 0>>] \in Requests
        /\ "select" \in Loc
    <3>1. d \in Disk /\ 0 \in 0..(Size - 1)
      BY <1>0 DEF TypeOK, Constants
    <3> QED BY <3>1 DEF Requests, Place, Loc
  <2>5. /\ pc'[t] = "select" /\ req'[t].op = "identify"
        /\ \A u \in Thread \ {t} : pc'[u] = "idle" /\ pc'[u] = pc[u] /\ req'[u] = req[u]
    BY <1>f, <2>1, <2>2
  <2>6. TypeOK' /\ MediaOK'
    BY <1>0, <1>f, <2>1, <2>2, <2>4, MediaKept, Zenon DEF TypeOK
  <2>7. state \in {"idle", "storing"}
    BY <2>3, Zenon DEF IdeInv
  <2>8. ChannelAt(t)' /\ DiskAt(t)' /\ DataAt(t)' /\ Active(t)'
    BY <2>1, <2>5, <2>7 DEF ChannelAt, DiskAt, DataAt, Active
  <2> QED BY <2>3, <2>5, <2>6, <2>8, ActiveStep, Zenon
<1>2. CASE Request(t)
  <2>1. /\ pc[t] = "idle" /\ \A u \in Thread : req[u].op # "identify"
        /\ UNCHANGED <<lock, is_ata, boot, selected, state, data, media, written>>
    BY <1>2, Zenon DEF Request, diskVars
  <2>2. CASE UNCHANGED <<pc, req>>
    <3>1. TypeOK' /\ MediaOK'
      BY <1>0, <2>1, <2>2, MediaKept, Zenon DEF TypeOK
    <3>2. \A u \in Thread : /\ ChannelAt(u)' /\ DiskAt(u)' /\ DataAt(u)'
                            /\ Active(u)' <=> Active(u)
      BY <1>0, <2>1, <2>2, Zenon DEF ChannelAt, DiskAt, DataAt, Active
    <3> QED BY <2>1, <3>1, <3>2, Zenon DEF IdeInv
  <2>3. CASE \E r \in Requests : /\ r.op \in {"read", "write"}
                                 /\ req' = [req EXCEPT ![t] = r]
                                 /\ pc' = [pc EXCEPT ![t] = "lock"]
    <3>1. PICK r \in Requests : /\ r.op \in {"read", "write"}
                                /\ req' = [req EXCEPT ![t] = r]
                                /\ pc' = [pc EXCEPT ![t] = "lock"]
      BY <2>3, Zenon
    <3>2. /\ pc'[t] = "lock" /\ req'[t] = r
          /\ \A u \in Thread \ {t} : pc'[u] = pc[u] /\ req'[u] = req[u]
      BY <1>f, <3>1, Zenon
    <3>3. TypeOK' /\ MediaOK'
      <4>1. "lock" \in Loc
        BY DEF Loc
      <4> QED BY <1>0, <1>f, <2>1, <3>1, <4>1, MediaKept, Zenon DEF TypeOK
    <3>4. ChannelAt(t)' /\ DiskAt(t)' /\ DataAt(t)' /\ ~Active(t)
      BY <2>1, <3>1, <3>2 DEF ChannelAt, DiskAt, DataAt, Active
    <3>5. ASSUME NEW u \in Thread \ {t}
          PROVE  ChannelAt(u)' /\ DiskAt(u)' /\ DataAt(u)' /\ (Active(u)' <=> Active(u))
      <4>1. /\ ChannelAt(u) /\ DiskAt(u) /\ DataAt(u) /\ req'[u].op # "identify"
            /\ pc'[u] = pc[u] /\ req'[u] = req[u]
        BY <1>0, <2>1, <3>2, Zenon
      <4> QED BY <2>1, <4>1, Zenon DEF ChannelAt, DiskAt, DataAt, Active
    <3> QED BY <2>1, <3>3, <3>4, <3>5, Zenon DEF IdeInv
  <2>4. PICK d \in is_ata, s \in 0..Size,
             r \in [op : {"read"}, buffer : {0}] \cup [op : {"write"}, buffer : Value] :
          IF s < Size
          THEN /\ req' = [req EXCEPT ![t] =
                            [op |-> r.op, place |-> <<d, s>>, buffer |-> r.buffer]]
               /\ pc' = [pc EXCEPT ![t] = "lock"]
          ELSE UNCHANGED <<pc, req>>
    BY <1>2, Zenon DEF Request, Goto
  <2>5. CASE s < Size
    <3>1. s \in 0..(Size - 1) /\ d \in Disk
      BY <1>0, <2>5 DEF TypeOK, Constants
    <3>2. r.op \in {"read", "write"} /\ r.buffer \in Contents
      BY DEF Contents
    <3>3. [op |-> r.op, place |-> <<d, s>>, buffer |-> r.buffer] \in Requests
      BY <3>1, <3>2 DEF Requests, Place
    <3> QED BY <2>3, <2>4, <2>5, <3>2, <3>3
  <2> QED BY <2>2, <2>4, <2>5, Zenon
<1> QED BY <1>1, <1>2, Zenon

\* The disk keeps the invariant.
LEMMA DiskStep ==
  ASSUME IdeInv, DiskWorks
  PROVE  IdeInv'
<1>0. TypeOK /\ MediaOK /\ \A u \in Thread : ChannelAt(u) /\ DiskAt(u) /\ DataAt(u)
  BY Zenon DEF IdeInv
<1>1. UNCHANGED <<pc, req, lock, is_ata, boot, selected, written>>
  BY Zenon DEF DiskWorks, driverVars
<1>2. \A u \in Thread : ChannelAt(u)' /\ (Active(u)' <=> Active(u))
  BY <1>0, <1>1, Zenon DEF ChannelAt, Active
<1>3. \A u \in Thread :
        /\ Active(u) /\ pc[u] # "select" => selected = req[u].place
        /\ req[u].op = "read" /\ pc[u] = "release" => req[u].buffer = written[req[u].place]
  BY <1>0, Zenon DEF DataAt
<1>4. \A u \in Thread : req[u].op = "read" /\ pc[u] # "idle" => req[u].place \in Place
  <2>1. \A u \in Thread : req[u] \in Requests
    BY <1>0, Zenon DEF TypeOK
  <2> QED BY <2>1, RequestFields
<1>5. CASE state = "reading" /\ state' = "ready" /\ data' = media[selected] /\ UNCHANGED media
  <2>0. \E u \in Thread : Active(u) /\ pc[u] # "select"
    <3>1. \E u \in Thread : Active(u)
      BY <1>5 DEF IdeInv
    <3> QED BY <1>0, <1>5, <3>1 DEF DiskAt
  <2>1. MediaOK' /\ \A p \in Place : media[p] = written[p]
    BY <1>0, <1>1, <1>5 DEF MediaOK
  <2>2. TypeOK'
    <3>1. selected \in Place
      <4>1. PICK u \in Thread : Active(u) /\ pc[u] # "select"
        BY <2>0
      <4>2. req[u] \in Requests /\ req[u].op # "none" /\ selected = req[u].place
        BY <1>0, <4>1 DEF TypeOK, ChannelAt, Active, DataAt
      <4> QED BY <4>2, RequestFields
    <3>2. data' \in Contents
      BY <1>0, <1>5, <3>1, Zenon DEF TypeOK
    <3> QED BY <1>0, <1>1, <1>5, <3>2, Zenon DEF TypeOK
  <2>3. \A u \in Thread : DiskAt(u)'
    BY <1>0, <1>1, <1>5 DEF DiskAt
  <2>4. \A u \in Thread : DataAt(u)'
    <3> TAKE u \in Thread
    <3>1. req[u].op = "read" /\ pc[u] \in {"completion", "busy", "transfer"}
            => media[selected] = written[req[u].place]
      <4>1. pc[u] \in {"completion", "busy", "transfer"}
              => Active(u) /\ pc[u] # "select" /\ pc[u] # "idle"
        BY DEF Active
      <4> QED BY <1>3, <1>4, <2>1, <4>1, Zenon
    <3> QED BY <1>1, <1>3, <1>5, <3>1, Zenon DEF DataAt, Active
  <2>5. (\A u \in Thread : ~Active(u)') => FALSE
    BY <1>2, <2>0, Zenon
  <2> QED BY <1>2, <2>1, <2>2, <2>3, <2>4, <2>5, Zenon DEF IdeInv
<1>6. CASE state = "preparing" /\ state' = "ready" /\ UNCHANGED <<data, media>>
  <2>1. TypeOK' /\ MediaOK'
    BY <1>0, <1>1, <1>6 DEF TypeOK, MediaOK
  <2>2. \A u \in Thread : DiskAt(u)'
    BY <1>0, <1>1, <1>6 DEF DiskAt
  <2>3. \A u \in Thread : DataAt(u)'
    <3>1. \A u \in Thread :
            ~(req[u].op = "read" /\ pc[u] \in {"completion", "busy", "transfer"})
      BY <1>0, <1>6 DEF DiskAt
    <3> QED BY <1>1, <1>3, <3>1, Zenon DEF DataAt, Active
  <2>4. \E u \in Thread : Active(u)
    BY <1>6 DEF IdeInv
  <2> QED BY <1>2, <2>1, <2>2, <2>3, <2>4, Zenon DEF IdeInv
<1>7. CASE /\ state = "storing" /\ state' = "idle" /\ UNCHANGED data
           /\ media' = [media EXCEPT ![selected] = data]
  <2>1. selected \in Place /\ data = written[selected]
    BY <1>0, <1>7, Zenon DEF MediaOK
  <2>2. TypeOK'
    <3>1. media' \in [Place -> Contents]
      BY <1>0, <1>7, <2>1, Zenon DEF TypeOK
    <3> QED BY <1>0, <1>1, <1>7, <3>1, Zenon DEF TypeOK
  <2>3. MediaOK'
    <3>1. \A p \in Place : media'[p] = IF p = selected THEN data ELSE media[p]
      BY <1>0, <1>7, Zenon DEF TypeOK
    <3>2. state' # "storing"
      BY <1>7
    <3> QED BY <1>0, <1>1, <1>7, <2>1, <3>1, <3>2, Zenon DEF MediaOK
  <2>4. \A u \in Thread : DiskAt(u)'
    BY <1>0, <1>1, <1>7 DEF DiskAt
  <2>5. \A u \in Thread : DataAt(u)'
    BY <1>1, <1>3, <1>7 DEF DataAt, Active
  <2> QED BY <1>2, <1>7, <2>2, <2>3, <2>4, <2>5, Zenon DEF IdeInv
<1>8. CASE state \in {"reading", "preparing"} /\ state' = "idle" /\ UNCHANGED <<data, media>>
  <2>1. TypeOK' /\ MediaOK'
    BY <1>0, <1>1, <1>8 DEF TypeOK, MediaOK
  <2>2. \A u \in Thread : DiskAt(u)'
    BY <1>0, <1>1, <1>8 DEF DiskAt
  <2>3. \A u \in Thread : DataAt(u)'
    BY <1>1, <1>3, <1>8 DEF DataAt, Active
  <2> QED BY <1>2, <1>8, <2>1, <2>2, <2>3, Zenon DEF IdeInv
<1> QED BY <1>5, <1>6, <1>7, <1>8, Zenon DEF DiskWorks

LEMMA IdeInitOK == Constants /\ IdeInit => IdeInv
<1> SUFFICES ASSUME Constants, IdeInit PROVE IdeInv
  OBVIOUS
<1>1. \A t \in Thread : pc[t] = "idle" /\ req[t].op = "none"
  BY Zenon DEF IdeInit, Idle
<1>2. TypeOK /\ MediaOK
  <2>1. "idle" \in Loc /\ Idle \in Requests /\ 0 \in Contents
    BY DEF Loc, Requests, Contents
  <2>2. TypeOK
    BY <2>1, Zenon DEF IdeInit, TypeOK
  <2>3. state # "storing" /\ written = media
    BY DEF IdeInit
  <2> QED BY <2>2, <2>3, Zenon DEF MediaOK
<1>3. \A t \in Thread : ChannelAt(t) /\ DiskAt(t) /\ DataAt(t)
  BY <1>1, Zenon DEF ChannelAt, DiskAt, DataAt, Active
<1>4. state = "idle"
  BY DEF IdeInit
<1> QED BY <1>2, <1>3, <1>4, Zenon DEF IdeInv

\* One thread at a time uses a channel, and what the disk may be doing follows
\* from how far that thread has got.
THEOREM IdeInvariant ==
  ASSUME Constants
  PROVE  IdeSpec => []IdeInv
<1>1. IdeInv /\ [IdeNext]_ideVars => IdeInv'
  <2> SUFFICES ASSUME IdeInv, [IdeNext]_ideVars PROVE IdeInv'
    OBVIOUS
  <2>0. TypeOK /\ MediaOK /\ \A u \in Thread : ChannelAt(u) /\ DiskAt(u) /\ DataAt(u)
    BY Zenon DEF IdeInv
  <2>1. CASE UNCHANGED <<pc, req, lock, is_ata, boot, selected, state, data, media, written>>
    <3>1. TypeOK' /\ MediaOK'
      BY <2>0, <2>1, MediaKept, Zenon DEF TypeOK
    <3>2. \A u \in Thread : /\ ChannelAt(u)' /\ DiskAt(u)' /\ DataAt(u)'
                            /\ Active(u)' <=> Active(u)
      BY <2>0, <2>1, Zenon DEF ChannelAt, DiskAt, DataAt, Active
    <3> QED BY <2>1, <3>1, <3>2, Zenon DEF IdeInv
  <2>2. CASE IdeNext
    <3>1. CASE interrupt_handler
      BY <2>1, <3>1, Zenon DEF interrupt_handler
    <3>2. CASE \E t \in Thread : Identify(t) \/ Request(t) \/ Proceed(t)
      BY <3>2, BeginStep, ThreadStep, Zenon
    <3> QED BY <2>2, <3>1, <3>2, DiskStep, Zenon DEF IdeNext
  <2> QED BY <2>1, <2>2, Zenon DEF ideVars
<1> QED BY <1>1, IdeInitOK, PTL DEF IdeSpec

\* ide_read returns what was last handed to the sector, although the disks of a
\* channel share its registers and a wait for completion may end early.
THEOREM ReadsReturnLastWrite ==
  ASSUME Constants
  PROVE  IdeSpec => []ReadsLastWrite
<1>1. IdeInv => ReadsLastWrite
  BY Zenon DEF IdeInv, DataAt, ReadsLastWrite
<1> QED BY <1>1, IdeInvariant, PTL
=============================================================================
