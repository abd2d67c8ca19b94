---------------------------- MODULE KeyboxProofs ----------------------------
(***************************************************************************)
(* What the lock, the temporary file and the two renames guarantee, for    *)
(* any number of processes, keys, commands and crashes: a writer changes   *)
(* its own key only, no key is stored twice, an import merges into the     *)
(* latest version, and while the file has no name it can be recovered.     *)
(***************************************************************************)
EXTENDS Keybox, TLAPS

\* The seconds a prover gets for a leaf.
USE SMTT(30), ZenonT(30)

PCs == {"off", "create", "compress", "search", "lock", "take", "find", "access", "copy",
        "write", "rename1", "rename2", "inplace", "exit"}

\* Where a process needs the lock.
Critical == {"find", "access", "copy", "write", "rename1", "rename2", "inplace"}

Blob == [key : Keys \cup {NoKey}, ver : Nat, del : BOOLEAN]

Handle == [pc : PCs, op : AllOps \cup {"none"}, key : Keys \cup {NoKey}, id : Nat,
           mode : {"none", "insert", "update", "compress"},
           fp : Inodes \cup {NoInode}, fresh : BOOLEAN, found : Nat, base : Nat,
           src : Inodes \cup {NoInode}, new : Inodes \cup {NoInode}]

Types ==
    /\ disk \in [Inodes -> Seq(Blob)]
    /\ dir \in [Names -> Inodes \cup {NoInode}]
    /\ hd \in [Procs -> Handle]
    /\ sessions \in Nat

\* A file without junk and with one live blob of a key at most.
Sound(c) ==
    /\ \A i \in DOMAIN c : c[i] # Junk
    /\ \A i, j \in DOMAIN c : Live(c, i) /\ Live(c, j) /\ c[i].key = c[j].key => i = j

\* What there is at the offset of a blob that was found.
Hit(c, h) == h.found \in DOMAIN c /\ c[h.found].key = h.key /\ h.key \in Keys

\* File d is what command h makes of file c.
Made(c, d, h) ==
    /\ \A k \in Keys : (h.mode = "compress" \/ k # h.key) /\ (h.mode = "update" => h.fresh) =>
          Versions(d, k) = Versions(c, k)
    /\ \/ misplaced
       \/ /\ Sound(d)
          /\ h.mode = "update" => h.fresh /\ Versions(c, h.key) = {h.base}
          /\ h.mode = "insert" => Versions(c, h.key) = {}

\* The names: the temporary file is nobody else's; between the renames, also after
\* a crash there, the other two files are there.
Files ==
    /\ Exists("tmp") => dir["tmp"] # dir["fname"] /\ dir["tmp"] # dir["bak"]
    /\ ~Exists("fname") /\ Exists("bak") => Exists("tmp")
    /\ \A i \in Inodes : i \notin InUse(dir, hd) => disk[i] = <<>>

\* A process with an open file: what it found there is still there.
Reader(p) ==
    LET h == hd[p] IN
    /\ h.fp # NoInode =>
         /\ h.fp # dir["tmp"]
         /\ h.op \in SearchFirst \/ h.pc \in {"access", "inplace", "exit"}
         /\ h.found # 0 => Hit(disk[h.fp], h)
    /\ h.op \in SearchFirst /\ h.pc \in {"lock", "take"} => h.fp # NoInode /\ h.found # 0
    /\ h.pc = "search" => h.op \in SearchFirst

\* A process that writes has the lock, and the names are as it left them.
Holder(p) ==
    LET h == hd[p] IN
    /\ h.pc \in Critical => lock = p
    /\ h.pc \in {"copy", "write", "rename1"} => Exists("fname")
    /\ h.pc \in {"write", "rename1", "rename2"} => Exists("tmp")
    /\ h.pc \in {"access", "copy"} => h.mode \in {"insert", "update"}
    /\ h.pc \in {"write", "rename1", "rename2"} => h.mode # "none"
    /\ h.pc # "write" => h.src = NoInode /\ h.new = NoInode
    /\ h.pc = "write" => /\ h.src = dir["fname"] /\ h.new = dir["tmp"]
                         /\ disk[dir["tmp"]] = <<>>
    /\ h.pc = "inplace" => /\ h.op \in {"keydelete", "setflags"}
                           /\ h.found # 0 /\ h.fp # NoInode
                           /\ h.fresh => h.fp = dir["fname"]

\* What is in file c before the command h writes: the blob found, or none of its key.
Before(c, h) ==
    /\ h.mode = "update" =>
         /\ h.found # 0
         /\ h.fresh => /\ Exists("fname") /\ Live(c, h.found) /\ Hit(c, h)
                       /\ c[h.found].ver = h.base
    /\ h.mode = "insert" /\ Exists("fname") /\ ~misplaced => Versions(c, h.key) = {}

\* The contents of the files while a process has the lock.
Writer(p) ==
    LET h == hd[p] IN
    /\ h.pc \in {"access", "copy", "write"} => Before(disk[dir["fname"]], h)
    /\ h.pc = "rename1" => Made(disk[dir["fname"]], disk[dir["tmp"]], h)
    /\ h.pc = "rename2" => /\ ~Exists("fname") /\ Exists("bak")
                           /\ Made(disk[dir["bak"]], disk[dir["tmp"]], h)

\* A key that is being generated is nowhere until it is written.
Generator(p) ==
    LET h == hd[p] IN
    /\ h.pc = "off" => h = Off
    /\ h.pc # "off" => h.key \in Keys /\ h.op \in AllOps
    /\ h.op = "generate" =>
         /\ h.pc \notin {"search", "find", "inplace"} /\ h.mode # "update"
         /\ \A q \in Procs \ {p} : hd[q].key # h.key
         /\ h.pc = "exit" \/ (h.pc \in {"rename1", "rename2"} /\ h.mode = "insert")
              \/ \A i \in Inodes : \A j \in DOMAIN disk[i] : disk[i][j].key # h.key

\* The database.
Clean ==
    /\ Exists("fname") => Sound(disk[dir["fname"]])
    /\ ~Exists("fname") /\ Exists("bak") =>
         /\ Sound(disk[dir["bak"]])
         /\ \E k0 \in Keys : \A k \in Keys \ {k0} :
               Versions(disk[dir["bak"]], k) = Versions(disk[dir["tmp"]], k)

Own(p) == Reader(p) /\ Holder(p) /\ Writer(p) /\ Generator(p)

Good ==
    /\ Types
    /\ Files
    /\ \A p \in Procs : Own(p)
    /\ misplaced \/ Clean

\* The inductive invariant: all that is promised as long as nobody goes on without
\* the lock.
IInv == unlocked \in BOOLEAN /\ (unlocked \/ Good)

-----------------------------------------------------------------------------
(* The operators on files. *)

\* A live blob is one that is not deleted and has a key.
LEMMA LiveKey ==
  ASSUME NEW c \in Seq(Blob), NEW i \in DOMAIN c, NEW k \in Keys
  PROVE  /\ c[i] \in Blob
         /\ c[i].key = k => c[i] # Junk
         /\ Live(c, i) /\ c[i].key = k <=> ~c[i].del /\ c[i].key = k
<1>1. c[i] \in Blob
  OBVIOUS
<1>2. Junk.key = NoKey /\ k # NoKey
  BY OpsAssumption DEF Junk
<1>3. c[i].key = k => c[i] # Junk
  BY <1>2
<1> QED
  BY <1>1, <1>3 DEF Live

\* Two files with the same live blobs of a key.
LEMMA SameVersions ==
  ASSUME NEW c, NEW d, NEW k,
         \A i \in DOMAIN c : Live(c, i) /\ c[i].key = k =>
            \E j \in DOMAIN d : Live(d, j) /\ d[j].key = k /\ d[j].ver = c[i].ver,
         \A j \in DOMAIN d : Live(d, j) /\ d[j].key = k =>
            \E i \in DOMAIN c : Live(c, i) /\ c[i].key = k /\ c[i].ver = d[j].ver
  PROVE  Versions(c, k) = Versions(d, k)
  BY DEF Versions

\* FILECOPY_INSERT: a blob behind the others.
LEMMA Appended ==
  ASSUME NEW c \in Seq(Blob), NEW b \in Blob, b.key \in Keys, ~b.del
  PROVE  /\ Append(c, b) \in Seq(Blob)
         /\ \A k \in Keys \ {b.key} : Versions(Append(c, b), k) = Versions(c, k)
         /\ Sound(c) /\ Versions(c, b.key) = {} => Sound(Append(c, b))
         /\ \A j \in DOMAIN Append(c, b) :
               Append(c, b)[j].key = b.key \/ \E i \in DOMAIN c : Append(c, b)[j].key = c[i].key
<1> DEFINE d == Append(c, b)
           n == Len(c)
<1>1. /\ d \in Seq(Blob) /\ n \in Nat
      /\ DOMAIN c = 1..n /\ DOMAIN d = 1..(n + 1)
      /\ \A i \in 1..n : d[i] = c[i]
      /\ d[n + 1] = b
  OBVIOUS
<1>2. \A j \in DOMAIN d : j = n + 1 \/ j \in DOMAIN c
  BY <1>1
<1>3. DOMAIN c \subseteq DOMAIN d /\ \A i \in DOMAIN c : d[i] = c[i] /\ i # n + 1
  BY <1>1
<1>4. b # Junk
  BY OpsAssumption DEF Junk
<1> HIDE DEF d, n
<1>5. \A i \in DOMAIN c : Live(d, i) <=> Live(c, i)
  BY <1>3 DEF Live
<1>6. \A k \in Keys \ {b.key} : Versions(d, k) = Versions(c, k)
  BY <1>1, <1>2, <1>3, <1>5 DEF Versions
<1>7. ASSUME Sound(c), Versions(c, b.key) = {}
      PROVE  Sound(d)
  <2>1. \A i \in DOMAIN c : ~(Live(c, i) /\ c[i].key = b.key)
    BY <1>7, Zenon DEF Versions
  <2>2. \A j \in DOMAIN d : d[j] # Junk
    BY <1>1, <1>2, <1>3, <1>4, <1>7 DEF Sound
  <2>3. ASSUME NEW i \in DOMAIN d, NEW j \in DOMAIN d,
               Live(d, i), Live(d, j), d[i].key = d[j].key
        PROVE  i = j
    BY <1>1, <1>2, <1>3, <1>5, <1>7, <2>1, <2>3 DEF Sound
  <2> QED
    BY <2>2, <2>3 DEF Sound
<1>8. \A j \in DOMAIN d : d[j].key = b.key \/ \E i \in DOMAIN c : d[j].key = c[i].key
  BY <1>1, <1>2, <1>3
<1> QED
  BY <1>1, <1>6, <1>7, <1>8 DEF d

\* File d is file c with another blob at place i.
Edited(c, d, i, b) ==
    d \in Seq(Blob) /\ DOMAIN d = DOMAIN c /\ d[i] = b /\ \A j \in DOMAIN c \ {i} : d[j] = c[j]

\* A blob changed in place, or replaced by one of the same key.
LEMMA Changed ==
  ASSUME NEW c \in Seq(Blob), NEW i \in DOMAIN c, NEW b \in Blob, b.key = c[i].key,
         NEW d, Edited(c, d, i, b)
  PROVE  /\ \A j \in DOMAIN c : d[j].key = c[j].key
         /\ \A k \in Keys \ {b.key} : Versions(d, k) = Versions(c, k)
         /\ Sound(c) /\ b # Junk /\ (~b.del => ~c[i].del) => Sound(d)
<1>1. d \in Seq(Blob) /\ DOMAIN d = DOMAIN c
  BY DEF Edited
<1>2. d[i] = b /\ \A j \in DOMAIN c \ {i} : d[j] = c[j]
  BY DEF Edited
<1>3. \A j \in DOMAIN c : d[j].key = c[j].key
  BY <1>2
<1>4. \A j \in DOMAIN c \ {i} : Live(d, j) <=> Live(c, j)
  BY <1>1, <1>2 DEF Live
<1>5. \A k \in Keys \ {b.key} : Versions(d, k) = Versions(c, k)
  BY <1>1, <1>2, <1>3, <1>4 DEF Versions
<1>6. ASSUME Sound(c), b # Junk, ~b.del => ~c[i].del
      PROVE  Sound(d)
  <2>1. \A j \in DOMAIN d : d[j] # Junk
    BY <1>1, <1>2, <1>6 DEF Sound
  <2>2. \A j \in DOMAIN c : Live(d, j) => Live(c, j)
    BY <1>1, <1>2, <1>4, <1>6 DEF Live, Sound
  <2> QED
    BY <1>1, <1>3, <1>6, <2>1, <2>2 DEF Sound
<1> QED
  BY <1>3, <1>5, <1>6

\* keybox_compress: the deleted blobs are left out.
LEMMA Compressed ==
  ASSUME NEW c \in Seq(Blob), NEW f \in Kept(c)
  PROVE  LET d == [i \in DOMAIN f |-> c[f[i]]] IN
         /\ d \in Seq(Blob)
         /\ \A k \in Keys : Versions(d, k) = Versions(c, k)
         /\ Sound(c) => Sound(d)
         /\ \A j \in DOMAIN d : \E i \in DOMAIN c : d[j].key = c[i].key
<1> DEFINE d == [i \in DOMAIN f |-> c[f[i]]]
<1>0. PICK n \in 0..Len(c) : f \in [1..n -> DOMAIN c]
  BY DEF Kept
<1>1. d \in Seq(Blob) /\ DOMAIN d = 1..n
  BY <1>0
<1>2. /\ \A i \in DOMAIN d : f[i] \in DOMAIN c /\ d[i] = c[f[i]]
      /\ \A i, j \in DOMAIN d : f[i] = f[j] => i = j
  <2>1. \A i, j \in 1..n : i < j => f[i] < f[j]
    BY <1>0, Zenon DEF Kept
  <2>2. \A i \in 1..n : f[i] \in Nat
    BY <1>0
  <2>3. \A i, j \in 1..n : f[i] = f[j] => i = j
    BY <2>1, <2>2
  <2> QED
    BY <1>0, <2>3
<1>9. \A i \in DOMAIN c : ~c[i].del => \E j \in DOMAIN d : d[j] = c[i]
  BY <1>0, <1>1 DEF Kept
<1> HIDE DEF d
<1>3. \A j \in DOMAIN d : Live(d, j) => Live(c, f[j])
  BY <1>2 DEF Live
<1>4. ASSUME NEW k \in Keys
      PROVE  Versions(d, k) = Versions(c, k)
  <2>1. ASSUME NEW j \in DOMAIN d, Live(d, j), d[j].key = k
        PROVE  \E i \in DOMAIN c : Live(c, i) /\ c[i].key = k /\ c[i].ver = d[j].ver
    BY <1>2, <1>3, <2>1
  <2>2. ASSUME NEW i \in DOMAIN c, Live(c, i), c[i].key = k
        PROVE  \E j \in DOMAIN d : Live(d, j) /\ d[j].key = k /\ d[j].ver = c[i].ver
    <3>1. PICK j \in DOMAIN d : d[j] = c[i]
      BY <1>9, <2>2 DEF Live
    <3> QED
      BY <3>1, <2>2 DEF Live
  <2> QED
    BY <2>1, <2>2, SameVersions
<1>5. ASSUME Sound(c)
      PROVE  Sound(d)
  BY <1>2, <1>3, <1>5 DEF Sound
<1>6. \A j \in DOMAIN d : \E i \in DOMAIN c : d[j].key = c[i].key
  BY <1>2
<1> QED
  BY <1>1, <1>4, <1>5, <1>6 DEF d

\* The first of some places is one of them, and before the others.
LEMMA FirstPlace ==
  ASSUME NEW places, places \subseteq Nat \ {0}
  PROVE  /\ First(places) # 0 => First(places) \in places /\ \A j \in places : First(places) <= j
         /\ \A i \in places : (\A j \in places : i <= j) => First(places) = i
<1> DEFINE first == {i \in places : \A j \in places : i <= j}
<1>1. First(places) = IF first = {} THEN 0 ELSE CHOOSE i \in first : TRUE
  BY DEF First
<1>2. first \subseteq places /\ \A i, j \in first : i = j
  OBVIOUS
<1>3. first # {} => First(places) \in first
  BY <1>1, Zenon
<1> QED
  BY <1>1, <1>2, <1>3, Zenon

\* keybox_search finds a live blob of the key, or there is none that can be read.
LEMMA SearchResult ==
  ASSUME NEW c \in Seq(Blob), NEW k \in Keys
  PROVE  /\ SearchFpr(c, k) \in Nat
         /\ SearchFpr(c, k) # 0 =>
              /\ SearchFpr(c, k) \in DOMAIN c
              /\ Live(c, SearchFpr(c, k)) /\ c[SearchFpr(c, k)].key = k
         /\ Sound(c) /\ SearchFpr(c, k) = 0 => Versions(c, k) = {}
<1> DEFINE hits == {i \in DOMAIN c : Live(c, i) /\ Readable(c, i) /\ c[i].key = k}
<1>1. hits \subseteq Nat /\ hits \subseteq DOMAIN c /\ 0 \notin hits
  OBVIOUS
<1>2. \A i \in hits : Live(c, i) /\ c[i].key = k
  OBVIOUS
<1>3. SearchFpr(c, k) = First(hits)
  BY DEF SearchFpr
<1>8. ASSUME Sound(c), First(hits) = 0
      PROVE  hits = {}
  <2>1. \A i, j \in hits : i = j
    BY <1>8 DEF Sound
  <2> HIDE DEF hits
  <2>2. \A i, j \in hits : i <= j
    BY <1>1, <2>1
  <2>3. hits \subseteq Nat \ {0}
    BY <1>1
  <2>4. ASSUME NEW i \in hits PROVE FALSE
    BY <1>8, <2>2, <2>3, FirstPlace, Zenon
  <2> QED
    BY <2>4
<1>4. ASSUME Sound(c), hits = {}
      PROVE  Versions(c, k) = {}
  <2>1. \A i \in DOMAIN c : Readable(c, i)
    BY <1>4 DEF Readable, Sound
  <2> QED
    BY <2>1, <1>4 DEF Versions
<1> HIDE DEF hits
<1>6. CASE First(hits) = 0
  BY <1>3, <1>4, <1>6, <1>8
<1>7. CASE First(hits) # 0
  <2> DEFINE f == SearchFpr(c, k)
  <2>1. f \in hits
    BY <1>1, <1>3, <1>7, FirstPlace, Zenon
  <2>2. f \in Nat /\ f # 0 /\ f \in DOMAIN c /\ Live(c, f) /\ c[f].key = k
    <3> HIDE DEF f
    <3> QED
      BY <2>1, <1>1, <1>2
  <2> QED
    BY <2>2
<1> QED
  BY <1>6, <1>7

\* _keybox_read_blob finds a blob behind the offset, and that at the offset if it
\* is live.
LEMMA ReadResult ==
  ASSUME NEW c \in Seq(Blob), NEW i \in Nat \ {0}
  PROVE  /\ ReadBlob(c, i) # 0 => ReadBlob(c, i) \in i..Len(c)
         /\ Live(c, i) => ReadBlob(c, i) = i
<1> DEFINE at == {l \in i..Len(c) : ~c[l].del}
           j == First(at)
<1>1. at \subseteq Nat \ {0} /\ at \subseteq i..Len(c)
  OBVIOUS
<1>2. ReadBlob(c, i) = IF j # 0 /\ c[j] = Junk THEN 0 ELSE j
  BY DEF ReadBlob
<1>3. Live(c, i) => i \in at /\ c[i] # Junk
  BY DEF Live
<1> HIDE DEF at
<1>4. j # 0 => j \in at
  BY <1>1, FirstPlace, Zenon
<1>5. ASSUME Live(c, i)
      PROVE  j = i
  <2>1. i \in at /\ \A l \in at : i <= l
    BY <1>1, <1>3, <1>5
  <2> QED
    BY <1>1, <2>1, FirstPlace, Zenon
<1> HIDE DEF j
<1> QED
  BY <1>1, <1>2, <1>3, <1>4, <1>5, Zenon

\* Two parts of a file, one behind the other.
LEMMA Joined ==
  ASSUME NEW s \in Seq(Blob), NEW t \in Seq(Blob)
  PROVE  /\ s \o t \in Seq(Blob) /\ Len(s \o t) = Len(s) + Len(t)
         /\ DOMAIN (s \o t) = 1..(Len(s) + Len(t))
         /\ \A j \in 1..Len(s) : (s \o t)[j] = s[j]
         /\ \A j \in 1..Len(t) : (s \o t)[Len(s) + j] = t[j]
<1>1. s \o t \in Seq(Blob) /\ Len(s \o t) = Len(s) + Len(t)
  OBVIOUS
<1>2. DOMAIN (s \o t) = 1..(Len(s) + Len(t))
  BY <1>1
<1>3. \A j \in 1..Len(s) : (s \o t)[j] = s[j]
  OBVIOUS
<1>4. \A j \in 1..Len(t) : (s \o t)[Len(s) + j] = t[j]
  OBVIOUS
<1> QED
  BY <1>1, <1>2, <1>3, <1>4

\* FILECOPY_UPDATE writes blobs of the old file and the new one; if the offset is
\* that of a live blob, just that blob is replaced.
LEMMA ReplacedResult ==
  ASSUME NEW c \in Seq(Blob), NEW i \in Nat \ {0}, NEW b \in Blob, ReadBlob(c, i) # 0
  PROVE  /\ Replaced(c, i, b) \in Seq(Blob)
         /\ \A j \in DOMAIN Replaced(c, i, b) :
              Replaced(c, i, b)[j].key = b.key \/ \E l \in DOMAIN c : Replaced(c, i, b)[j].key = c[l].key
         /\ Live(c, i) => Edited(c, Replaced(c, i, b), i, b)
<1> DEFINE m == ReadBlob(c, i)
           n == Len(c)
           s1 == SubSeq(c, 1, i - 1)
           s2 == SubSeq(c, m + 1, n)
           d == Replaced(c, i, b)
<1>1. m \in i..n /\ n \in Nat /\ m \in Nat /\ i <= n
  BY ReadResult
<1>2. d = s1 \o <<b>> \o s2
  BY DEF Replaced
<1>3. Live(c, i) => m = i
  BY ReadResult
<1> HIDE DEF m
<1>4. s1 \in Seq(Blob) /\ Len(s1) = i - 1 /\ \A j \in 1..(i - 1) : s1[j] = c[j]
  BY <1>1
<1>5. s2 \in Seq(Blob) /\ Len(s2) = n - m /\ \A j \in 1..(n - m) : s2[j] = c[m + j]
  BY <1>1
<1> HIDE DEF n, s1, s2
<1> DEFINE t == s1 \o <<b>>
<1>6. t \in Seq(Blob) /\ Len(t) = i /\ t[i] = b /\ \A j \in 1..(i - 1) : t[j] = c[j]
  BY <1>4
<1>7. d = t \o s2
  BY <1>2
<1> HIDE DEF t, d
<1>8. /\ d \in Seq(Blob) /\ Len(d) = i + (n - m) /\ DOMAIN d = 1..(i + (n - m))
      /\ \A j \in 1..i : d[j] = t[j]
      /\ \A j \in 1..(n - m) : d[i + j] = s2[j]
  <2>1. n - m \in Nat
    BY <1>1
  <2>2. /\ t \o s2 \in Seq(Blob) /\ Len(t \o s2) = Len(t) + Len(s2)
        /\ DOMAIN (t \o s2) = 1..(Len(t) + Len(s2))
        /\ \A j \in 1..Len(t) : (t \o s2)[j] = t[j]
        /\ \A j \in 1..Len(s2) : (t \o s2)[Len(t) + j] = s2[j]
    BY <1>5, <1>6, Joined, Zenon
  <2> QED
    BY <2>1, <2>2, <1>5, <1>6, <1>7
<1>9. DOMAIN c = 1..n
  BY DEF n
<1>10. ASSUME NEW j \in DOMAIN d
       PROVE  d[j] = b \/ \E l \in DOMAIN c : d[j] = c[l]
  <2>1. CASE j < i
    BY <2>1, <1>1, <1>6, <1>8, <1>9, <1>10
  <2>2. CASE j = i
    BY <2>2, <1>6, <1>8
  <2>3. CASE j > i
    <3>1. (j - i) \in 1..(n - m) /\ i + (j - i) = j
      BY <2>3, <1>1, <1>8, <1>10
    <3>2. d[j] = c[m + (j - i)]
      BY <3>1, <1>5, <1>8
    <3>3. m + (j - i) \in DOMAIN c
      BY <3>1, <1>1, <1>9
    <3> QED
      BY <3>2, <3>3
  <2> QED
    BY <2>1, <2>2, <2>3, <1>8, <1>10
<1>11. ASSUME Live(c, i)
       PROVE  Edited(c, d, i, b)
  <2>1. m = i /\ DOMAIN d = 1..n
    BY <1>3, <1>8, <1>1, <1>11
  <2>2. ASSUME NEW j \in 1..n
        PROVE  d[j] = IF j = i THEN b ELSE c[j]
    <3>1. CASE j <= i
      BY <3>1, <2>2, <1>6, <1>8, <1>9
    <3>2. CASE j > i
      <4>1. (j - i) \in 1..(n - m) /\ i + (j - i) = j
        BY <3>2, <2>1, <2>2, <1>1
      <4>2. d[j] = c[m + (j - i)]
        BY <4>1, <1>5, <1>8
      <4>3. m + (j - i) = j
        BY <2>1, <4>1
      <4> QED
        BY <4>2, <4>3, <3>2, <2>2, <1>9
    <3> QED
      BY <3>1, <3>2, <1>1
  <2> QED
    BY <1>1, <1>8, <1>9, <2>1, <2>2 DEF Edited
<1> QED
  BY <1>8, <1>10, <1>11 DEF d

\* What a writer puts into an empty temporary file: blobs of its key and of the old
\* file; and that is what its command makes of the old file.
LEMMA Written ==
  ASSUME NEW c \in Seq(Blob), NEW h \in Handle, h.key \in Keys, ~CopyFails(c, h),
         h.mode # "none",
         h.mode = "update" =>
            h.found # 0 /\ (h.fresh => Live(c, h.found) /\ Hit(c, h) /\ c[h.found].ver = h.base),
         NEW d0 \in NewContents(c, h)
  PROVE  LET d == Overlay(<<>>, d0) IN
         /\ d \in Seq(Blob)
         /\ \A j \in DOMAIN d : d[j].key = h.key \/ \E i \in DOMAIN c : d[j].key = c[i].key
         /\ h.mode = "compress" => \A j \in DOMAIN d : \E i \in DOMAIN c : d[j].key = c[i].key
         /\ \A k \in Keys : (h.mode = "compress" \/ k # h.key) /\ (h.mode = "update" => h.fresh) =>
               Versions(d, k) = Versions(c, k)
         /\ /\ Sound(c) /\ (h.mode = "update" => h.fresh)
            /\ h.mode = "insert" => Versions(c, h.key) = {}
            => Sound(d) /\ (h.mode = "update" => Versions(c, h.key) = {h.base})
<1> DEFINE b == NewBlob(h)
           d == d0
<1>1. b \in Blob /\ b.key = h.key /\ ~b.del /\ b # Junk
  <2>1. h.id \in Nat /\ h.found \in Nat
    BY DEF Handle
  <2> QED
    BY <2>1, OpsAssumption DEF NewBlob, Blob, Junk
<1> HIDE DEF b
<1>2. ASSUME NEW e \in Seq(Blob)
      PROVE  Overlay(<<>>, e) = e
  <2>1. SubSeq(<<>>, Len(e) + 1, 0) = <<>>
    OBVIOUS
  <2>2. e \o <<>> = e
    OBVIOUS
  <2> QED
    BY <2>1, <2>2 DEF Overlay
<1>3. CASE h.mode = "insert"
  <2>1. d = Append(c, b)
    BY <1>3 DEF NewContents, b
  <2> HIDE DEF d
  <2>2. /\ d \in Seq(Blob)
        /\ \A k \in Keys \ {h.key} : Versions(d, k) = Versions(c, k)
        /\ Sound(c) /\ Versions(c, h.key) = {} => Sound(d)
        /\ \A j \in DOMAIN d : d[j].key = h.key \/ \E i \in DOMAIN c : d[j].key = c[i].key
    BY <1>1, <2>1, Appended
  <2>3. Overlay(<<>>, d) = d
    BY <1>2, <2>2
  <2> QED
    BY <1>3, <2>2, <2>3 DEF d
<1>4. CASE h.mode = "compress"
  <2>1. PICK f \in Kept(c) : d = [i \in DOMAIN f |-> c[f[i]]]
    BY <1>4 DEF NewContents
  <2> HIDE DEF d
  <2>2. /\ d \in Seq(Blob)
        /\ \A k \in Keys : Versions(d, k) = Versions(c, k)
        /\ Sound(c) => Sound(d)
        /\ \A j \in DOMAIN d : \E i \in DOMAIN c : d[j].key = c[i].key
    BY <2>1, Compressed
  <2>3. Overlay(<<>>, d) = d
    BY <1>2, <2>2
  <2> QED
    BY <1>4, <2>2, <2>3 DEF d
<1>5. CASE h.mode = "update"
  <2>0. h.found \in Nat \ {0} /\ ReadBlob(c, h.found) # 0
    BY <1>5 DEF Handle, CopyFails
  <2>1. d = Replaced(c, h.found, b)
    BY <1>5 DEF NewContents, b
  <2> HIDE DEF d
  <2>2. /\ d \in Seq(Blob)
        /\ \A j \in DOMAIN d : d[j].key = h.key \/ \E i \in DOMAIN c : d[j].key = c[i].key
        /\ Live(c, h.found) => Edited(c, d, h.found, b)
    <3> DEFINE i == h.found
               k == h.key
    <3>1. i \in Nat \ {0} /\ ReadBlob(c, i) # 0 /\ d = Replaced(c, i, b)
      BY <2>0, <2>1
    <3>2. k = b.key
      BY <1>1
    <3> HIDE DEF i
    <3>3. /\ d \in Seq(Blob)
          /\ \A j \in DOMAIN d : d[j].key = b.key \/ \E l \in DOMAIN c : d[j].key = c[l].key
          /\ Live(c, i) => Edited(c, d, i, b)
      BY <1>1, <3>1, ReplacedResult, Zenon
    <3> QED
      BY <3>2, <3>3 DEF i
  <2>3. Overlay(<<>>, d) = d
    BY <1>2, <2>2
  <2>4. ASSUME h.fresh
        PROVE  /\ \A k \in Keys \ {h.key} : Versions(d, k) = Versions(c, k)
               /\ Sound(c) => Sound(d) /\ Versions(c, h.key) = {h.base}
    <3>1. /\ Live(c, h.found) /\ h.found \in DOMAIN c /\ c[h.found].key = b.key
          /\ c[h.found].ver = h.base /\ ~c[h.found].del
      BY <1>1, <1>5, <2>4 DEF Hit, Live
    <3>2. Edited(c, d, h.found, b)
      BY <2>2, <3>1
    <3>3. /\ \A k \in Keys \ {b.key} : Versions(d, k) = Versions(c, k)
          /\ Sound(c) => Sound(d)
      <4> DEFINE i == h.found
      <4>1. /\ i \in DOMAIN c /\ b.key = c[i].key /\ ~c[i].del /\ b \in Blob /\ b # Junk
            /\ Edited(c, d, i, b)
        BY <1>1, <3>1, <3>2
      <4> HIDE DEF i
      <4> QED
        BY <4>1, Changed
    <3>4. Sound(c) => Versions(c, h.key) = {h.base}
      BY <1>1, <3>1 DEF Sound, Versions
    <3> QED
      BY <1>1, <3>3, <3>4
  <2> QED
    BY <1>5, <2>2, <2>3, <2>4 DEF d
<1>6. h.mode \in {"insert", "update", "compress"}
  BY DEF Handle
<1> QED
  BY <1>3, <1>4, <1>5, <1>6

\* keybox_delete and keybox_set_flags: what is written in place has the key that
\* was there, except behind the end of the file.
LEMMA Patched ==
  ASSUME NEW c \in Seq(Blob), NEW h \in Handle
  PROVE  LET d == Patch(c, h.found, h) IN
         /\ d \in Seq(Blob)
         /\ DOMAIN c \subseteq DOMAIN d /\ \A j \in DOMAIN c : d[j].key = c[j].key
         /\ \A j \in DOMAIN d : d[j].key = NoKey \/ \E i \in DOMAIN c : d[j].key = c[i].key
         /\ Hit(c, h) => /\ \A k \in Keys \ {h.key} : Versions(d, k) = Versions(c, k)
                         /\ Sound(c) => Sound(d)
<1> DEFINE i == h.found
           d == Patch(c, i, h)
<1>1. CASE i \notin DOMAIN c
  <2>1. Junk \in Blob /\ Junk.key = NoKey
    BY DEF Junk, Blob, Fresh
  <2>2. d = Append(c, Junk)
    BY <1>1 DEF Patch
  <2> HIDE DEF d
  <2>3. /\ d \in Seq(Blob) /\ DOMAIN c \subseteq DOMAIN d
        /\ \A j \in DOMAIN c : d[j] = c[j]
        /\ \A j \in DOMAIN d : d[j] = Junk \/ j \in DOMAIN c
    BY <2>1, <2>2
  <2> QED
    BY <1>1, <2>1, <2>3 DEF d, Hit
<1>2. CASE i \in DOMAIN c /\ c[i] = Junk
  <2>1. d = c
    BY <1>2 DEF Patch
  <2> HIDE DEF d
  <2> QED
    BY <2>1 DEF d
<1>3. CASE i \in DOMAIN c /\ c[i] # Junk
  <2>0. c[i] \in Blob /\ h.id \in Nat
    BY <1>3 DEF Handle
  <2> DEFINE b == IF h.op = "setflags" THEN [c[i] EXCEPT !.ver = h.id] ELSE [c[i] EXCEPT !.del = TRUE]
  <2>1. d = [c EXCEPT ![i] = b]
    BY <1>3, Zenon DEF Patch
  <2>2. b \in Blob /\ b.key = c[i].key /\ (~b.del => ~c[i].del)
    BY <2>0, Zenon DEF Blob
  <2> HIDE DEF b, d, i
  <2>3. i \in DOMAIN c /\ Edited(c, d, i, b)
    BY <1>3, <2>1, <2>2 DEF Edited
  <2>5. /\ \A j \in DOMAIN c : d[j].key = c[j].key
        /\ \A k \in Keys \ {b.key} : Versions(d, k) = Versions(c, k)
        /\ Sound(c) /\ b # Junk => Sound(d)
    BY <2>2, <2>3, Changed
  <2>6. d \in Seq(Blob) /\ DOMAIN d = DOMAIN c
    BY <2>3 DEF Edited
  <2>4. Hit(c, h) => b.key = h.key /\ b # Junk
    BY <2>2, OpsAssumption DEF Hit, Junk, i
  <2> QED
    BY <2>4, <2>5, <2>6 DEF d, i
<1> QED
  BY <1>1, <1>2, <1>3

-----------------------------------------------------------------------------
(* What a step of one process leaves alone. *)

\* The step is one of p: the other handles stay, and so does a lock of theirs.
StepOf(p) ==
    /\ hd' \in [Procs -> Handle]
    /\ \A q \in Procs \ {p} : hd'[q] = hd[q] /\ (lock = q => lock' = q)
    /\ misplaced => misplaced'
    /\ sessions' \in Nat
    /\ \/ hd'[p].key \in {NoKey, hd[p].key}
       \/ \A q \in Procs \ {p} : hd[q].op = "generate" => hd'[p].key # hd[q].key

\* No name and no file in use is changed.
Quiet ==
    /\ dir' = dir
    /\ disk' \in [Inodes -> Seq(Blob)]
    /\ \A i \in Inodes : disk'[i] = IF i \in InUse(dir', hd') THEN disk[i] ELSE <<>>

\* What p does with the lock: the files that others have open keep their keys, and
\* no key of others turns up.
Exclusive(p) ==
    /\ lock \in {p, NoProc}
    /\ \A q \in Procs \ {p} : hd[q].fp # NoInode =>
          /\ hd[q].fp # dir'["tmp"]
          /\ DOMAIN disk[hd[q].fp] \subseteq DOMAIN disk'[hd[q].fp]
          /\ \A j \in DOMAIN disk[hd[q].fp] : disk'[hd[q].fp][j].key = disk[hd[q].fp][j].key
    /\ \A i \in Inodes : \A j \in DOMAIN disk'[i] :
          \/ disk'[i][j].key \in {NoKey, hd[p].key}
          \/ \E l \in Inodes : \E m \in DOMAIN disk[l] : disk[l][m].key = disk'[i][j].key

\* A named file and an open one are in use.
LEMMA Used ==
  ASSUME NEW d \in [Names -> Inodes \cup {NoInode}], NEW h \in [Procs -> Handle]
  PROVE  /\ \A n \in Names : d[n] \in InUse(d, h)
         /\ \A q \in Procs : h[q].fp \in InUse(d, h)
  BY DEF InUse

\* The keys of the commands that run.
LEMMA GenKeys ==
  ASSUME Good, NEW p \in Procs, NEW q \in Procs \ {p}, StepOf(p), hd[q].op = "generate"
  PROVE  hd[q].key \in Keys /\ \A r \in Procs \ {q} : hd'[r].key # hd[q].key
<1>1. Generator(q) /\ hd[q].pc # "off" /\ hd[q].key \in Keys /\ hd[q].key # NoKey
  BY OpsAssumption DEF Good, Own, Generator, Off
<1>2. ASSUME NEW r \in Procs \ {q}
      PROVE  hd'[r].key # hd[q].key
  <2>1. hd[r].key # hd[q].key
    BY <1>1 DEF Generator
  <2>2. CASE r = p
    BY <1>1, <2>1, <2>2 DEF StepOf
  <2>3. CASE r # p
    BY <2>1, <2>3 DEF StepOf
  <2> QED
    BY <2>2, <2>3
<1> QED
  BY <1>1, <1>2

\* A step of p that leaves names and files alone disturbs no other process.
LEMMA QuietStep ==
  ASSUME Good, NEW p \in Procs, StepOf(p), Quiet, Own(p)'
  PROVE  Good'
<1>1. /\ Types /\ Files /\ dir' = dir
      /\ dir \in [Names -> Inodes \cup {NoInode}]
      /\ hd \in [Procs -> Handle] /\ hd' \in [Procs -> Handle]
  BY DEF Good, Types, StepOf, Quiet
<1>2. Types'
  BY <1>1 DEF Types, StepOf, Quiet
<1>3. \A n \in Names : Exists(n) => dir[n] \in Inodes /\ disk'[dir[n]] = disk[dir[n]]
  BY <1>1, Used DEF Quiet, Exists
<1>4. \A q \in Procs : hd'[q].fp # NoInode => hd'[q].fp \in Inodes /\ disk'[hd'[q].fp] = disk[hd'[q].fp]
  <2>1. \A q \in Procs : hd'[q].fp \in Inodes \cup {NoInode}
    BY <1>1 DEF Handle
  <2> QED
    BY <1>1, <2>1, Used DEF Quiet
<1>5. \A n \in Names : Exists(n)' <=> Exists(n)
  BY <1>1 DEF Exists
<1>6. Files'
  BY <1>1, <1>5 DEF Files, Quiet, Names
<1>7. (misplaced \/ Clean)'
  <2>1. "fname" \in Names /\ "bak" \in Names /\ "tmp" \in Names
    BY DEF Names
  <2>2. misplaced \/ Clean
    BY DEF Good
  <2>3. Clean => Clean'
    BY <1>1, <1>3, <1>5, <2>1 DEF Clean, Files
  <2> QED
    BY <2>2, <2>3 DEF StepOf
<1>8. ASSUME NEW q \in Procs, q # p
      PROVE  Own(q)'
  <2>1. hd'[q] = hd[q] /\ Own(q) /\ (lock = q => lock' = q) /\ (misplaced => misplaced')
    BY <1>8 DEF Good, StepOf
  <2>2. "fname" \in Names /\ "bak" \in Names /\ "tmp" \in Names
    BY DEF Names
  <2>3. Reader(q)'
    BY <1>1, <1>4, <2>1, Zenon DEF Own, Reader
  <2>6. Holder(q)'
    BY <1>1, <1>3, <1>5, <2>1, <2>2 DEF Own, Holder
  <2>4. Writer(q)'
    <3>1. \A c, d : Before(c, hd[q]) /\ (Exists("fname") => c = d) => Before(d, hd[q])'
      BY <1>5, <2>1, <2>2 DEF Before
    <3>2. hd[q].pc = "rename1" => Exists("fname") /\ Exists("tmp")
      BY <2>1, ZenonT(30) DEF Own, Holder
    <3>3. hd[q].pc = "rename2" => Exists("bak") /\ Exists("tmp")
      BY <2>1 DEF Own, Holder, Writer
    <3>4. \A c, d : Made(c, d, hd[q]) => Made(c, d, hd[q])'
      BY <2>1, ZenonT(30) DEF Made
    <3>5. hd[q].pc \in {"access", "copy", "write"} => Before(disk[dir["fname"]], hd[q])'
      BY <1>1, <1>3, <2>1, <2>2, <3>1, ZenonT(30) DEF Own, Writer
    <3>6. hd[q].pc = "rename1" => Made(disk[dir["fname"]], disk[dir["tmp"]], hd[q])'
      BY <1>1, <1>3, <2>1, <2>2, <3>2, <3>4, ZenonT(30) DEF Own, Writer
    <3>7. hd[q].pc = "rename2" => /\ ~Exists("fname")' /\ Exists("bak")'
                                  /\ Made(disk[dir["bak"]], disk[dir["tmp"]], hd[q])'
      BY <1>1, <1>3, <1>5, <2>1, <2>2, <3>3, <3>4 DEF Own, Writer
    <3> QED
      BY <2>1, <3>5, <3>6, <3>7 DEF Writer
  <2>5. Generator(q)'
    <3>1. hd[q].op = "generate" => \A r \in Procs \ {q} : hd'[r].key # hd[q].key
      BY <1>8, GenKeys
    <3>2. \A i \in Inodes : \A j \in DOMAIN disk'[i] : j \in DOMAIN disk[i] /\ disk'[i][j] = disk[i][j]
      BY DEF Quiet
    <3> QED
      BY <2>1, <3>1, <3>2 DEF Own, Generator
  <2> QED
    BY <2>3, <2>4, <2>5, <2>6 DEF Own
<1> QED
  BY <1>2, <1>6, <1>7, <1>8 DEF Good

\* Nor does a step with the lock that changes files.
LEMMA ExclusiveStep ==
  ASSUME Good, NEW p \in Procs, StepOf(p), Exclusive(p), Types', Files', (misplaced \/ Clean)',
         Own(p)'
  PROVE  Good'
<1>1. ASSUME NEW q \in Procs, q # p
      PROVE  Own(q)'
  <2>1. hd'[q] = hd[q] /\ Own(q)
    BY <1>1 DEF Good, StepOf
  <2>2. hd[q].pc \notin Critical
    BY <1>1, <2>1, OpsAssumption, Zenon DEF Own, Holder, Exclusive
  <2>3. Reader(q)'
    <3>1. Reader(q)
      BY <2>1, Zenon DEF Own
    <3>2. hd[q].fp # NoInode /\ hd[q].found # 0 => Hit(disk'[hd[q].fp], hd[q])
      BY <1>1, <3>1 DEF Reader, Exclusive, Hit
    <3>3. hd[q].fp # NoInode => hd[q].fp # dir'["tmp"]
      BY <1>1 DEF Exclusive
    <3> QED
      BY <2>1, <3>1, <3>2, <3>3 DEF Reader
  <2>4. Holder(q)' /\ Writer(q)'
    BY <2>1, <2>2, Zenon DEF Own, Holder, Writer, Critical
  <2>5. Generator(q)'
    <3>1. hd[q].op = "generate" =>
             hd[q].key # NoKey /\ hd[q].key # hd[p].key /\ \A r \in Procs \ {q} : hd'[r].key # hd[q].key
      BY <1>1, <2>1, GenKeys, OpsAssumption, ZenonT(30) DEF Own, Generator
    <3>2. hd[q].op = "generate" =>
             \/ hd[q].pc = "exit"
             \/ \A i \in Inodes : \A j \in DOMAIN disk[i] : disk[i][j].key # hd[q].key
      BY <2>1, <2>2, ZenonT(30) DEF Own, Generator, Critical
    <3>3. hd[q].op = "generate" =>
             \/ hd[q].pc = "exit"
             \/ \A i \in Inodes : \A j \in DOMAIN disk'[i] : disk'[i][j].key # hd[q].key
      BY <3>1, <3>2 DEF Exclusive
    <3> QED
      BY <2>1, <3>1, <3>3, Zenon DEF Own, Generator
  <2> QED
    BY <2>3, <2>4, <2>5 DEF Own
<1> QED
  BY <1>1 DEF Good

-----------------------------------------------------------------------------
(* The steps that leave names and files alone. *)

\* A step that keeps the files a process has open leaves the disk as it is.
LEMMA SameFiles ==
  ASSUME Good, NEW p \in Procs, StepOf(p), UNCHANGED <<disk, dir>>,
         hd'[p].fp = hd[p].fp, hd'[p].src = hd[p].src, hd'[p].new = hd[p].new
  PROVE  Quiet
<1>1. \A q \in Procs : hd'[q].fp = hd[q].fp /\ hd'[q].src = hd[q].src /\ hd'[q].new = hd[q].new
  BY DEF StepOf
<1>2. InUse(dir', hd') = InUse(dir, hd)
  BY <1>1 DEF InUse
<1> QED
  BY <1>2 DEF Quiet, Good, Types, Files

\* Names, handles and contents after SetFiles.
LEMMA FilesSet ==
  ASSUME NEW d, NEW h, NEW c, SetFiles(d, h, c), \A i \in Inodes : c[i] \in Seq(Blob)
  PROVE  /\ dir' = d /\ hd' = h
         /\ disk' \in [Inodes -> Seq(Blob)]
         /\ \A i \in Inodes : disk'[i] = IF i \in InUse(dir', hd') THEN c[i] ELSE <<>>
<1>1. <<>> \in Seq(Blob)
  OBVIOUS
<1> QED
  BY <1>1 DEF SetFiles

\* A command goes on with its key.
GoesOn(p) ==
    /\ hd'[p].op = hd[p].op /\ hd'[p].key = hd[p].key
    /\ hd[p].pc # "off" /\ hd'[p].pc # "off"

\* A key that is being generated stays unknown in a quiet step.
LEMMA GeneratorKept ==
  ASSUME Good, NEW p \in Procs, StepOf(p), Quiet, GoesOn(p),
         hd[p].op = "generate" => /\ hd[p].pc \notin {"rename1", "rename2", "exit"}
                                  /\ hd'[p].pc \notin {"search", "find", "inplace"}
                                  /\ hd'[p].mode # "update"
  PROVE  Generator(p)'
<1>1. Generator(p)
  BY DEF Good, Own
<1>2. \A q \in Procs \ {p} : hd'[q].key = hd[q].key
  BY DEF StepOf
<1>3. \A i \in Inodes : \A j \in DOMAIN disk'[i] : j \in DOMAIN disk[i] /\ disk'[i][j] = disk[i][j]
  BY DEF Quiet
<1> QED
  BY <1>1, <1>2, <1>3 DEF Generator, GoesOn

\* A process that comes to a place where it needs no lock.
LEMMA NotCritical ==
  ASSUME NEW p \in Procs, hd'[p].pc \notin Critical, hd'[p].src = NoInode, hd'[p].new = NoInode
  PROVE  Holder(p)' /\ Writer(p)'
  BY DEF Holder, Writer, Critical

\* maybe_create_keyring_or_box, first test: a command starts.
LEMMA StartStep ==
  ASSUME Good, NEW p \in Procs, NEW op \in Ops, NEW k \in Keys, Start(p, op, k)
  PROVE  Good'
<1>1. hd \in [Procs -> Handle] /\ sessions \in Nat /\ op \in AllOps
  BY OpsAssumption DEF Good, Types
<1>2. LET r == hd'[p] IN
      /\ r \in Handle
      /\ r.pc \in {"compress", "create"} /\ r.op = op /\ r.key = k /\ r.fp = NoInode /\ r.mode = "none"
      /\ r.src = NoInode /\ r.new = NoInode
  <2> DEFINE pc == IF Exists("fname") THEN "compress" ELSE "create"
             n == sessions + 1
             o == Off
             r == [o EXCEPT !.pc = pc, !.op = op, !.key = k, !.id = n]
  <2>1. /\ o \in Handle /\ o.fp = NoInode /\ o.src = NoInode /\ o.new = NoInode
        /\ o.mode = "none" /\ pc \in {"compress", "create"} /\ n \in Nat
    BY <1>1 DEF Off, Handle, PCs, NoInode
  <2>2. hd'[p] = r
    BY <1>1 DEF Start
  <2>3. pc \in PCs
    BY <2>1 DEF PCs
  <2> HIDE DEF o, pc, n
  <2>4. /\ r \in Handle /\ r.pc = pc /\ r.op = op /\ r.key = k
        /\ r.fp = o.fp /\ r.mode = o.mode /\ r.src = o.src /\ r.new = o.new
    BY <1>1, <2>1, <2>3, Zenon DEF Handle
  <2> QED
    BY <2>1, <2>2, <2>4
<1>3. hd' \in [Procs -> Handle] /\ \A q \in Procs \ {p} : hd'[q] = hd[q]
  BY <1>1, <1>2 DEF Start
<1>4. StepOf(p)
  BY <1>1, <1>2, <1>3 DEF StepOf, Start
<1>5. Quiet
  <2>1. hd[p].fp = NoInode /\ hd[p].src = NoInode /\ hd[p].new = NoInode
    BY DEF Start, Off
  <2> QED
    BY <1>2, <1>4, <2>1, SameFiles DEF Start
<1>6. Reader(p)'
  BY <1>2 DEF Reader
<1>7. Holder(p)' /\ Writer(p)'
  BY <1>2, NotCritical DEF Critical
<1>8. Generator(p)'
  <2>1. op = "generate" => \A i \in Inodes : \A j \in DOMAIN disk[i] : disk[i][j].key # k
    BY DEF Start, Known, Good, Files, Inodes, NoInode
  <2> QED
    BY <1>2, <1>3, <1>1, <2>1 DEF Generator, Start
<1> QED
  BY <1>4, <1>5, <1>6, <1>7, <1>8, QuietStep DEF Own

\* What the fields of a handle become: place and mode.
LEMMA GotoHandle ==
  ASSUME hd \in [Procs -> Handle], NEW p \in Procs, NEW pc \in PCs
  PROVE  LET r == Goto(p, pc)[p] IN
         /\ Goto(p, pc) \in [Procs -> Handle]
         /\ \A q \in Procs \ {p} : Goto(p, pc)[q] = hd[q]
         /\ r.pc = pc /\ r.op = hd[p].op /\ r.key = hd[p].key /\ r.mode = hd[p].mode
         /\ r.fp = hd[p].fp /\ r.fresh = hd[p].fresh /\ r.found = hd[p].found /\ r.base = hd[p].base
         /\ r.src = hd[p].src /\ r.new = hd[p].new
  BY DEF Goto, Handle

\* keydb_add_resource is done.
LEMMA BeginHandle ==
  ASSUME NEW h \in Handle
  PROVE  LET r == Begin(h) IN
         /\ r \in Handle
         /\ r.pc = IF h.op \in SearchFirst THEN "search" ELSE "lock"
         /\ r.op = h.op /\ r.key = h.key /\ r.fp = h.fp /\ r.found = h.found
         /\ r.mode = "none" /\ r.src = NoInode /\ r.new = NoInode
<1> DEFINE pc == IF h.op \in SearchFirst THEN "search" ELSE "lock"
<1>1. pc \in PCs
  BY DEF PCs
<1>2. Begin(h) = [h EXCEPT !.pc = pc, !.mode = "none", !.src = NoInode, !.new = NoInode]
  BY DEF Begin
<1> HIDE DEF pc
<1>3. LET r == Begin(h) IN
      /\ r \in Handle /\ r.pc = pc
      /\ r.op = h.op /\ r.key = h.key /\ r.fp = h.fp /\ r.found = h.found
      /\ r.mode = "none" /\ r.src = NoInode /\ r.new = NoInode
  BY <1>1, <1>2, Zenon DEF Handle
<1> QED
  BY <1>3 DEF pc

\* lock_all is done.
LEMMA LockedHandle ==
  ASSUME NEW h \in Handle
  PROVE  LET r == Locked(h) IN
         /\ r \in Handle
         /\ r.pc = IF h.op = "generate" THEN "access" ELSE IF h.op = "keydelete" THEN "inplace" ELSE "find"
         /\ r.mode = IF h.op = "generate" THEN "insert" ELSE "none"
         /\ r.fresh = (h.op = "generate" \/ h.fp = dir["fname"])
         /\ r.op = h.op /\ r.key = h.key /\ r.fp = h.fp /\ r.found = h.found /\ r.base = h.base
         /\ r.src = h.src /\ r.new = h.new
  BY ZenonT(30) DEF Locked, Handle, PCs

\* What a process has found in its open file stays in a quiet step.
LEMMA ReaderKept ==
  ASSUME Good, NEW p \in Procs, StepOf(p), Quiet, GoesOn(p),
         hd'[p].fp = hd[p].fp, hd'[p].found = hd[p].found,
         hd'[p].op \in SearchFirst \/ hd'[p].fp = NoInode \/ hd'[p].pc \in {"access", "inplace", "exit"},
         hd'[p].op \in SearchFirst /\ hd'[p].pc \in {"lock", "take"} => hd'[p].fp # NoInode /\ hd'[p].found # 0,
         hd'[p].pc = "search" => hd'[p].op \in SearchFirst
  PROVE  Reader(p)'
<1>1. Reader(p) /\ dir \in [Names -> Inodes \cup {NoInode}] /\ hd' \in [Procs -> Handle]
      /\ hd[p].fp \in Inodes \cup {NoInode}
  BY ZenonT(30) DEF Good, Own, Types, StepOf, Handle
<1>2. hd[p].fp # NoInode => disk'[hd[p].fp] = disk[hd[p].fp]
  BY <1>1, Used DEF Quiet
<1> QED
  BY <1>1, <1>2 DEF Reader, GoesOn, Quiet, Hit

\* maybe_create_keyring_or_box finds the file, or may not create it.
LEMMA CreateQuietStep ==
  ASSUME Good, NEW p \in Procs, Create(p), dir' = dir, disk' = disk, hd' = Goto(p, "compress") \/ hd' = Goto(p, "exit")
  PROVE  Good'
<1>1. hd \in [Procs -> Handle] /\ sessions \in Nat /\ Own(p)
  BY DEF Good, Types
<1>2. LET r == hd'[p] IN
      /\ hd' \in [Procs -> Handle]
      /\ \A q \in Procs \ {p} : hd'[q] = hd[q]
      /\ r.pc \in {"compress", "exit"} /\ r.op = hd[p].op /\ r.key = hd[p].key /\ r.mode = hd[p].mode
      /\ r.fp = hd[p].fp /\ r.found = hd[p].found /\ r.src = hd[p].src /\ r.new = hd[p].new
  <2>1. "compress" \in PCs /\ "exit" \in PCs
    BY DEF PCs
  <2> QED
    BY <1>1, <2>1, GotoHandle
<1>3. StepOf(p) /\ GoesOn(p)
  BY <1>1, <1>2, ZenonT(30) DEF StepOf, GoesOn, Create
<1>4. Quiet
  BY <1>2, <1>3, SameFiles
<1>5. Reader(p)'
  <2>1. hd[p].pc = "create"
    BY DEF Create
  <2>2. hd[p].op \in SearchFirst \/ hd[p].fp = NoInode
    BY <1>1, <2>1 DEF Own, Reader
  <2> QED
    BY <1>2, <1>3, <1>4, <2>2, ReaderKept, ZenonT(30)
<1>6. Holder(p)' /\ Writer(p)'
  <2>1. hd[p].src = NoInode /\ hd[p].new = NoInode
    BY <1>1, ZenonT(30) DEF Own, Holder, Create
  <2> QED
    BY <1>2, <2>1, NotCritical DEF Critical
<1>7. Generator(p)'
  BY <1>1, <1>2, <1>3, <1>4, GeneratorKept DEF Create, Own, Generator
<1> QED
  BY <1>3, <1>4, <1>5, <1>6, <1>7, QuietStep DEF Own

\* keydb_add_resource does not compress.
LEMMA NoCompressStep ==
  ASSUME Good, NEW p \in Procs, Compress(p), hd' = [hd EXCEPT ![p] = Begin(@)],
         UNCHANGED <<disk, dir, lock>>
  PROVE  Good'
<1>1. hd \in [Procs -> Handle] /\ sessions \in Nat /\ Own(p) /\ hd[p].pc = "compress"
  BY DEF Good, Types, Compress
<1>2. LET r == hd'[p] IN
      /\ hd' \in [Procs -> Handle]
      /\ \A q \in Procs \ {p} : hd'[q] = hd[q]
      /\ r.pc = IF hd[p].op \in SearchFirst THEN "search" ELSE "lock"
      /\ r.op = hd[p].op /\ r.key = hd[p].key /\ r.mode = "none"
      /\ r.fp = hd[p].fp /\ r.found = hd[p].found /\ r.src = NoInode /\ r.new = NoInode
  BY <1>1, BeginHandle
<1>3. StepOf(p) /\ GoesOn(p)
  BY <1>1, <1>2 DEF StepOf, GoesOn, Compress
<1>4. Quiet
  BY <1>1, <1>2, <1>3, SameFiles DEF Own, Holder
<1>5. Reader(p)'
  <2>1. hd[p].op \in SearchFirst \/ hd[p].fp = NoInode
    BY <1>1 DEF Own, Reader
  <2> QED
    BY <1>2, <1>3, <1>4, <2>1, ReaderKept, ZenonT(30)
<1>6. Holder(p)' /\ Writer(p)'
  BY <1>2, NotCritical DEF Critical
<1>7. Generator(p)'
  BY <1>1, <1>2, <1>3, <1>4, GeneratorKept DEF SearchFirst
<1> QED
  BY <1>3, <1>4, <1>5, <1>6, <1>7, QuietStep DEF Own

\* keybox_lock sees the file and waits for the lock, or a key generation gives up.
LEMMA NoLockStep ==
  ASSUME Good, NEW p \in Procs, TryLock(p),
         hd' = Goto(p, "take") \/ (hd' = Goto(p, "exit") /\ hd[p].op = "generate")
  PROVE  Good'
<1>1. hd \in [Procs -> Handle] /\ sessions \in Nat /\ Own(p) /\ hd[p].pc = "lock"
  BY DEF Good, Types, TryLock
<1>2. LET r == hd'[p] IN
      /\ hd' \in [Procs -> Handle]
      /\ \A q \in Procs \ {p} : hd'[q] = hd[q]
      /\ r.pc = "take" \/ (r.pc = "exit" /\ r.op = "generate")
      /\ r.op = hd[p].op /\ r.key = hd[p].key /\ r.mode = hd[p].mode
      /\ r.fp = hd[p].fp /\ r.found = hd[p].found /\ r.src = hd[p].src /\ r.new = hd[p].new
  <2>1. "take" \in PCs /\ "exit" \in PCs
    BY DEF PCs
  <2> QED
    BY <1>1, <2>1, GotoHandle
<1>3. StepOf(p) /\ GoesOn(p)
  BY <1>1, <1>2 DEF StepOf, GoesOn, TryLock
<1>4. Quiet
  BY <1>2, <1>3, SameFiles DEF TryLock
<1>5. Reader(p)'
  <2>1. /\ hd[p].op \in SearchFirst \/ hd[p].fp = NoInode
        /\ hd[p].op \in SearchFirst => hd[p].fp # NoInode /\ hd[p].found # 0
    BY <1>1 DEF Own, Reader
  <2> QED
    BY <1>2, <1>3, <1>4, <2>1, ReaderKept
<1>6. Holder(p)' /\ Writer(p)'
  BY <1>1, <1>2, NotCritical, Zenon DEF Critical, Own, Holder
<1>7. Generator(p)'
  BY <1>1, <1>2, <1>3, <1>4, GeneratorKept, Zenon DEF Own, Generator
<1> QED
  BY <1>3, <1>4, <1>5, <1>6, <1>7, QuietStep DEF Own

\* lock_all returns with the lock.
LEMMA LockedStep ==
  ASSUME Good, NEW p \in Procs, hd[p].pc \in {"lock", "take"}, hd' = [hd EXCEPT ![p] = Locked(@)],
         lock \in {p, NoProc}, lock' = p, UNCHANGED <<disk, dir, sessions, misplaced>>
  PROVE  Good'
<1>1. hd \in [Procs -> Handle] /\ sessions \in Nat /\ Own(p)
  BY DEF Good, Types
<1>2. LET r == hd'[p] IN
      /\ hd' \in [Procs -> Handle]
      /\ \A q \in Procs \ {p} : hd'[q] = hd[q]
      /\ r.pc = IF hd[p].op = "generate" THEN "access" ELSE IF hd[p].op = "keydelete" THEN "inplace" ELSE "find"
      /\ r.mode = IF hd[p].op = "generate" THEN "insert" ELSE "none"
      /\ r.fresh = (hd[p].op = "generate" \/ hd[p].fp = dir["fname"])
      /\ r.op = hd[p].op /\ r.key = hd[p].key
      /\ r.fp = hd[p].fp /\ r.found = hd[p].found /\ r.src = hd[p].src /\ r.new = hd[p].new
  BY <1>1, LockedHandle
<1>3. StepOf(p) /\ GoesOn(p)
  BY <1>1, <1>2, OpsAssumption, ZenonT(30) DEF StepOf, GoesOn
<1>4. Quiet
  BY <1>2, <1>3, SameFiles, ZenonT(30)
<1>5. /\ hd[p].op \in SearchFirst \/ hd[p].fp = NoInode
      /\ hd[p].op \in SearchFirst => hd[p].fp # NoInode /\ hd[p].found # 0
  BY <1>1, ZenonT(30) DEF Own, Reader
<1>6. Reader(p)'
  BY <1>2, <1>3, <1>4, <1>5, ReaderKept
<1>7. Holder(p)'
  BY <1>1, <1>2, <1>5, Zenon DEF Holder, Own, SearchFirst
<1>8. Writer(p)'
  <2>1. ASSUME hd[p].op = "generate", Exists("fname")
        PROVE  Versions(disk[dir["fname"]], hd[p].key) = {}
    <3>1. dir["fname"] \in Inodes
      BY <2>1 DEF Good, Types, Exists, Names
    <3>2. \A j \in DOMAIN disk[dir["fname"]] : disk[dir["fname"]][j].key # hd[p].key
      BY <1>1, <2>1, <3>1, ZenonT(30) DEF Own, Generator
    <3> QED
      BY <3>2 DEF Versions
  <2> QED
    BY <1>2, <2>1, Zenon DEF Writer, Before, Exists
<1>9. Generator(p)'
  BY <1>2, <1>3, <1>4, GeneratorKept
<1> QED
  BY <1>3, <1>4, <1>6, <1>7, <1>8, <1>9, QuietStep DEF Own

\* keybox_lock.
LEMMA TryLockStep ==
  ASSUME Good, ~unlocked, NEW p \in Procs, TryLock(p), ~unlocked'
  PROVE  Good'
<1>1. CASE hd' = [hd EXCEPT ![p] = Locked(@)] /\ unlocked' = (unlocked \/ lock # p)
  <2>1. lock = p
    BY <1>1, Zenon
  <2> QED
    BY <1>1, <2>1, LockedStep, Zenon DEF TryLock
<1> QED
  BY <1>1, NoLockStep DEF TryLock

\* dotlock_take succeeds.
LEMMA TakeLockStep ==
  ASSUME Good, NEW p \in Procs, TakeLock(p)
  PROVE  Good'
  BY LockedStep, Zenon DEF TakeLock, TakeWhenFree

\* keydb_release, or the death of a process.
LEMMA LeaveStep ==
  ASSUME Good, NEW p \in Procs, Exit(p) \/ Crash(p)
  PROVE  Good'
<1>1. /\ hd \in [Procs -> Handle] /\ sessions \in Nat /\ disk \in [Inodes -> Seq(Blob)]
      /\ SetFiles(dir, [hd EXCEPT ![p] = Off], disk)
      /\ lock' = IF lock = p THEN NoProc ELSE lock
      /\ UNCHANGED <<sessions, misplaced>>
  BY DEF Good, Types, Exit, Crash
<1>2. /\ dir' = dir /\ hd' = [hd EXCEPT ![p] = Off] /\ disk' \in [Inodes -> Seq(Blob)]
      /\ \A i \in Inodes : disk'[i] = IF i \in InUse(dir', hd') THEN disk[i] ELSE <<>>
  <2>1. \A i \in Inodes : disk[i] \in Seq(Blob)
    BY <1>1
  <2> QED
    BY <1>1, <2>1, FilesSet, Zenon
<1>3. Off \in Handle
  BY DEF Off, Handle, PCs, NoInode
<1>4. /\ hd' \in [Procs -> Handle] /\ hd'[p] = Off /\ \A q \in Procs \ {p} : hd'[q] = hd[q]
  BY <1>1, <1>2, <1>3
<1>5. StepOf(p) /\ Quiet
  BY <1>1, <1>2, <1>4, Zenon DEF StepOf, Quiet, Off
<1>6. Reader(p)' /\ Generator(p)'
  <2>1. Off.pc = "off" /\ Off.op = "none" /\ Off.fp = NoInode /\ Off.found = 0
    BY DEF Off
  <2>2. Off.op \notin SearchFirst
    BY <2>1 DEF SearchFirst
  <2> QED
    BY <1>4, <2>1, <2>2, ZenonT(30) DEF Reader, Generator
<1>7. Holder(p)' /\ Writer(p)'
  BY <1>4, NotCritical DEF Off, Critical
<1> QED
  BY <1>5, <1>6, <1>7, QuietStep DEF Own

\* keydb_search: the handle refers to the blob found.
LEMMA SearchedHandle ==
  ASSUME Good, NEW p \in Procs, hd[p].key \in Keys
  PROVE  LET r == Searched(p)
             f == SearchedFile(p)
         IN
         /\ r \in Handle /\ f \in Inodes \cup {NoInode}
         /\ r.op = hd[p].op /\ r.key = hd[p].key /\ r.src = hd[p].src /\ r.new = hd[p].new
         /\ r.fp = f /\ r.fresh = (f = dir["fname"])
         /\ f # NoInode => f # dir["tmp"]
         /\ r.found # 0 => /\ f # NoInode /\ Live(disk[f], r.found) /\ Hit(disk[f], r)
                           /\ r.base = disk[f][r.found].ver
         /\ r.found = 0 /\ f # NoInode /\ Sound(disk[f]) => Versions(disk[f], r.key) = {}
<1> DEFINE f == SearchedFile(p)
           off == IF f = NoInode THEN 0 ELSE SearchFpr(disk[f], hd[p].key)
           base == IF off = 0 THEN 0 ELSE disk[f][off].ver
           r == Searched(p)
<1>1. /\ hd[p] \in Handle /\ dir \in [Names -> Inodes \cup {NoInode}]
      /\ disk \in [Inodes -> Seq(Blob)] /\ Reader(p) /\ Files
  BY DEF Good, Types, Own
<1>2. f \in Inodes \cup {NoInode} /\ (f # NoInode => f # dir["tmp"])
  <2>1. CASE hd[p].fp # NoInode
    BY <1>1, <2>1 DEF SearchedFile, Reader, Handle
  <2>2. CASE hd[p].fp = NoInode
    BY <1>1, <2>2 DEF SearchedFile, Files, Exists, Names
  <2> QED
    BY <2>1, <2>2, ZenonT(30)
<1>3. r = [hd[p] EXCEPT !.fp = f, !.found = off, !.fresh = f = dir["fname"], !.base = base]
  BY DEF Searched
<1> HIDE DEF f
<1>4. f # NoInode => disk[f] \in Seq(Blob)
  BY <1>1, <1>2
<1>5. /\ off \in Nat
      /\ off # 0 => /\ f # NoInode /\ off \in DOMAIN disk[f]
                    /\ Live(disk[f], off) /\ disk[f][off].key = hd[p].key
      /\ off = 0 /\ f # NoInode /\ Sound(disk[f]) => Versions(disk[f], hd[p].key) = {}
  <2>1. CASE f = NoInode
    BY <2>1, ZenonT(30)
  <2>2. CASE f # NoInode
    BY <1>4, <2>2, SearchResult
  <2> QED
    BY <2>1, <2>2, Zenon
<1>6. base \in Nat
  <2>1. off # 0 => disk[f][off] \in Blob
    BY <1>4, <1>5
  <2> QED
    BY <2>1, ZenonT(30) DEF Blob
<1>7. off # 0 => base = disk[f][off].ver
  OBVIOUS
<1> HIDE DEF off, base, r
<1>8. /\ r \in Handle /\ r.op = hd[p].op /\ r.key = hd[p].key /\ r.src = hd[p].src /\ r.new = hd[p].new
      /\ r.fp = f /\ r.fresh = (f = dir["fname"]) /\ r.found = off /\ r.base = base
  BY <1>1, <1>2, <1>3, <1>5, <1>6, Zenon DEF Handle
<1>9. r.found # 0 => Hit(disk[f], r)
  BY <1>5, <1>8 DEF Hit
<1> QED
  BY <1>2, <1>5, <1>7, <1>8, <1>9, Zenon DEF r, f

\* keydb_search without the lock.
LEMMA SearchStep ==
  ASSUME Good, NEW p \in Procs, Search(p)
  PROVE  Good'
<1> DEFINE r == Searched(p)
           f == SearchedFile(p)
           pc == IF r.found = 0 THEN "exit" ELSE "lock"
           h == [r EXCEPT !.pc = pc]
<1>1. /\ hd \in [Procs -> Handle] /\ sessions \in Nat /\ Own(p)
      /\ hd[p].pc = "search" /\ hd[p].op \in SearchFirst /\ hd[p].key \in Keys
      /\ dir \in [Names -> Inodes \cup {NoInode}] /\ disk \in [Inodes -> Seq(Blob)]
  BY DEF Good, Types, Search, Own, Reader, Generator
<1>2. /\ r \in Handle
      /\ r.op = hd[p].op /\ r.key = hd[p].key /\ r.src = hd[p].src /\ r.new = hd[p].new
      /\ r.fp = f /\ (f # NoInode => f # dir["tmp"]) /\ f \in Inodes \cup {NoInode}
      /\ r.found # 0 => f # NoInode /\ Hit(disk[f], r)
  BY <1>1, SearchedHandle, Zenon
<1>3. SetFiles(dir, [hd EXCEPT ![p] = h], disk) /\ pc \in PCs
  BY DEF Search, PCs
<1> HIDE DEF r
<1>4. /\ h \in Handle /\ h.pc = pc /\ h.op = r.op /\ h.key = r.key
      /\ h.fp = r.fp /\ h.found = r.found /\ h.src = r.src /\ h.new = r.new
  <2> HIDE DEF pc
  <2> QED
    BY <1>2, <1>3 DEF Handle
<1> HIDE DEF h, f
<1>5. /\ dir' = dir /\ hd' = [hd EXCEPT ![p] = h] /\ disk' \in [Inodes -> Seq(Blob)]
      /\ \A i \in Inodes : disk'[i] = IF i \in InUse(dir', hd') THEN disk[i] ELSE <<>>
  <2>1. \A i \in Inodes : disk[i] \in Seq(Blob)
    BY <1>1
  <2> QED
    BY <1>3, <2>1, FilesSet
<1>6. hd' \in [Procs -> Handle] /\ hd'[p] = h /\ \A q \in Procs \ {p} : hd'[q] = hd[q]
  BY <1>1, <1>4, <1>5
<1>7. StepOf(p) /\ Quiet /\ GoesOn(p)
  BY <1>1, <1>2, <1>4, <1>5, <1>6, Zenon DEF StepOf, Quiet, GoesOn, Search
<1>8. Reader(p)'
  <2>1. f # NoInode => disk'[f] = disk[f]
    BY <1>1, <1>2, <1>4, <1>5, <1>6, Used, Zenon
  <2> QED
    BY <1>1, <1>2, <1>4, <1>5, <1>6, <2>1 DEF Reader, Hit
<1>9. Holder(p)' /\ Writer(p)'
  BY <1>1, <1>2, <1>4, <1>6, NotCritical, ZenonT(30) DEF Critical, Own, Holder
<1>10. Generator(p)'
  BY <1>1, <1>7, GeneratorKept, ZenonT(30) DEF SearchFirst
<1> QED
  BY <1>7, <1>8, <1>9, <1>10, QuietStep DEF Own

\* The search after lock_all.
LEMMA FindStep ==
  ASSUME Good, NEW p \in Procs, Find(p)
  PROVE  Good'
<1> DEFINE r == Searched(p)
           f == SearchedFile(p)
           insert == r.op = "import" /\ r.found = 0
           update == r.op \in {"import", "edit"} /\ r.found # 0
           pc == IF insert \/ update THEN "access" ELSE IF r.found = 0 THEN "exit" ELSE "inplace"
           mode == IF insert THEN "insert" ELSE IF update THEN "update" ELSE "none"
           h == [r EXCEPT !.pc = pc, !.mode = mode]
<1>1. /\ hd \in [Procs -> Handle] /\ sessions \in Nat /\ Own(p)
      /\ hd[p].pc = "find" /\ hd[p].op # "generate" /\ hd[p].op \in AllOps /\ hd[p].key \in Keys
      /\ dir \in [Names -> Inodes \cup {NoInode}] /\ disk \in [Inodes -> Seq(Blob)]
      /\ lock = p /\ hd[p].src = NoInode /\ hd[p].new = NoInode
  BY DEF Good, Types, Find, Own, Holder, Generator, Critical
<1>2. /\ r \in Handle
      /\ r.op = hd[p].op /\ r.key = hd[p].key /\ r.src = hd[p].src /\ r.new = hd[p].new
      /\ r.fp = f /\ (f # NoInode => f # dir["tmp"]) /\ f \in Inodes \cup {NoInode}
      /\ r.fresh = (f = dir["fname"])
      /\ r.found # 0 => /\ f # NoInode /\ Live(disk[f], r.found) /\ Hit(disk[f], r)
                        /\ r.base = disk[f][r.found].ver
      /\ r.found = 0 /\ f # NoInode /\ Sound(disk[f]) => Versions(disk[f], r.key) = {}
  BY <1>1, SearchedHandle, Zenon
<1>3. SetFiles(dir, [hd EXCEPT ![p] = h], disk)
  <2> DEFINE next == IF r.found = 0
                     THEN IF r.op = "import" THEN <<"access", "insert">> ELSE <<"exit", "none">>
                     ELSE IF r.op \in {"import", "edit"} THEN <<"access", "update">>
                          ELSE <<"inplace", "none">>
  <2>1. SetFiles(dir, [hd EXCEPT ![p] = [r EXCEPT !.pc = next[1], !.mode = next[2]]], disk)
    BY DEF Find
  <2> HIDE DEF r
  <2>2. next = <<pc, mode>>
    <3>1. CASE insert
      BY <3>1
    <3>2. CASE ~insert /\ r.found = 0
      BY <3>2
    <3>3. CASE update
      BY <3>3
    <3>4. CASE r.found # 0 /\ ~update
      BY <3>4
    <3> QED
      BY <3>1, <3>2, <3>3, <3>4
  <2>3. next[1] = pc /\ next[2] = mode
    <3> HIDE DEF next, pc, mode
    <3> QED
      BY <2>2
  <2> HIDE DEF next
  <2> QED
    BY <2>1, <2>3
<1>4. insert => f = dir["fname"]
  BY <1>1, <1>2, Zenon DEF Own, Reader, SearchFirst, SearchedFile
<1> HIDE DEF r, f
<1>5. /\ h \in Handle /\ h.pc = pc /\ h.mode = mode /\ h.op = r.op /\ h.key = r.key
      /\ h.fp = r.fp /\ h.fresh = r.fresh /\ h.found = r.found /\ h.base = r.base
      /\ h.src = r.src /\ h.new = r.new
  <2>1. pc \in PCs /\ mode \in {"insert", "update", "none"}
    BY DEF PCs
  <2> HIDE DEF pc, mode
  <2> QED
    BY <1>2, <2>1, Zenon DEF Handle
<1> HIDE DEF h
<1>6. /\ dir' = dir /\ hd' = [hd EXCEPT ![p] = h] /\ disk' \in [Inodes -> Seq(Blob)]
      /\ \A i \in Inodes : disk'[i] = IF i \in InUse(dir', hd') THEN disk[i] ELSE <<>>
  <2>1. \A i \in Inodes : disk[i] \in Seq(Blob)
    BY <1>1, ZenonT(30)
  <2> QED
    BY <1>3, <2>1, FilesSet
<1>7. hd' \in [Procs -> Handle] /\ hd'[p] = h /\ \A q \in Procs \ {p} : hd'[q] = hd[q]
  BY <1>1, <1>5, <1>6
<1>8. StepOf(p) /\ Quiet /\ GoesOn(p) /\ lock' = lock /\ misplaced' = misplaced
  BY <1>1, <1>2, <1>5, <1>6, <1>7, Zenon DEF StepOf, Quiet, GoesOn, Find
<1>9. f # NoInode => disk'[f] = disk[f]
  BY <1>1, <1>2, <1>5, <1>6, <1>7, Used, Zenon
<1>10. Reader(p)'
  <2>1. /\ h.pc \in {"access", "inplace", "exit"} /\ h.fp = f /\ h.found = r.found
        /\ (f # NoInode => f # dir'["tmp"])
    BY <1>2, <1>5, <1>6, ZenonT(30)
  <2>2. h.found # 0 => f # NoInode /\ Hit(disk'[f], h)
    BY <1>2, <1>5, <1>9, <2>1, ZenonT(30) DEF Hit
  <2> QED
    BY <1>7, <2>1, <2>2, ZenonT(30) DEF Reader
<1>11. Holder(p)'
  <2>1. pc = "inplace" => h.op \in {"keydelete", "setflags"} /\ h.found # 0
    BY <1>1, <1>2, <1>5, Zenon DEF AllOps, LockFirst, SearchFirst
  <2> QED
    BY <1>1, <1>2, <1>5, <1>6, <1>7, <1>8, <2>1, Zenon DEF Holder
<1>12. Writer(p)'
  <2>1. ASSUME pc = "access"
        PROVE  Before(disk[dir["fname"]], hd[p])'
    <3>1. CASE insert
      <4>1. ASSUME Exists("fname"), ~misplaced
            PROVE  Versions(disk'[dir["fname"]], h.key) = {}
        <5>1. Sound(disk[f]) /\ f # NoInode
          BY <1>4, <3>1, <4>1, Zenon DEF Good, Clean, Exists
        <5> QED
          BY <1>2, <1>4, <1>5, <1>9, <3>1, <5>1, Zenon
      <4> QED
        BY <1>5, <1>6, <1>7, <1>8, <3>1, <4>1, Zenon DEF Before, Exists
    <3>2. CASE update
      <4>1. ASSUME h.fresh
            PROVE  /\ Exists("fname") /\ Live(disk'[dir["fname"]], h.found) /\ Hit(disk'[dir["fname"]], h)
                   /\ disk'[dir["fname"]][h.found].ver = h.base
        <5>1. f = dir["fname"] /\ f # NoInode
          BY <1>2, <1>5, <3>2, <4>1, Zenon
        <5> QED
          BY <1>2, <1>5, <1>9, <3>2, <5>1 DEF Exists, Hit
      <4> QED
        BY <1>5, <1>6, <1>7, <3>2, <4>1, ZenonT(30) DEF Before, Exists
    <3> QED
      BY <2>1, <3>1, <3>2
  <2>2. hd'[p].pc \in {"access", "exit", "inplace"} /\ (hd'[p].pc = "access" => pc = "access")
    BY <1>5, <1>7, ZenonT(30)
  <2> HIDE DEF pc
  <2> QED
    BY <2>1, <2>2 DEF Writer
<1>13. Generator(p)'
  BY <1>1, <1>8, GeneratorKept, ZenonT(30)
<1> QED
  BY <1>8, <1>10, <1>11, <1>12, <1>13, QuietStep DEF Own

\* blob_filecopy tests the access to the file.
LEMMA AccessStep ==
  ASSUME Good, NEW p \in Procs, Access(p)
  PROVE  Good'
<1> DEFINE pc == IF Exists("fname") THEN "copy" ELSE "exit"
           g == [hd EXCEPT ![p].fp = NoInode, ![p].pc = pc]
<1>1. /\ hd \in [Procs -> Handle] /\ sessions \in Nat /\ Own(p) /\ hd[p].pc = "access"
      /\ dir \in [Names -> Inodes \cup {NoInode}] /\ disk \in [Inodes -> Seq(Blob)]
      /\ lock = p /\ hd[p].src = NoInode /\ hd[p].new = NoInode
      /\ hd[p].mode \in {"insert", "update"}
  BY DEF Good, Types, Access, Own, Holder, Critical
<1>2. SetFiles(dir, g, disk)
  BY DEF Access
<1>3. LET h == g[p] IN
      /\ g \in [Procs -> Handle] /\ \A q \in Procs \ {p} : g[q] = hd[q]
      /\ h.pc = pc /\ h.mode = hd[p].mode /\ h.op = hd[p].op /\ h.key = hd[p].key
      /\ h.fp = NoInode /\ h.fresh = hd[p].fresh /\ h.found = hd[p].found /\ h.base = hd[p].base
      /\ h.src = hd[p].src /\ h.new = hd[p].new
  <2>1. pc \in PCs
    BY DEF PCs
  <2> HIDE DEF pc
  <2> QED
    BY <1>1, <2>1, ZenonT(30) DEF Handle
<1> HIDE DEF g
<1>4. /\ dir' = dir /\ hd' = g /\ disk' \in [Inodes -> Seq(Blob)]
      /\ \A i \in Inodes : disk'[i] = IF i \in InUse(dir', hd') THEN disk[i] ELSE <<>>
  <2>1. \A i \in Inodes : disk[i] \in Seq(Blob)
    BY <1>1
  <2> QED
    BY <1>2, <2>1, FilesSet
<1>5. StepOf(p) /\ Quiet /\ GoesOn(p) /\ lock' = lock /\ misplaced' = misplaced
  BY <1>1, <1>3, <1>4 DEF StepOf, Quiet, GoesOn, Access
<1>6. Reader(p)'
  BY <1>3, <1>4 DEF Reader
<1>7. Holder(p)'
  BY <1>1, <1>3, <1>4, <1>5, Zenon DEF Holder, Exists
<1>8. Writer(p)'
  <2>1. ASSUME pc = "copy"
        PROVE  Before(disk[dir["fname"]], hd[p])'
    <3>1. Exists("fname") /\ Before(disk[dir["fname"]], hd[p])
      BY <1>1, <2>1, Zenon DEF Own, Writer
    <3>2. disk'[dir["fname"]] = disk[dir["fname"]]
      BY <1>1, <1>3, <1>4, <3>1, Used, Zenon DEF Exists, Names
    <3> QED
      BY <1>3, <1>4, <1>5, <3>1, <3>2, Zenon DEF Before, Exists, Hit
  <2> QED
    BY <1>3, <1>4, <2>1, Zenon DEF Writer
<1>9. Generator(p)'
  BY <1>1, <1>3, <1>4, <1>5, GeneratorKept, Zenon DEF Own, Generator
<1> QED
  BY <1>5, <1>6, <1>7, <1>8, <1>9, QuietStep DEF Own

-----------------------------------------------------------------------------
(* The steps that change names or files. *)

\* A new file is nobody else's.
LEMMA FreeOne ==
  ASSUME FreeInodes # {}
  PROVE  FreeInode \in Inodes /\ FreeInode \notin InUse(dir, hd)
  BY DEF FreeInode, FreeInodes

\* The files are c as far as they are named in d or opened in h.
Stored(d, h, c) ==
    /\ dir' = d /\ hd' = h /\ Types'
    /\ \A i \in Inodes : disk'[i] = c[i] \/ disk'[i] = <<>>
    /\ \A i \in Inodes : i \notin InUse(dir', hd') => disk'[i] = <<>>
    /\ \A n \in Names : d[n] # NoInode => disk'[d[n]] = c[d[n]]
    /\ \A q \in Procs : h[q].fp # NoInode => disk'[h[q].fp] = c[h[q].fp]

\* What named and open files hold after a step of p.
LEMMA AfterSet ==
  ASSUME NEW p \in Procs, StepOf(p), NEW d \in [Names -> Inodes \cup {NoInode}], NEW h, NEW c,
         SetFiles(d, h, c), \A i \in Inodes : c[i] \in Seq(Blob)
  PROVE  Stored(d, h, c)
<1>1. /\ dir' = d /\ hd' = h
      /\ disk' \in [Inodes -> Seq(Blob)]
      /\ \A i \in Inodes : disk'[i] = IF i \in InUse(dir', hd') THEN c[i] ELSE <<>>
  BY FilesSet, ZenonT(30)
<1>2. Types' /\ h \in [Procs -> Handle]
  BY <1>1 DEF Types, StepOf
<1>3. \A q \in Procs : h[q].fp \in Inodes \cup {NoInode}
  BY <1>2 DEF Handle
<1>4. /\ \A n \in Names : d[n] \in InUse(d, h)
      /\ \A q \in Procs : h[q].fp \in InUse(d, h)
  BY <1>2, Used
<1> QED
  BY <1>1, <1>2, <1>3, <1>4, Zenon DEF Stored

\* An empty file has no blobs.
LEMMA NoBlobs == ASSUME NEW j \in DOMAIN <<>> PROVE FALSE
  OBVIOUS

\* A step with the lock whose files hold what they held, or nothing.
LEMMA NoNewBlobs ==
  ASSUME Good, NEW p \in Procs, StepOf(p), lock \in {p, NoProc},
         \A i \in Inodes : disk'[i] = disk[i] \/ disk'[i] = <<>>,
         \A q \in Procs \ {p} : hd[q].fp # NoInode =>
             hd[q].fp # dir'["tmp"] /\ disk'[hd[q].fp] = disk[hd[q].fp]
  PROVE  Exclusive(p)
  BY DEF Exclusive

\* ... and the key that is being generated stays unknown.
LEMMA StillUnknown ==
  ASSUME Good, NEW p \in Procs, StepOf(p), GoesOn(p),
         \A i \in Inodes : disk'[i] = disk[i] \/ disk'[i] = <<>>,
         hd[p].op = "generate" =>
           /\ hd'[p].pc \notin {"search", "find", "inplace"} /\ hd'[p].mode # "update"
           /\ hd'[p].pc = "exit" \/ hd[p].pc # "exit"
           /\ hd'[p].pc = "exit" \/ hd[p].pc \notin {"rename1", "rename2"} \/ hd[p].mode # "insert"
                \/ (hd'[p].pc = "rename2" /\ hd'[p].mode = "insert")
  PROVE  Generator(p)'
<1>1. Generator(p) /\ \A q \in Procs \ {p} : hd'[q].key = hd[q].key
  BY Zenon DEF Good, Own, StepOf
<1>2. ASSUME hd[p].op = "generate"
      PROVE  \/ hd'[p].pc = "exit" \/ (hd'[p].pc \in {"rename1", "rename2"} /\ hd'[p].mode = "insert")
             \/ \A i \in Inodes : \A j \in DOMAIN disk'[i] : disk'[i][j].key # hd[p].key
  <2>1. CASE \A i \in Inodes : \A j \in DOMAIN disk[i] : disk[i][j].key # hd[p].key
    BY <2>1
  <2> QED
    BY <1>1, <1>2, <2>1, ZenonT(30) DEF Generator
<1> QED
  BY <1>1, <1>2, Zenon DEF Generator, GoesOn

\* maybe_create_keyring_or_box creates the file.
LEMMA CreateFileStep ==
  ASSUME Good, NEW p \in Procs, Create(p), ~Exists("fname"), MayCreate, FreeInodes # {},
         SetFiles([dir EXCEPT !["fname"] = FreeInode], Goto(p, "compress"),
                  [disk EXCEPT ![FreeInode] = <<>>])
  PROVE  Good'
<1> DEFINE d == [dir EXCEPT !["fname"] = FreeInode]
           c == [disk EXCEPT ![FreeInode] = <<>>]
           new == FreeInode
<1>1. /\ hd \in [Procs -> Handle] /\ sessions \in Nat /\ Own(p) /\ Files /\ hd[p].pc = "create"
      /\ lock = NoProc /\ UNCHANGED <<lock, sessions, misplaced>>
      /\ dir \in [Names -> Inodes \cup {NoInode}] /\ disk \in [Inodes -> Seq(Blob)]
  BY DEF Good, Types, Create
<1>2. LET r == hd'[p] IN
      /\ hd' \in [Procs -> Handle] /\ \A q \in Procs \ {p} : hd'[q] = hd[q]
      /\ r.pc = "compress" /\ r.op = hd[p].op /\ r.key = hd[p].key /\ r.mode = hd[p].mode
      /\ r.fp = hd[p].fp /\ r.found = hd[p].found /\ r.src = hd[p].src /\ r.new = hd[p].new
  <2>1. "compress" \in PCs
    BY DEF PCs
  <2>2. hd' = Goto(p, "compress")
    BY DEF SetFiles
  <2> QED
    BY <1>1, <2>1, <2>2, GotoHandle
<1>3. StepOf(p) /\ GoesOn(p)
  BY <1>1, <1>2, OpsAssumption DEF StepOf, GoesOn
<1>4. new \in Inodes /\ new \notin InUse(dir, hd) /\ disk[new] = <<>>
  BY <1>1, FreeOne DEF Files
<1>5. /\ d \in [Names -> Inodes \cup {NoInode}]
      /\ d["fname"] = new /\ d["bak"] = dir["bak"] /\ d["tmp"] = dir["tmp"]
      /\ \A i \in Inodes : c[i] = disk[i] /\ c[i] \in Seq(Blob)
  BY <1>1, <1>4 DEF Names
<1>6. new # NoInode
  BY <1>4, FilesAssumption DEF Inodes, NoInode
<1> HIDE DEF d, c, new
<1>7. /\ dir' = d /\ Types'
      /\ \A i \in Inodes : disk'[i] = c[i] \/ disk'[i] = <<>>
      /\ \A i \in Inodes : i \notin InUse(dir', hd') => disk'[i] = <<>>
      /\ \A n \in Names : d[n] # NoInode => disk'[d[n]] = c[d[n]]
      /\ \A q \in Procs : hd'[q].fp # NoInode => disk'[hd'[q].fp] = c[hd'[q].fp]
  <2>1. SetFiles(d, hd', c)
    BY DEF SetFiles, d, c
  <2>2. Stored(d, hd', c)
    BY <1>3, <1>5, <2>1, AfterSet
  <2> QED
    BY <2>2, Zenon DEF Stored
<1>8. \A q \in Procs : hd[q].fp \in Inodes \cup {NoInode} /\ hd[q].fp = hd'[q].fp
                       /\ (hd[q].fp # NoInode => hd[q].fp # dir["tmp"])
  BY <1>1, <1>2, Zenon DEF Handle, Good, Own, Reader
<1>9. Exclusive(p)
  <2>1. \A i \in Inodes : disk'[i] = disk[i] \/ disk'[i] = <<>>
    BY <1>5, <1>7, Zenon
  <2>2. \A q \in Procs \ {p} : hd[q].fp # NoInode =>
           hd[q].fp # dir'["tmp"] /\ disk'[hd[q].fp] = disk[hd[q].fp]
    BY <1>5, <1>7, <1>8
  <2> QED
    BY <1>1, <1>3, <2>1, <2>2, NoNewBlobs
<1>10. Files'
  <2>1. dir["tmp"] # new
    BY <1>1, <1>4, Used DEF Names
  <2> QED
    BY <1>1, <1>5, <1>6, <1>7, <2>1, Zenon DEF Files, Exists
<1>11. Clean'
  <2>1. Sound(disk'[new])
    <3>1. disk'[new] = <<>>
      BY <1>4, <1>5, <1>7, Zenon
    <3> QED
      BY <3>1 DEF Sound
  <2> QED
    BY <1>5, <1>6, <1>7, <2>1, Zenon DEF Clean, Exists
<1>12. Reader(p)'
  <2> DEFINE r == hd'[p]
  <2>1. r.pc = "compress" /\ r.fp = hd[p].fp /\ r.op = hd[p].op /\ r.found = hd[p].found
        /\ r.key = hd[p].key
    BY <1>2
  <2>2. ASSUME hd[p].fp # NoInode
        PROVE  hd[p].fp # dir'["tmp"] /\ disk'[hd[p].fp] = disk[hd[p].fp]
    <3>1. hd[p].fp \in Inodes /\ hd'[p].fp = hd[p].fp /\ hd[p].fp # dir["tmp"]
      BY <1>2, <1>8, <2>2, Zenon
    <3> QED
      BY <1>5, <1>7, <2>2, <3>1, Zenon
  <2>3. hd[p].fp # NoInode => /\ hd[p].op \in SearchFirst
                              /\ hd[p].found # 0 => Hit(disk[hd[p].fp], hd[p])
    BY <1>1, Zenon DEF Own, Reader
  <2> QED
    BY <2>1, <2>2, <2>3, Zenon DEF Reader, Hit
<1>13. Holder(p)' /\ Writer(p)'
  BY <1>1, <1>2, NotCritical, Zenon DEF Critical, Own, Holder
<1>14. Generator(p)'
  <2>1. hd[p].op = "generate" => hd[p].mode # "update"
    BY <1>1 DEF Own, Generator
  <2> QED
    BY <1>1, <1>2, <1>3, <1>5, <1>7, <2>1, StillUnknown, Zenon
<1> QED
  BY <1>3, <1>7, <1>9, <1>10, <1>11, <1>12, <1>13, <1>14, ExclusiveStep, Zenon DEF Own

\* The temporary file is created or truncated, by keybox_compress or blob_filecopy.
LEMMA OpenStep ==
  ASSUME Good, NEW p \in Procs, NEW mode, OpenFiles(p, mode), Exists("fname"),
         lock \in {p, NoProc}, lock' = p, UNCHANGED <<sessions, misplaced>>,
         \/ hd[p].pc = "compress" /\ mode = "compress"
         \/ hd[p].pc = "copy" /\ mode = hd[p].mode
  PROVE  Good'
<1> DEFINE tmp == TmpFile
           d == [dir EXCEPT !["tmp"] = tmp]
           g == [hd EXCEPT ![p].pc = "write", ![p].mode = mode, ![p].src = dir["fname"], ![p].new = tmp]
           c == [disk EXCEPT ![tmp] = <<>>]
<1>1. /\ hd \in [Procs -> Handle] /\ sessions \in Nat /\ Own(p) /\ Files
      /\ dir \in [Names -> Inodes \cup {NoInode}] /\ disk \in [Inodes -> Seq(Blob)]
  BY DEF Good, Types
<1>2. \A q \in Procs : hd[q].fp \in Inodes \cup {NoInode} /\ (hd[q].fp # NoInode => hd[q].fp # dir["tmp"])
  BY <1>1, ZenonT(30) DEF Handle, Good, Own, Reader
<1>3. /\ tmp \in Inodes /\ tmp # NoInode /\ tmp # dir["fname"] /\ tmp # dir["bak"]
      /\ \A q \in Procs : hd[q].fp # NoInode => hd[q].fp # tmp
  <2>1. CASE Exists("tmp")
    BY <1>1, <1>2, <2>1, ZenonT(30) DEF TmpFile, Files, Exists, Names
  <2>2. CASE ~Exists("tmp")
    <3>1. tmp \in Inodes /\ tmp \notin InUse(dir, hd)
      BY <2>2, FreeOne DEF TmpFile, OpenFiles
    <3>2. tmp # NoInode
      BY <3>1, FilesAssumption DEF Inodes, NoInode
    <3> HIDE DEF tmp
    <3> QED
      BY <1>1, <3>1, <3>2, Used DEF Names
  <2> QED
    BY <2>1, <2>2
<1>4. SetFiles(d, g, c)
  BY DEF OpenFiles
<1>5. mode \in {"insert", "update", "compress"} /\ hd[p].pc \in {"compress", "copy"}
  BY <1>1, ZenonT(30) DEF Own, Holder
<1> HIDE DEF tmp
<1>6. LET r == g[p] IN
      /\ g \in [Procs -> Handle] /\ \A q \in Procs \ {p} : g[q] = hd[q]
      /\ r.pc = "write" /\ r.op = hd[p].op /\ r.key = hd[p].key /\ r.mode = mode
      /\ r.fp = hd[p].fp /\ r.fresh = hd[p].fresh /\ r.found = hd[p].found /\ r.base = hd[p].base
      /\ r.src = dir["fname"] /\ r.new = tmp
  <2> DEFINE old == hd[p]
             src == dir["fname"]
             r == [old EXCEPT !.pc = "write", !.mode = mode, !.src = src, !.new = tmp]
  <2>1. "write" \in PCs /\ src \in Inodes \cup {NoInode} /\ old \in Handle
    BY <1>1 DEF PCs, Names
  <2>2. g = [hd EXCEPT ![p] = r]
    BY Zenon
  <2> HIDE DEF old, src, g
  <2>3. /\ r \in Handle /\ r.pc = "write" /\ r.op = old.op /\ r.key = old.key /\ r.mode = mode
        /\ r.fp = old.fp /\ r.fresh = old.fresh /\ r.found = old.found /\ r.base = old.base
        /\ r.src = src /\ r.new = tmp
    BY <1>3, <1>5, <2>1, Zenon DEF Handle
  <2> HIDE DEF r
  <2>4. g \in [Procs -> Handle] /\ g[p] = r /\ \A q \in Procs \ {p} : g[q] = hd[q]
    BY <1>1, <2>2, <2>3
  <2> QED
    BY <2>3, <2>4 DEF old, src
<1>7. /\ d \in [Names -> Inodes \cup {NoInode}]
      /\ d["fname"] = dir["fname"] /\ d["bak"] = dir["bak"] /\ d["tmp"] = tmp
      /\ \A i \in Inodes : c[i] \in Seq(Blob) /\ (c[i] = IF i = tmp THEN <<>> ELSE disk[i])
  BY <1>1, <1>3 DEF Names
<1> HIDE DEF d, g, c
<1>8. hd' = g
  BY <1>4 DEF SetFiles
<1>9. StepOf(p) /\ GoesOn(p)
  BY <1>1, <1>5, <1>6, <1>8, OpsAssumption DEF StepOf, GoesOn
<1>10. /\ dir' = d /\ Types'
       /\ \A i \in Inodes : disk'[i] = c[i] \/ disk'[i] = <<>>
       /\ \A i \in Inodes : i \notin InUse(dir', hd') => disk'[i] = <<>>
       /\ \A n \in Names : d[n] # NoInode => disk'[d[n]] = c[d[n]]
       /\ \A q \in Procs : g[q].fp # NoInode => disk'[g[q].fp] = c[g[q].fp]
  <2>1. Stored(d, g, c)
    BY <1>4, <1>7, <1>9, AfterSet, ZenonT(30)
  <2> QED
    BY <2>1, Zenon DEF Stored
<1>11. \A i \in Inodes : disk'[i] = disk[i] \/ disk'[i] = <<>>
  BY <1>7, <1>10, ZenonT(30)
<1>12. \A q \in Procs : hd[q].fp # NoInode => hd[q].fp # dir'["tmp"] /\ disk'[hd[q].fp] = disk[hd[q].fp]
  <2>1. \A q \in Procs : g[q].fp = hd[q].fp
    BY <1>6
  <2> QED
    BY <1>2, <1>3, <1>7, <1>10, <2>1
<1>13. Exclusive(p)
  BY <1>9, <1>11, <1>12, NoNewBlobs, Zenon
<1>14. /\ Exists("fname")' /\ disk'[dir'["fname"]] = disk[dir["fname"]] /\ dir'["fname"] = dir["fname"]
       /\ disk'[dir'["tmp"]] = <<>>
  <2>1. dir["fname"] \in Inodes /\ dir["fname"] # NoInode
    BY <1>1 DEF Exists, Names
  <2> QED
    BY <1>3, <1>7, <1>10, <2>1, Zenon DEF Names, Exists
<1>15. Files'
  BY <1>3, <1>7, <1>10, <1>14, Zenon DEF Files, Exists
<1>16. (misplaced \/ Clean)'
  BY <1>14, Zenon DEF Good, Clean, Exists
<1>17. Reader(p)'
  <2>1. Reader(p)
    BY <1>1 DEF Own
  <2>2. hd[p].op \in SearchFirst \/ hd[p].fp = NoInode
    BY <1>5, <2>1, Zenon DEF Reader
  <2>3. hd[p].fp # NoInode /\ hd[p].found # 0 => Hit(disk'[hd[p].fp], hd[p])
    BY <1>12, <2>1, Zenon DEF Reader
  <2> QED
    BY <1>6, <1>8, <1>12, <2>2, <2>3, Zenon DEF Reader, Hit
<1>18. Holder(p)'
  BY <1>3, <1>5, <1>6, <1>7, <1>8, <1>10, <1>14, Zenon DEF Holder, Exists
<1>19. Writer(p)'
  <2>1. CASE mode = "compress"
    BY <1>6, <1>8, <2>1, Zenon DEF Writer, Before
  <2>2. CASE mode = hd[p].mode /\ hd[p].pc = "copy"
    <3>1. Before(disk[dir["fname"]], hd[p])
      BY <1>1, <2>2 DEF Own, Writer
    <3>2. Before(disk[dir["fname"]], hd[p])'
      BY <1>6, <1>8, <1>14, <2>2, <3>1, Zenon DEF Before, Hit
    <3> QED
      BY <1>6, <1>8, <3>2, Zenon DEF Writer
  <2> QED
    BY <2>1, <2>2, Zenon
<1>20. Generator(p)'
  <2>1. hd[p].op = "generate" => mode # "update"
    BY <1>1, <1>5, Zenon DEF Own, Generator
  <2> QED
    BY <1>5, <1>6, <1>8, <1>9, <1>11, <2>1, StillUnknown, Zenon
<1> QED
  BY <1>9, <1>10, <1>13, <1>15, <1>16, <1>17, <1>18, <1>19, <1>20, ExclusiveStep, ZenonT(30) DEF Own

\* blob_filecopy opens the files.
LEMMA CopyStep ==
  ASSUME Good, NEW p \in Procs, Copy(p)
  PROVE  Good'
<1>1. Exists("fname") /\ lock = p /\ hd[p].pc = "copy"
  BY DEF Good, Own, Holder, Copy, Critical
<1>2. OpenFiles(p, hd[p].mode) /\ UNCHANGED <<lock, sessions, misplaced>>
  BY <1>1, Zenon DEF Copy
<1> QED
  BY <1>1, <1>2, OpenStep, ZenonT(30)

\* keydb_add_resource with or without keybox_compress.
LEMMA CompressStep ==
  ASSUME Good, NEW p \in Procs, Compress(p)
  PROVE  Good'
<1>1. CASE Exists("fname") /\ lock = NoProc /\ lock' = p /\ OpenFiles(p, "compress")
  BY <1>1, OpenStep DEF Compress
<1>2. CASE hd' = [hd EXCEPT ![p] = Begin(@)] /\ UNCHANGED <<disk, dir, lock>>
  BY <1>2, NoCompressStep, Zenon
<1> QED
  BY <1>1, <1>2 DEF Compress

\* maybe_create_keyring_or_box with the lock.
LEMMA CreateStep ==
  ASSUME Good, NEW p \in Procs, Create(p)
  PROVE  Good'
<1>1. CASE UNCHANGED <<disk, dir>> /\ (hd' = Goto(p, "compress") \/ hd' = Goto(p, "exit"))
  BY <1>1, CreateQuietStep
<1>2. CASE /\ ~Exists("fname") /\ MayCreate /\ FreeInodes # {}
           /\ SetFiles([dir EXCEPT !["fname"] = FreeInode], Goto(p, "compress"),
                       [disk EXCEPT ![FreeInode] = <<>>])
  BY <1>2, CreateFileStep, Zenon
<1> QED
  BY <1>1, <1>2 DEF Create

\* The end of a copy: a compress run goes on, the other writers are done.
LEMMA DoneHandle ==
  ASSUME hd \in [Procs -> Handle], NEW p \in Procs, NEW d, NEW c, CopyDone(p, d, c)
  PROVE  LET r == hd'[p] IN
         /\ SetFiles(d, hd', c)
         /\ hd' \in [Procs -> Handle] /\ \A q \in Procs \ {p} : hd'[q] = hd[q]
         /\ r.pc = IF hd[p].mode # "compress" THEN "exit"
                   ELSE IF hd[p].op \in SearchFirst THEN "search" ELSE "lock"
         /\ r.op = hd[p].op /\ r.key = hd[p].key /\ r.fp = hd[p].fp /\ r.found = hd[p].found
         /\ r.mode = IF hd[p].mode = "compress" THEN "none" ELSE hd[p].mode
         /\ r.src = NoInode /\ r.new = NoInode
         /\ lock' = lock \/ lock' = NoProc
<1>0. hd[p] \in Handle
  OBVIOUS
<1>1. CASE hd[p].mode = "compress"
  <2>1. SetFiles(d, hd', c) /\ hd' = [hd EXCEPT ![p] = Begin(@)] /\ (lock' = lock \/ lock' = NoProc)
    BY <1>1, Zenon DEF CopyDone, SetFiles
  <2> QED
    BY <1>0, <1>1, <2>1, BeginHandle, Zenon
<1>2. CASE hd[p].mode # "compress"
  <2> DEFINE old == hd[p]
             r == [old EXCEPT !.pc = "exit", !.src = NoInode, !.new = NoInode]
  <2>1. SetFiles(d, hd', c) /\ hd' = [hd EXCEPT ![p] = r] /\ lock' = lock
    BY <1>2, Zenon DEF CopyDone, SetFiles
  <2>2. old \in Handle /\ "exit" \in PCs
    BY <1>0 DEF PCs
  <2> HIDE DEF old
  <2>3. /\ r \in Handle /\ r.pc = "exit" /\ r.op = old.op /\ r.key = old.key /\ r.mode = old.mode
        /\ r.fp = old.fp /\ r.found = old.found /\ r.src = NoInode /\ r.new = NoInode
    BY <2>2, ZenonT(30) DEF Handle
  <2> HIDE DEF r
  <2>4. hd' \in [Procs -> Handle] /\ hd'[p] = r /\ \A q \in Procs \ {p} : hd'[q] = hd[q]
    BY <2>1, <2>3, ZenonT(30)
  <2> QED
    BY <1>2, <2>1, <2>3, <2>4, Zenon DEF old
<1> QED
  BY <1>1, <1>2

\* The end of a copy, if it leaves the right names behind.
LEMMA DoneStep ==
  ASSUME Good, NEW p \in Procs, NEW d \in [Names -> Inodes \cup {NoInode}], CopyDone(p, d, disk),
         hd[p].pc \in {"write", "rename2"}, sessions' = sessions, misplaced => misplaced',
         d["tmp"] \in {NoInode, dir["tmp"]},
         d["tmp"] # NoInode => d["tmp"] # d["fname"] /\ d["tmp"] # d["bak"],
         d["fname"] # NoInode, misplaced' \/ Sound(disk[d["fname"]])
  PROVE  Good'
<1>1. /\ hd \in [Procs -> Handle] /\ sessions \in Nat /\ Own(p) /\ lock = p
      /\ disk \in [Inodes -> Seq(Blob)]
  BY Zenon DEF Good, Types, Own, Holder, Critical
<1>2. LET r == hd'[p] IN
      /\ SetFiles(d, hd', disk)
      /\ hd' \in [Procs -> Handle] /\ \A q \in Procs \ {p} : hd'[q] = hd[q]
      /\ r.pc = IF hd[p].mode # "compress" THEN "exit"
                ELSE IF hd[p].op \in SearchFirst THEN "search" ELSE "lock"
      /\ r.op = hd[p].op /\ r.key = hd[p].key /\ r.fp = hd[p].fp /\ r.found = hd[p].found
      /\ r.mode = IF hd[p].mode = "compress" THEN "none" ELSE hd[p].mode
      /\ r.src = NoInode /\ r.new = NoInode
  BY <1>1, DoneHandle
<1>3. StepOf(p) /\ GoesOn(p)
  BY <1>1, <1>2, OpsAssumption, Zenon DEF StepOf, GoesOn
<1>4. /\ dir' = d /\ Types'
      /\ \A i \in Inodes : disk'[i] = disk[i] \/ disk'[i] = <<>>
      /\ \A i \in Inodes : i \notin InUse(dir', hd') => disk'[i] = <<>>
      /\ \A n \in Names : d[n] # NoInode => disk'[d[n]] = disk[d[n]]
      /\ \A q \in Procs : hd'[q].fp # NoInode => disk'[hd'[q].fp] = disk[hd'[q].fp]
  <2>1. \A i \in Inodes : disk[i] \in Seq(Blob)
    BY <1>1, Zenon
  <2>2. Stored(d, hd', disk)
    BY <1>2, <1>3, <2>1, AfterSet, ZenonT(30)
  <2> QED
    BY <2>2, Zenon DEF Stored
<1>5. \A q \in Procs : hd[q].fp # NoInode => hd[q].fp # dir'["tmp"] /\ disk'[hd[q].fp] = disk[hd[q].fp]
  <2>1. \A q \in Procs : hd'[q].fp = hd[q].fp
    BY <1>2, Zenon
  <2>2. \A q \in Procs : hd[q].fp # NoInode => hd[q].fp # dir["tmp"]
    BY Zenon DEF Good, Own, Reader
  <2> QED
    BY <1>4, <2>1, <2>2, Zenon
<1>6. Exclusive(p)
  BY <1>1, <1>3, <1>4, <1>5, NoNewBlobs, Zenon
<1>7. Files' /\ (misplaced \/ Clean)'
  <2>1. "fname" \in Names
    BY DEF Names
  <2> QED
    BY <1>4, <2>1, ZenonT(30) DEF Files, Clean, Exists
<1>8. Reader(p)'
  <2>1. Reader(p)
    BY <1>1, Zenon DEF Own
  <2>2. hd[p].op \in SearchFirst \/ hd[p].fp = NoInode
    BY <2>1, ZenonT(30) DEF Reader
  <2>3. hd[p].fp # NoInode /\ hd[p].found # 0 => Hit(disk'[hd[p].fp], hd[p])
    BY <1>5, <2>1, Zenon DEF Reader
  <2> QED
    BY <1>2, <1>5, <2>2, <2>3, Zenon DEF Reader, Hit
<1>9. Holder(p)' /\ Writer(p)'
  BY <1>2, NotCritical, Zenon DEF Critical
<1>10. Generator(p)'
  <2>1. hd[p].op = "generate" => hd[p].mode # "update" /\ hd[p].op \notin SearchFirst
    BY <1>1, Zenon DEF Own, Generator, SearchFirst
  <2> QED
    BY <1>2, <1>3, <1>4, <2>1, StillUnknown, Zenon
<1> QED
  BY <1>3, <1>4, <1>6, <1>7, <1>8, <1>9, <1>10, ExclusiveStep, Zenon DEF Own

\* Nothing is copied: there is no blob to replace, or nothing to compress.
LEMMA WriteFailsStep ==
  ASSUME Good, NEW p \in Procs, Write(p), CopyFails(disk[hd[p].src], hd[p])
  PROVE  Good'
<1> DEFINE d == IF hd[p].mode = "compress" THEN [dir EXCEPT !["tmp"] = NoInode] ELSE dir
<1>1. CopyDone(p, d, disk) /\ hd[p].pc = "write" /\ sessions' = sessions /\ (misplaced => misplaced')
  BY Zenon DEF Write
<1>2. /\ dir \in [Names -> Inodes \cup {NoInode}] /\ Exists("fname") /\ Exists("tmp")
      /\ dir["tmp"] # dir["fname"] /\ dir["tmp"] # dir["bak"] /\ (misplaced \/ Sound(disk[dir["fname"]]))
  BY <1>1, Zenon DEF Good, Types, Own, Holder, Files, Clean
<1>3. /\ d \in [Names -> Inodes \cup {NoInode}] /\ d["tmp"] \in {NoInode, dir["tmp"]}
      /\ d["fname"] = dir["fname"] /\ d["bak"] = dir["bak"] /\ d["fname"] # NoInode
  BY <1>2, Zenon DEF Names, Exists
<1> HIDE DEF d
<1>4. misplaced' \/ Sound(disk[d["fname"]])
  BY <1>1, <1>2, <1>3, ZenonT(30)
<1>5. d["tmp"] # NoInode => d["tmp"] # d["fname"] /\ d["tmp"] # d["bak"]
  BY <1>2, <1>3, ZenonT(30)
<1> QED
  BY <1>1, <1>3, <1>4, <1>5, DoneStep, Zenon

\* rename_tmp_file, the second rename: the temporary file becomes the file.
LEMMA Rename2Step ==
  ASSUME Good, NEW p \in Procs, Rename2(p)
  PROVE  Good'
<1> DEFINE d == [dir EXCEPT !["fname"] = dir["tmp"], !["tmp"] = NoInode]
<1>1. /\ hd[p].pc = "rename2" /\ UNCHANGED <<sessions, misplaced>> /\ Exists("tmp")
      /\ dir \in [Names -> Inodes \cup {NoInode}]
      /\ Made(disk[dir["bak"]], disk[dir["tmp"]], hd[p])
  BY Zenon DEF Good, Types, Own, Holder, Writer, Rename2
<1>2. CopyDone(p, d, disk)
  BY <1>1, Zenon DEF Rename2
<1>3. d \in [Names -> Inodes \cup {NoInode}] /\ d["tmp"] = NoInode /\ d["fname"] = dir["tmp"]
  BY <1>1, ZenonT(30) DEF Names
<1> HIDE DEF d
<1>4. misplaced' \/ Sound(disk[d["fname"]])
  BY <1>1, <1>3, ZenonT(30) DEF Made
<1> QED
  BY <1>1, <1>2, <1>3, <1>4, DoneStep, ZenonT(30) DEF Exists

\* blob_filecopy and keybox_compress have written the temporary file.
LEMMA WrittenStep ==
  ASSUME Good, NEW p \in Procs, Write(p), ~CopyFails(disk[hd[p].src], hd[p])
  PROVE  Good'
<1> DEFINE g == [hd EXCEPT ![p].pc = "rename1", ![p].src = NoInode, ![p].new = NoInode]
<1>0. PICK d0 \in NewContents(disk[hd[p].src], hd[p]) :
           SetFiles(dir, g, [disk EXCEPT ![hd[p].new] = Overlay(@, d0)])
  BY Zenon DEF Write
<1> DEFINE h == hd[p]
           old == disk[dir["fname"]]
           tmp == dir["tmp"]
           new == Overlay(<<>>, d0)
           c == [disk EXCEPT ![tmp] = new]
<1>1. /\ hd \in [Procs -> Handle] /\ sessions \in Nat /\ Own(p) /\ Files
      /\ dir \in [Names -> Inodes \cup {NoInode}] /\ disk \in [Inodes -> Seq(Blob)]
      /\ h \in Handle /\ h.pc = "write" /\ h.mode # "none" /\ lock = p /\ h.key \in Keys
      /\ UNCHANGED <<lock, sessions>> /\ misplaced' = (misplaced \/ (h.mode = "update" /\ ~h.fresh))
  BY ZenonT(30) DEF Good, Types, Own, Holder, Critical, Generator, Write
<1>2. /\ h.src = dir["fname"] /\ h.new = tmp /\ disk[tmp] = <<>>
      /\ dir["fname"] \in Inodes /\ tmp \in Inodes /\ tmp # NoInode /\ dir["fname"] # NoInode
      /\ tmp # dir["fname"] /\ tmp # dir["bak"] /\ old \in Seq(Blob)
  BY <1>1, Zenon DEF Own, Holder, Files, Exists, Names
<1>3. SetFiles(dir, g, c)
  BY <1>0, <1>2
<1>4. Before(old, h) /\ ~CopyFails(old, h)
  BY <1>1, <1>2, Zenon DEF Own, Writer
<1>5. /\ new \in Seq(Blob)
      /\ \A j \in DOMAIN new : new[j].key = h.key \/ \E i \in DOMAIN old : new[j].key = old[i].key
      /\ h.mode = "compress" => \A j \in DOMAIN new : \E i \in DOMAIN old : new[j].key = old[i].key
      /\ \A k \in Keys : (h.mode = "compress" \/ k # h.key) /\ (h.mode = "update" => h.fresh) =>
            Versions(new, k) = Versions(old, k)
      /\ /\ Sound(old) /\ (h.mode = "update" => h.fresh)
         /\ h.mode = "insert" => Versions(old, h.key) = {}
         => Sound(new) /\ (h.mode = "update" => Versions(old, h.key) = {h.base})
  <2>1. h.mode = "update" =>
           h.found # 0 /\ (h.fresh => Live(old, h.found) /\ Hit(old, h) /\ old[h.found].ver = h.base)
    BY <1>4, Zenon DEF Before
  <2>2. d0 \in NewContents(old, h)
    BY <1>0, <1>2
  <2> HIDE DEF h, old
  <2> QED
    BY <1>1, <1>2, <1>4, <2>1, <2>2, Written, Zenon
<1>6. LET r == g[p] IN
      /\ g \in [Procs -> Handle] /\ \A q \in Procs \ {p} : g[q] = hd[q]
      /\ r.pc = "rename1" /\ r.op = h.op /\ r.key = h.key /\ r.mode = h.mode
      /\ r.fp = h.fp /\ r.fresh = h.fresh /\ r.found = h.found /\ r.base = h.base
      /\ r.src = NoInode /\ r.new = NoInode
  <2> DEFINE r == [h EXCEPT !.pc = "rename1", !.src = NoInode, !.new = NoInode]
  <2>1. g = [hd EXCEPT ![p] = r] /\ "rename1" \in PCs
    BY Zenon DEF PCs
  <2> HIDE DEF h, g
  <2>2. /\ r \in Handle /\ r.pc = "rename1" /\ r.op = h.op /\ r.key = h.key /\ r.mode = h.mode
        /\ r.fp = h.fp /\ r.fresh = h.fresh /\ r.found = h.found /\ r.base = h.base
        /\ r.src = NoInode /\ r.new = NoInode
    BY <1>1, <2>1, Zenon DEF Handle
  <2> HIDE DEF r
  <2>3. g \in [Procs -> Handle] /\ g[p] = r /\ \A q \in Procs \ {p} : g[q] = hd[q]
    BY <1>1, <2>1, <2>2, Zenon
  <2> QED
    BY <2>2, <2>3, Zenon
<1> HIDE DEF new
<1>7. \A i \in Inodes : c[i] \in Seq(Blob) /\ (c[i] = IF i = tmp THEN new ELSE disk[i])
  BY <1>1, <1>2, <1>5, Zenon
<1> HIDE DEF g, c
<1>8. hd' = g
  BY <1>3, Zenon DEF SetFiles
<1>9. StepOf(p) /\ GoesOn(p)
  BY <1>1, <1>6, <1>8, OpsAssumption, Zenon DEF StepOf, GoesOn
<1>10. /\ dir' = dir /\ Types'
       /\ \A i \in Inodes : disk'[i] = c[i] \/ disk'[i] = <<>>
       /\ \A i \in Inodes : i \notin InUse(dir', hd') => disk'[i] = <<>>
       /\ \A n \in Names : dir[n] # NoInode => disk'[dir[n]] = c[dir[n]]
       /\ \A q \in Procs : g[q].fp # NoInode => disk'[g[q].fp] = c[g[q].fp]
  <2>1. Stored(dir, g, c)
    BY <1>1, <1>3, <1>7, <1>9, AfterSet, ZenonT(30)
  <2> QED
    BY <2>1, Zenon DEF Stored
<1>11. disk'[dir["fname"]] = old /\ disk'[tmp] = new
  BY <1>2, <1>7, <1>10, ZenonT(30) DEF Names
<1>12. \A q \in Procs : hd[q].fp # NoInode => hd[q].fp # dir'["tmp"] /\ disk'[hd[q].fp] = disk[hd[q].fp]
  <2>1. \A q \in Procs : /\ g[q].fp = hd[q].fp /\ hd[q].fp \in Inodes \cup {NoInode}
                         /\ hd[q].fp # NoInode => hd[q].fp # dir["tmp"]
    BY <1>1, <1>6, Zenon DEF Handle, Good, Own, Reader
  <2>2. ASSUME NEW q \in Procs, hd[q].fp # NoInode
        PROVE  hd[q].fp # dir'["tmp"] /\ disk'[hd[q].fp] = disk[hd[q].fp]
    <3>1. hd[q].fp \in Inodes /\ hd[q].fp # tmp /\ g[q].fp = hd[q].fp
      BY <2>1, <2>2
    <3>2. c[hd[q].fp] = disk[hd[q].fp]
      BY <1>7, <3>1
    <3> QED
      BY <1>10, <2>2, <3>1, <3>2, Zenon
  <2> QED
    BY <2>2
<1>13. \A i \in Inodes : \A j \in DOMAIN disk'[i] :
          \/ h.mode # "compress" /\ disk'[i][j].key = h.key
          \/ \E l \in Inodes : \E m \in DOMAIN disk[l] : disk[l][m].key = disk'[i][j].key
  <2>1. ASSUME NEW i \in Inodes, NEW j \in DOMAIN disk'[i]
        PROVE  \/ h.mode # "compress" /\ disk'[i][j].key = h.key
               \/ \E l \in Inodes : \E m \in DOMAIN disk[l] : disk[l][m].key = disk'[i][j].key
    <3>1. CASE i = tmp
      <4>1. \/ h.mode # "compress" /\ new[j].key = h.key
            \/ \E m \in DOMAIN old : new[j].key = old[m].key
        BY <1>5, <1>11, <2>1, <3>1, Zenon
      <4> QED
        BY <1>2, <1>11, <3>1, <4>1
    <3>2. CASE i # tmp
      <4>1. disk'[i] = disk[i]
        <5>1. c[i] = disk[i]
          BY <1>7, <2>1, <3>2
        <5>2. disk'[i] = c[i]
          BY <1>10, <2>1, NoBlobs, Zenon
        <5> QED
          BY <5>1, <5>2
      <4> QED
        BY <2>1, <4>1, Zenon
    <3> QED
      BY <3>1, <3>2, ZenonT(30)
  <2> QED
    BY <2>1, Zenon
<1>14. Exclusive(p)
  BY <1>1, <1>12, <1>13, Zenon DEF Exclusive
<1>15. Files' /\ (misplaced \/ Clean)'
  BY <1>1, <1>2, <1>10, <1>11, Zenon DEF Files, Good, Clean, Exists
<1>16. Reader(p)'
  <2>1. Reader(p)
    BY <1>1 DEF Own
  <2>2. hd[p].op \in SearchFirst \/ hd[p].fp = NoInode
    BY <1>1, <2>1, Zenon DEF Reader
  <2>3. hd[p].fp # NoInode /\ hd[p].found # 0 => Hit(disk'[hd[p].fp], hd[p])
    BY <1>12, <2>1, Zenon DEF Reader
  <2> QED
    BY <1>6, <1>8, <1>12, <2>2, <2>3, Zenon DEF Reader, Hit
<1>17. Holder(p)'
  BY <1>1, <1>2, <1>6, <1>8, <1>10, Zenon DEF Holder, Exists
<1>18. Writer(p)'
  <2>1. ASSUME ~misplaced'
        PROVE  /\ Sound(new)
               /\ h.mode = "update" => h.fresh /\ Versions(old, h.key) = {h.base}
               /\ h.mode = "insert" => Versions(old, h.key) = {}
    <3>1. ~misplaced /\ (h.mode = "update" => h.fresh)
      BY <1>1, <2>1, Zenon
    <3>2. Sound(old) /\ (h.mode = "insert" => Versions(old, h.key) = {})
      BY <1>2, <1>4, <3>1, Zenon DEF Good, Clean, Before, Exists
    <3> QED
      BY <1>5, <3>1, <3>2, Zenon
  <2>2. disk'[dir'["fname"]] = old /\ disk'[dir'["tmp"]] = new
    BY <1>10, <1>11, Zenon
  <2> HIDE DEF h, old, tmp
  <2>3. Made(disk[dir["fname"]], disk[dir["tmp"]], hd[p])'
    BY <1>5, <1>6, <1>8, <2>1, <2>2, ZenonT(30) DEF Made
  <2> QED
    BY <1>6, <1>8, <2>3, Zenon DEF Writer
<1>19. Generator(p)'
  <2>1. Generator(p) /\ \A q \in Procs \ {p} : hd'[q].key = hd[q].key
    BY <1>1, <1>9 DEF Own, StepOf
  <2>2. h.op = "generate" => \/ h.mode = "insert"
                             \/ \A i \in Inodes : \A j \in DOMAIN disk'[i] : disk'[i][j].key # h.key
    <3>1. h.op = "generate" => h.mode \in {"insert", "compress"}
      BY <1>1, <2>1, Zenon DEF Generator, Handle
    <3>2. h.op = "generate" => \A i \in Inodes : \A j \in DOMAIN disk[i] : disk[i][j].key # h.key
      BY <1>1, <2>1, Zenon DEF Generator
    <3> HIDE DEF h
    <3> QED
      BY <1>13, <3>1, <3>2
  <2> QED
    BY <1>6, <1>8, <1>9, <2>1, <2>2, Zenon DEF Generator, GoesOn
<1> QED
  BY <1>9, <1>10, <1>14, <1>15, <1>16, <1>17, <1>18, <1>19, ExclusiveStep, Zenon DEF Own

\* blob_filecopy and keybox_compress.
LEMMA WriteStep ==
  ASSUME Good, NEW p \in Procs, Write(p)
  PROVE  Good'
  BY WriteFailsStep, WrittenStep, ZenonT(30)

\* rename_tmp_file, the first rename: the file becomes the backup file.
LEMMA Rename1Step ==
  ASSUME Good, NEW p \in Procs, Rename1(p)
  PROVE  Good'
<1> DEFINE d == [dir EXCEPT !["bak"] = dir["fname"], !["fname"] = NoInode]
           h == hd[p]
<1>1. /\ hd \in [Procs -> Handle] /\ sessions \in Nat /\ Own(p) /\ Files
      /\ dir \in [Names -> Inodes \cup {NoInode}] /\ disk \in [Inodes -> Seq(Blob)]
      /\ h.pc = "rename1" /\ lock = p /\ h.key \in Keys /\ h.src = NoInode /\ h.new = NoInode
      /\ h.mode # "none" /\ UNCHANGED <<sessions, misplaced>>
      /\ Exists("fname") /\ Exists("tmp") /\ Made(disk[dir["fname"]], disk[dir["tmp"]], h)
  BY Zenon DEF Good, Types, Own, Holder, Writer, Critical, Generator, Rename1
<1>2. SetFiles(d, Goto(p, "rename2"), disk) /\ lock' = lock
  BY <1>1, Zenon DEF Rename1
<1>3. LET r == hd'[p] IN
      /\ hd' \in [Procs -> Handle] /\ \A q \in Procs \ {p} : hd'[q] = hd[q]
      /\ r.pc = "rename2" /\ r.op = h.op /\ r.key = h.key /\ r.mode = h.mode
      /\ r.fp = h.fp /\ r.fresh = h.fresh /\ r.found = h.found /\ r.base = h.base
      /\ r.src = h.src /\ r.new = h.new
  <2>1. "rename2" \in PCs /\ hd' = Goto(p, "rename2")
    BY <1>2 DEF PCs, SetFiles
  <2> QED
    BY <1>1, <2>1, GotoHandle, ZenonT(30)
<1>4. StepOf(p) /\ GoesOn(p)
  BY <1>1, <1>2, <1>3, OpsAssumption, Zenon DEF StepOf, GoesOn
<1>5. /\ d \in [Names -> Inodes \cup {NoInode}]
      /\ d["fname"] = NoInode /\ d["bak"] = dir["fname"] /\ d["tmp"] = dir["tmp"]
  BY <1>1, Zenon DEF Names
<1> HIDE DEF d
<1>6. /\ dir' = d /\ Types'
      /\ \A i \in Inodes : disk'[i] = disk[i] \/ disk'[i] = <<>>
      /\ \A i \in Inodes : i \notin InUse(dir', hd') => disk'[i] = <<>>
      /\ \A n \in Names : d[n] # NoInode => disk'[d[n]] = disk[d[n]]
      /\ \A q \in Procs : hd'[q].fp # NoInode => disk'[hd'[q].fp] = disk[hd'[q].fp]
  <2>1. SetFiles(d, hd', disk) /\ \A i \in Inodes : disk[i] \in Seq(Blob)
    BY <1>1, <1>2, Zenon DEF SetFiles
  <2>2. Stored(d, hd', disk)
    BY <1>4, <1>5, <2>1, AfterSet
  <2> QED
    BY <2>2, Zenon DEF Stored
<1>7. \A q \in Procs : hd[q].fp # NoInode => hd[q].fp # dir'["tmp"] /\ disk'[hd[q].fp] = disk[hd[q].fp]
  <2>1. \A q \in Procs : hd'[q].fp = hd[q].fp
    BY <1>3, ZenonT(30)
  <2>2. \A q \in Procs : hd[q].fp # NoInode => hd[q].fp # dir["tmp"]
    BY DEF Good, Own, Reader
  <2> QED
    BY <1>5, <1>6, <2>1, <2>2, Zenon
<1>8. Exclusive(p)
  BY <1>1, <1>4, <1>6, <1>7, NoNewBlobs, ZenonT(30)
<1>9. disk'[dir'["bak"]] = disk[dir["fname"]] /\ disk'[dir'["tmp"]] = disk[dir["tmp"]]
  BY <1>1, <1>5, <1>6, ZenonT(30) DEF Names, Exists
<1>10. Files'
  BY <1>1, <1>5, <1>6, ZenonT(30) DEF Files, Exists
<1>11. (misplaced \/ Clean)'
  <2>1. ASSUME ~misplaced
        PROVE  Clean'
    <3>1. Sound(disk[dir["fname"]]) /\ (h.mode = "update" => h.fresh)
      BY <1>1, <2>1, Zenon DEF Good, Clean, Made
    <3>2. \A k \in Keys \ {h.key} : Versions(disk[dir["fname"]], k) = Versions(disk[dir["tmp"]], k)
      BY <1>1, <3>1 DEF Made
    <3>3. Sound(disk'[dir'["bak"]])
      BY <1>9, <3>1, ZenonT(30)
    <3>4. \A k \in Keys \ {h.key} : Versions(disk'[dir'["bak"]], k) = Versions(disk'[dir'["tmp"]], k)
      BY <1>9, <3>2
    <3> QED
      BY <1>1, <1>5, <1>6, <3>3, <3>4, Zenon DEF Clean, Exists
  <2> QED
    BY <1>1, <2>1
<1>12. Reader(p)'
  <2>1. Reader(p)
    BY <1>1, Zenon DEF Own
  <2>2. hd[p].op \in SearchFirst \/ hd[p].fp = NoInode
    BY <1>1, <2>1 DEF Reader
  <2>3. hd[p].fp # NoInode /\ hd[p].found # 0 => Hit(disk'[hd[p].fp], hd[p])
    BY <1>7, <2>1 DEF Reader
  <2> QED
    BY <1>3, <1>7, <2>2, <2>3, Zenon DEF Reader, Hit
<1>13. Holder(p)'
  BY <1>1, <1>2, <1>3, <1>5, <1>6, Zenon DEF Holder, Exists
<1>14. Writer(p)'
  <2>1. Made(disk[dir["bak"]], disk[dir["tmp"]], hd[p])'
    BY <1>1, <1>3, <1>9, Zenon DEF Made
  <2> QED
    BY <1>1, <1>3, <1>5, <1>6, <2>1, Zenon DEF Writer, Exists
<1>15. Generator(p)'
  <2>1. h.op = "generate" => h.mode # "update"
    BY <1>1, Zenon DEF Own, Generator
  <2> QED
    BY <1>1, <1>3, <1>4, <1>6, <2>1, StillUnknown, Zenon
<1> QED
  BY <1>4, <1>6, <1>8, <1>10, <1>11, <1>12, <1>13, <1>14, <1>15, ExclusiveStep DEF Own

\* keybox_delete and keybox_set_flags.
LEMMA InPlaceStep ==
  ASSUME Good, NEW p \in Procs, InPlace(p)
  PROVE  Good'
<1> DEFINE h == hd[p]
           f == dir["fname"]
           old == disk[f]
           new == Patch(old, h.found, h)
           g == [hd EXCEPT ![p].pc = "exit", ![p].fp = NoInode]
           c == [disk EXCEPT ![f] = new]
<1>1. /\ hd \in [Procs -> Handle] /\ sessions \in Nat /\ Own(p) /\ Files
      /\ dir \in [Names -> Inodes \cup {NoInode}] /\ disk \in [Inodes -> Seq(Blob)]
      /\ h \in Handle /\ h.pc = "inplace" /\ lock = p /\ h.src = NoInode /\ h.new = NoInode
      /\ h.op \in {"keydelete", "setflags"} /\ h.found # 0 /\ h.fp # NoInode /\ (h.fresh => h.fp = f)
      /\ Hit(disk[h.fp], h)
      /\ UNCHANGED <<lock, sessions>> /\ misplaced' = (misplaced \/ ~h.fresh)
  BY DEF Good, Types, Own, Holder, Critical, Reader, InPlace
<1>2. LET r == g[p] IN
      /\ g \in [Procs -> Handle] /\ \A q \in Procs \ {p} : g[q] = hd[q]
      /\ r.pc = "exit" /\ r.op = h.op /\ r.key = h.key /\ r.fp = NoInode
      /\ r.src = NoInode /\ r.new = NoInode
  <2>1. "exit" \in PCs
    BY DEF PCs
  <2> QED
    BY <1>1, <2>1, Zenon DEF Handle
<1>3. SetFiles(dir, g, IF Exists("fname") THEN c ELSE disk)
  BY DEF InPlace
<1> HIDE DEF g
<1>4. hd' = g
  BY <1>3 DEF SetFiles
<1>5. StepOf(p) /\ GoesOn(p)
  BY <1>1, <1>2, <1>4, OpsAssumption, Zenon DEF StepOf, GoesOn
<1>6. Reader(p)'
  BY <1>2, <1>4, ZenonT(30) DEF Reader
<1>7. Holder(p)' /\ Writer(p)'
  BY <1>2, <1>4, NotCritical DEF Critical
<1>8. Generator(p)'
  BY <1>1, <1>2, <1>4, <1>5, Zenon DEF Generator, GoesOn, Own
<1>9. CASE ~Exists("fname")
  <2>1. \A i \in Inodes : disk[i] \in Seq(Blob)
    BY <1>1, Zenon
  <2>2. SetFiles(dir, g, disk)
    BY <1>3, <1>9
  <2>3. /\ dir' = dir /\ disk' \in [Inodes -> Seq(Blob)]
        /\ \A i \in Inodes : disk'[i] = IF i \in InUse(dir', hd') THEN disk[i] ELSE <<>>
    BY <2>1, <2>2, FilesSet
  <2>4. Quiet
    BY <2>3, ZenonT(30) DEF Quiet
  <2> QED
    BY <1>5, <1>6, <1>7, <1>8, <2>4, QuietStep DEF Own
<1>10. CASE Exists("fname")
  <2>1. f \in Inodes /\ f # NoInode /\ old \in Seq(Blob) /\ f # dir["tmp"]
    BY <1>1, <1>10 DEF Exists, Names, Files
  <2>2. /\ new \in Seq(Blob)
        /\ DOMAIN old \subseteq DOMAIN new /\ \A j \in DOMAIN old : new[j].key = old[j].key
        /\ \A j \in DOMAIN new : new[j].key = NoKey \/ \E i \in DOMAIN old : new[j].key = old[i].key
        /\ Hit(old, h) /\ Sound(old) => Sound(new)
    <3> HIDE DEF h, old
    <3> QED
      BY <1>1, <2>1, Patched, Zenon
  <2>3. SetFiles(dir, g, c)
    BY <1>3, <1>10
  <2> HIDE DEF new
  <2>4. \A i \in Inodes : c[i] \in Seq(Blob) /\ (c[i] = IF i = f THEN new ELSE disk[i])
    BY <1>1, <2>1, <2>2, Zenon
  <2> HIDE DEF c
  <2>5. /\ dir' = dir /\ Types'
        /\ \A i \in Inodes : disk'[i] = c[i] \/ disk'[i] = <<>>
        /\ \A i \in Inodes : i \notin InUse(dir', hd') => disk'[i] = <<>>
        /\ \A n \in Names : dir[n] # NoInode => disk'[dir[n]] = c[dir[n]]
        /\ \A q \in Procs : g[q].fp # NoInode => disk'[g[q].fp] = c[g[q].fp]
    <3>1. Stored(dir, g, c)
      BY <1>1, <1>5, <2>3, <2>4, AfterSet, ZenonT(30)
    <3> QED
      BY <3>1, Zenon DEF Stored
  <2>6. disk'[f] = new
    BY <2>1, <2>4, <2>5, Zenon DEF Names
  <2>7. \A q \in Procs \ {p} : hd[q].fp # NoInode =>
           /\ hd[q].fp # dir'["tmp"]
           /\ DOMAIN disk[hd[q].fp] \subseteq DOMAIN disk'[hd[q].fp]
           /\ \A j \in DOMAIN disk[hd[q].fp] : disk'[hd[q].fp][j].key = disk[hd[q].fp][j].key
    <3>1. ASSUME NEW q \in Procs \ {p}, hd[q].fp # NoInode
          PROVE  /\ hd[q].fp # dir'["tmp"]
                 /\ DOMAIN disk[hd[q].fp] \subseteq DOMAIN disk'[hd[q].fp]
                 /\ \A j \in DOMAIN disk[hd[q].fp] : disk'[hd[q].fp][j].key = disk[hd[q].fp][j].key
      <4>1. g[q].fp = hd[q].fp /\ hd[q].fp \in Inodes /\ hd[q].fp # dir["tmp"]
        BY <1>1, <1>2, <3>1, ZenonT(30) DEF Handle, Good, Own, Reader
      <4>2. CASE hd[q].fp = f
        BY <2>2, <2>5, <2>6, <4>1, <4>2, Zenon
      <4>3. CASE hd[q].fp # f
        BY <2>4, <2>5, <3>1, <4>1, <4>3
      <4> QED
        BY <4>2, <4>3
    <3> QED
      BY <3>1, ZenonT(30)
  <2>8. \A i \in Inodes : \A j \in DOMAIN disk'[i] :
           \/ disk'[i][j].key \in {NoKey, hd[p].key}
           \/ \E l \in Inodes : \E m \in DOMAIN disk[l] : disk[l][m].key = disk'[i][j].key
    <3>1. ASSUME NEW i \in Inodes, NEW j \in DOMAIN disk'[i]
          PROVE  \/ disk'[i][j].key \in {NoKey, hd[p].key}
                 \/ \E l \in Inodes : \E m \in DOMAIN disk[l] : disk[l][m].key = disk'[i][j].key
      <4>1. CASE i = f
        BY <2>1, <2>2, <2>6, <3>1, <4>1, Zenon
      <4>2. CASE i # f
        <5>1. disk'[i] = disk[i]
          BY <2>4, <2>5, <3>1, <4>2, NoBlobs, Zenon
        <5> QED
          BY <3>1, <5>1, Zenon
      <4> QED
        BY <4>1, <4>2
    <3> QED
      BY <3>1, Zenon
  <2>9. Exclusive(p)
    BY <1>1, <2>7, <2>8, Zenon DEF Exclusive
  <2>10. Files'
    BY <1>1, <2>5, Zenon DEF Files, Exists
  <2>11. (misplaced \/ Clean)'
    <3>1. ASSUME ~misplaced'
          PROVE  Sound(new)
      <4>1. h.fresh /\ ~misplaced /\ Hit(old, h) /\ Sound(old)
        BY <1>1, <1>10, <3>1, Zenon DEF Good, Clean
      <4> QED
        BY <2>2, <4>1
    <3> QED
      BY <1>10, <2>1, <2>5, <2>6, <3>1, Zenon DEF Clean, Exists
  <2> QED
    BY <1>5, <1>6, <1>7, <1>8, <2>5, <2>9, <2>10, <2>11, ExclusiveStep, ZenonT(30) DEF Own
<1> QED
  BY <1>9, <1>10

-----------------------------------------------------------------------------
(* The inductive invariant. *)

\* A file with the given keys, each of them once, is sound.
LEMMA InitialFile ==
  ASSUME NEW file \in InitialFiles
  PROVE  LET c == [j \in DOMAIN file |-> [key |-> file[j], ver |-> Fresh, del |-> FALSE]] IN
         c \in Seq(Blob) /\ Sound(c) /\ (file = <<>> => c = <<>>)
<1> DEFINE b(j) == [key |-> file[j], ver |-> Fresh, del |-> FALSE]
           c == [j \in DOMAIN file |-> b(j)]
<1>1. file \in Seq(Keys) /\ \A i, j \in DOMAIN file : file[i] = file[j] => i = j
  BY FilesAssumption
<1>2. \A j \in DOMAIN file : file[j] \in Keys /\ b(j) \in Blob /\ b(j).key = file[j] /\ b(j) # Junk
  <2>1. \A j \in DOMAIN file : file[j] \in Keys /\ file[j] # NoKey
    BY <1>1, OpsAssumption
  <2> QED
    BY <2>1 DEF Blob, Fresh, Junk
<1> HIDE DEF b
<1>3. DOMAIN file = 1..Len(file) /\ Len(file) \in Nat
  BY <1>1
<1>4. c \in Seq(Blob) /\ DOMAIN c = DOMAIN file /\ \A j \in DOMAIN c : c[j] = b(j)
  BY <1>2, <1>3
<1>5. Sound(c)
  <2> HIDE DEF c
  <2> QED
    BY <1>1, <1>2, <1>4 DEF Sound
<1>6. file = <<>> => c = <<>>
  <2> HIDE DEF c
  <2>1. file = <<>> => Len(file) = 0
    OBVIOUS
  <2>2. file = <<>> => DOMAIN c = 1..0
    BY <1>3, <1>4, <2>1
  <2>3. file = <<>> => Len(c) = 0
    BY <1>4, <2>2
  <2> QED
    BY <1>4, <2>3
<1> QED
  BY <1>4, <1>5, <1>6 DEF b

\* At the start there is one file, or none, and no command.
LEMMA InitInv ==
  ASSUME Init
  PROVE  Good
<1> PICK file \in InitialFiles :
       /\ disk = [i \in Inodes |->
                    IF i > 1 THEN <<>> ELSE [j \in DOMAIN file |->
                        [key |-> file[j], ver |-> Fresh, del |-> FALSE]]]
       /\ dir = [n \in Names |-> IF n = "fname" /\ file # <<>> THEN 1 ELSE NoInode]
  BY Zenon DEF Init
<1> DEFINE c == [j \in DOMAIN file |-> [key |-> file[j], ver |-> Fresh, del |-> FALSE]]
<1>1. c \in Seq(Blob) /\ Sound(c) /\ (file = <<>> => c = <<>>)
  BY InitialFile
<1>2. disk = [i \in Inodes |-> IF i > 1 THEN <<>> ELSE c]
  OBVIOUS
<1> HIDE DEF c
<1>3. 1 \in Inodes /\ \A i \in Inodes : i \in Nat /\ (i > 1 \/ i = 1)
  BY FilesAssumption DEF Inodes
<1>4. <<>> \in Seq(Blob)
  OBVIOUS
<1>5. disk \in [Inodes -> Seq(Blob)]
  BY <1>1, <1>2, <1>4, Zenon
<1>6. /\ dir["tmp"] = NoInode /\ dir["bak"] = NoInode
      /\ dir["fname"] = IF file # <<>> THEN 1 ELSE NoInode
      /\ dir \in [Names -> Inodes \cup {NoInode}]
  BY <1>3, ZenonT(30) DEF Names
<1>7. Off \in Handle
  BY DEF Off, Handle, PCs, NoInode
<1>8. hd \in [Procs -> Handle] /\ \A p \in Procs : hd[p] = Off
  BY <1>7 DEF Init
<1>9. Types
  BY <1>5, <1>6, <1>8 DEF Types, Init
<1>10. Files
  <2>1. ASSUME NEW i \in Inodes, i \notin InUse(dir, hd)
        PROVE  disk[i] = <<>>
    <3>1. CASE i > 1
      BY <1>2, <3>1
    <3>2. CASE i = 1
      <4>1. i # dir["fname"]
        BY <1>6, <1>8, <2>1, Used DEF Names
      <4>2. file = <<>>
        BY <1>6, <3>2, <4>1
      <4> QED
        BY <1>1, <1>2, <3>2, <4>2
    <3> QED
      BY <1>3, <3>1, <3>2
  <2> QED
    BY <1>6, <2>1 DEF Files, Exists
<1>11. Clean
  <2>1. Exists("fname") => dir["fname"] = 1 /\ disk[1] = c
    BY <1>2, <1>3, <1>6 DEF Exists
  <2> QED
    BY <1>1, <1>6, <2>1, Zenon DEF Clean, Exists
<1>12. ASSUME NEW p \in Procs
       PROVE  Own(p)
  <2>1. /\ hd[p] = Off /\ Off.pc = "off" /\ Off.op = "none" /\ Off.fp = NoInode
        /\ Off.src = NoInode /\ Off.new = NoInode
    BY <1>8, <1>12 DEF Off
  <2>2. "none" \notin SearchFirst
    BY DEF SearchFirst
  <2> HIDE DEF Off
  <2>3. Reader(p)
    BY <2>1, <2>2, ZenonT(30) DEF Reader
  <2>4. Holder(p)
    BY <2>1 DEF Holder, Critical
  <2>5. Writer(p)
    BY <2>1 DEF Writer
  <2>6. Generator(p)
    BY <2>1 DEF Generator
  <2> QED
    BY <2>3, <2>4, <2>5, <2>6, ZenonT(30) DEF Own
<1> QED
  BY <1>9, <1>10, <1>11, <1>12 DEF Good

\* The history variables are not reset.
Recalled == unlocked' \in BOOLEAN /\ (unlocked => unlocked') /\ (misplaced => misplaced')

\* A process that is on its way without the lock stays one; so does a writer that
\* used the wrong offset.
LEMMA HistoryKept ==
  ASSUME unlocked \in BOOLEAN, [Next]_vars
  PROVE  Recalled
<1>1. ASSUME NEW p \in Procs, Create(p) PROVE Recalled
  BY <1>1 DEF Recalled, Create
<1>2. ASSUME NEW p \in Procs, Compress(p) PROVE Recalled
  BY <1>2 DEF Recalled, Compress
<1>3. ASSUME NEW p \in Procs, Search(p) PROVE Recalled
  BY <1>3 DEF Recalled, Search
<1>4. ASSUME NEW p \in Procs, TryLock(p) PROVE Recalled
  <2>1. misplaced' = misplaced
    BY <1>4 DEF TryLock
  <2>2. unlocked' = unlocked \/ unlocked' = (unlocked \/ lock # p)
    BY <1>4 DEF TryLock
  <2> QED
    BY <2>1, <2>2, Zenon DEF Recalled
<1>5. ASSUME NEW p \in Procs, TakeLock(p) PROVE Recalled
  BY <1>5 DEF Recalled, TakeLock
<1>6. ASSUME NEW p \in Procs, Find(p) PROVE Recalled
  BY <1>6 DEF Recalled, Find
<1>7. ASSUME NEW p \in Procs, Access(p) PROVE Recalled
  BY <1>7, ZenonT(30) DEF Recalled, Access
<1>8. ASSUME NEW p \in Procs, Copy(p) PROVE Recalled
  BY <1>8 DEF Recalled, Copy
<1>9. ASSUME NEW p \in Procs, Write(p) PROVE Recalled
  BY <1>9, Zenon DEF Recalled, Write
<1>10. ASSUME NEW p \in Procs, Rename1(p) PROVE Recalled
  BY <1>10 DEF Recalled, Rename1
<1>11. ASSUME NEW p \in Procs, Rename2(p) PROVE Recalled
  BY <1>11 DEF Recalled, Rename2
<1>12. ASSUME NEW p \in Procs, InPlace(p) PROVE Recalled
  BY <1>12, Zenon DEF Recalled, InPlace
<1>13. ASSUME NEW p \in Procs, Exit(p) PROVE Recalled
  BY <1>13 DEF Recalled, Exit
<1>14. ASSUME NEW p \in Procs, Crash(p) PROVE Recalled
  BY <1>14 DEF Recalled, Crash
<1>15. ASSUME NEW p \in Procs, NEW op \in Ops, NEW k \in Keys, Start(p, op, k) PROVE Recalled
  BY <1>15 DEF Recalled, Start
<1>16. CASE UNCHANGED vars
  BY <1>16 DEF Recalled, vars
<1>17. ASSUME NEW p \in Procs, Step(p) PROVE Recalled
  BY <1>1, <1>2, <1>3, <1>4, <1>5, <1>6, <1>7, <1>8, <1>9, <1>10, <1>11, <1>12, <1>13, <1>17, ZenonT(30) DEF Step
<1>18. Recalled
  BY <1>14, <1>15, <1>16, <1>17 DEF Next, AllEnded
<1> QED
  BY <1>18 DEF Recalled, Recalled

\* Every step keeps the invariant.
LEMMA NextInv ==
  ASSUME IInv, [Next]_vars
  PROVE  IInv'
<1>0. unlocked' \in BOOLEAN
  BY HistoryKept DEF IInv, Recalled
<1> SUFFICES ASSUME ~unlocked'
             PROVE  Good'
  BY <1>0 DEF IInv
<1>1. ~unlocked /\ Good
  BY HistoryKept DEF IInv, Recalled
<1>2. ASSUME NEW p \in Procs, Step(p)
      PROVE  Good'
  <2>1. CASE Create(p)
    BY <1>1, <2>1, CreateStep
  <2>2. CASE Compress(p)
    BY <1>1, <2>2, CompressStep
  <2>3. CASE Search(p)
    BY <1>1, <2>3, SearchStep
  <2>4. CASE TryLock(p)
    BY <1>1, <2>4, TryLockStep, ZenonT(30)
  <2>5. CASE TakeLock(p)
    BY <1>1, <2>5, TakeLockStep
  <2>6. CASE Find(p)
    BY <1>1, <2>6, FindStep
  <2>7. CASE Access(p)
    BY <1>1, <2>7, AccessStep
  <2>8. CASE Copy(p)
    BY <1>1, <2>8, CopyStep
  <2>9. CASE Write(p)
    BY <1>1, <2>9, WriteStep
  <2>10. CASE Rename1(p)
    BY <1>1, <2>10, Rename1Step
  <2>11. CASE Rename2(p)
    BY <1>1, <2>11, Rename2Step
  <2>12. CASE InPlace(p)
    BY <1>1, <2>12, InPlaceStep
  <2>13. CASE Exit(p)
    BY <1>1, <2>13, LeaveStep
  <2> QED
    BY <1>2, <2>1, <2>2, <2>3, <2>4, <2>5, <2>6, <2>7, <2>8, <2>9, <2>10, <2>11, <2>12, <2>13
    DEF Step
<1>3. ASSUME NEW p \in Procs, Crash(p)
      PROVE  Good'
  BY <1>1, <1>3, LeaveStep
<1>4. ASSUME NEW p \in Procs, NEW op \in Ops, NEW k \in Keys, Start(p, op, k)
      PROVE  Good'
  BY <1>1, <1>4, StartStep
<1>5. CASE UNCHANGED vars
  <2>1. UNCHANGED <<disk, dir, lock, hd, sessions, misplaced>>
    BY <1>5, ZenonT(30) DEF vars
  <2>2. Types' /\ Files' /\ (misplaced \/ Clean)'
    BY <1>1, <2>1 DEF Good, Types, Files, Clean, Exists
  <2>3. ASSUME NEW p \in Procs
        PROVE  Own(p)'
    <3>1. Own(p)
      BY <1>1 DEF Good
    <3>2. Reader(p)' /\ Holder(p)'
      BY <2>1, <3>1, Zenon DEF Own, Reader, Holder, Exists
    <3>3. Writer(p)'
      BY <2>1, <3>1, Zenon DEF Own, Writer, Before, Made, Exists
    <3>4. Generator(p)'
      BY <2>1, <3>1, Zenon DEF Own, Generator
    <3> QED
      BY <3>2, <3>3, <3>4 DEF Own
  <2> QED
    BY <2>2, <2>3 DEF Good
<1> QED
  BY <1>2, <1>3, <1>4, <1>5 DEF Next, AllEnded

\* The invariant holds for ever.
THEOREM Invariance == Spec => []IInv
<1>1. Init => IInv
  BY InitInv, Zenon DEF IInv, Init
<1>2. IInv /\ [Next]_vars => IInv'
  BY NextInv
<1> QED
  BY <1>1, <1>2, PTL DEF Spec

\* No sequence of commands stores a key twice (see NoDuplicates).
THEOREM KeysAreUnique == Spec => []NoDuplicates
<1>1. IInv => NoDuplicates
  <2>1. Sound(<<>>)
    BY DEF Sound
  <2>2. ASSUME Clean
        PROVE  Sound(Database)
    BY <2>1, <2>2 DEF Clean, Database
  <2> QED
    BY <2>2 DEF IInv, Good, NoDuplicates, Sound
<1> QED
  BY <1>1, Invariance, PTL

\* Between the two renames, and after a crash there, the backup and the temporary
\* file are both there and differ in one key at most (see Recoverable).
THEOREM FilesAreRecoverable == Spec => []Recoverable
<1>1. IInv => Recoverable
  <2>1. SUFFICES ASSUME Good, ~misplaced, ~Exists("fname"), Exists("bak")
                 PROVE  /\ Exists("tmp")
                        /\ \A k, l \in Keys :
                              /\ Versions(disk[dir["bak"]], k) # Versions(disk[dir["tmp"]], k)
                              /\ Versions(disk[dir["bak"]], l) # Versions(disk[dir["tmp"]], l)
                              => k = l
    BY ZenonT(30) DEF IInv, Recoverable, Exists
  <2>2. Exists("tmp")
    BY <2>1 DEF Good, Files
  <2>3. PICK k0 \in Keys : \A k \in Keys \ {k0} :
           Versions(disk[dir["bak"]], k) = Versions(disk[dir["tmp"]], k)
    BY <2>1 DEF Good, Clean
  <2> QED
    BY <2>2, <2>3, ZenonT(30)
<1> QED
  BY <1>1, Invariance, PTL

-----------------------------------------------------------------------------
(* What a step does to the database. *)

\* The files with a name after a step.
LEMMA NamedAfter ==
  ASSUME NEW d \in [Names -> Inodes \cup {NoInode}], NEW h, NEW c, SetFiles(d, h, c),
         NEW n \in Names, d[n] # NoInode
  PROVE  dir' = d /\ disk'[d[n]] = c[d[n]]
<1>1. d[n] \in InUse(d, h) /\ d[n] \in Inodes
  BY ZenonT(30) DEF InUse
<1> QED
  BY <1>1 DEF SetFiles

\* Both names stay, and what they refer to.
LEMMA SameDatabase ==
  ASSUME Good, NEW d \in [Names -> Inodes \cup {NoInode}], NEW h, NEW c, SetFiles(d, h, c),
         d["fname"] = dir["fname"], d["bak"] = dir["bak"],
         Exists("fname") => c[dir["fname"]] = disk[dir["fname"]],
         ~Exists("fname") /\ Exists("bak") => c[dir["bak"]] = disk[dir["bak"]]
  PROVE  Database' = Database
<1>1. dir' = d /\ "fname" \in Names /\ "bak" \in Names
  BY Zenon DEF Names, SetFiles
<1>2. Exists("fname") => disk'[dir["fname"]] = disk[dir["fname"]]
  BY <1>1, NamedAfter, ZenonT(30) DEF Exists
<1>3. ~Exists("fname") /\ Exists("bak") => disk'[dir["bak"]] = disk[dir["bak"]]
  BY <1>1, NamedAfter DEF Exists
<1> QED
  BY <1>1, <1>2, <1>3 DEF Database, Exists

\* A process changes the database only when it is done, and only its own key.
ChangesOwn(p) ==
    \A k \in Keys : Versions(Database, k) # Versions(Database', k) =>
        Commits(p) /\ (hd[p].key = k \/ ~hd[p].fresh)

\* The steps of a process that change nothing in the database.
LEMMA DatabaseKept ==
  ASSUME Good, NEW p \in Procs,
         \/ Create(p) \/ Compress(p) \/ Search(p) \/ TryLock(p) \/ TakeLock(p) \/ Find(p)
         \/ Access(p) \/ Copy(p) \/ Write(p) \/ Rename1(p) \/ Exit(p) \/ Crash(p)
         \/ \E op \in Ops, k \in Keys : Start(p, op, k)
  PROVE  Database' = Database
<1>0. /\ dir \in [Names -> Inodes \cup {NoInode}] /\ Files /\ Own(p)
      /\ "fname" \in Names /\ "bak" \in Names /\ "tmp" \in Names
      /\ disk \in [Inodes -> Seq(Blob)]
  BY DEF Good, Types, Names
<1>1. ASSUME UNCHANGED <<disk, dir>>
      PROVE  Database' = Database
  BY <1>1, Zenon DEF Database, Exists
<1>2. ASSUME NEW h, SetFiles(dir, h, disk)
      PROVE  Database' = Database
  BY <1>0, <1>2, SameDatabase
<1>3. ASSUME NEW mode, OpenFiles(p, mode), Exists("fname")
      PROVE  Database' = Database
  <2> DEFINE tmp == TmpFile
             d == [dir EXCEPT !["tmp"] = tmp]
             c == [disk EXCEPT ![tmp] = <<>>]
  <2>1. PICK h : SetFiles(d, h, c)
    BY <1>3 DEF OpenFiles
  <2>2. tmp \in Inodes /\ tmp # dir["fname"]
    <3>1. CASE Exists("tmp")
      BY <1>0, <3>1 DEF TmpFile, Files, Exists
    <3>2. CASE ~Exists("tmp")
      <4>1. tmp \in Inodes /\ tmp \notin InUse(dir, hd)
        BY <1>3, <3>2, FreeOne DEF TmpFile, OpenFiles
      <4>2. dir["fname"] \in InUse(dir, hd)
        BY <1>0 DEF InUse
      <4> QED
        BY <4>1, <4>2
    <3> QED
      BY <3>1, <3>2
  <2> HIDE DEF tmp
  <2>3. d \in [Names -> Inodes \cup {NoInode}] /\ d["fname"] = dir["fname"] /\ d["bak"] = dir["bak"]
    BY <1>0, <2>2 DEF Names
  <2>4. c[dir["fname"]] = disk[dir["fname"]]
    BY <1>0, <1>3, <2>2 DEF Exists
  <2> HIDE DEF d, c
  <2> QED
    BY <1>3, <2>1, <2>3, <2>4, SameDatabase, ZenonT(30)
<1>4. CASE Create(p)
  <2>1. CASE UNCHANGED <<disk, dir>>
    BY <1>1, <2>1
  <2>2. CASE /\ ~Exists("fname") /\ MayCreate /\ FreeInodes # {}
             /\ SetFiles([dir EXCEPT !["fname"] = FreeInode], Goto(p, "compress"),
                         [disk EXCEPT ![FreeInode] = <<>>])
    <3> DEFINE new == FreeInode
               d == [dir EXCEPT !["fname"] = new]
               c == [disk EXCEPT ![new] = <<>>]
    <3>1. new \in Inodes /\ new # NoInode
      BY <2>2, FreeOne, FilesAssumption DEF Inodes, NoInode
    <3>2. SetFiles(d, Goto(p, "compress"), c)
      BY <2>2
    <3>3. ~Exists("bak")
      BY <1>0, <2>2 DEF MayCreate, Files
    <3> HIDE DEF new
    <3>4. /\ d \in [Names -> Inodes \cup {NoInode}] /\ d["fname"] = new /\ c[new] = <<>>
          /\ "fname" \in Names
      BY <1>0, <3>1 DEF Names
    <3> HIDE DEF d, c
    <3>5. dir' = d /\ disk'[new] = <<>>
      <4>1. dir' = d /\ disk'[d["fname"]] = c[d["fname"]]
        BY <3>1, <3>2, <3>4, NamedAfter, ZenonT(30)
      <4> QED
        BY <3>4, <4>1, ZenonT(30)
    <3> QED
      BY <2>2, <3>1, <3>3, <3>4, <3>5, Zenon DEF Database, Exists
  <2> QED
    BY <1>4, <2>1, <2>2, Zenon DEF Create
<1>5. CASE Compress(p)
  <2>1. UNCHANGED <<disk, dir>> \/ (OpenFiles(p, "compress") /\ Exists("fname"))
    BY <1>5 DEF Compress
  <2> QED
    BY <1>1, <1>3, <2>1
<1>6. CASE Copy(p)
  <2>1. Exists("fname")
    BY <1>0, <1>6, Zenon DEF Own, Holder, Copy
  <2> QED
    BY <1>3, <1>6, <2>1, Zenon DEF Copy
<1>7. CASE Write(p)
  <2>1. /\ hd[p].src = dir["fname"] /\ hd[p].new = dir["tmp"] /\ Exists("fname") /\ Exists("tmp")
        /\ dir["tmp"] # dir["fname"]
    BY <1>0, <1>7 DEF Own, Holder, Files, Write
  <2>2. CASE CopyFails(disk[hd[p].src], hd[p])
    <3> DEFINE d == IF hd[p].mode = "compress" THEN [dir EXCEPT !["tmp"] = NoInode] ELSE dir
    <3>1. CopyDone(p, d, disk)
      BY <1>7, <2>2, ZenonT(30) DEF Write
    <3>2. d \in [Names -> Inodes \cup {NoInode}] /\ d["fname"] = dir["fname"] /\ d["bak"] = dir["bak"]
      BY <1>0, ZenonT(30) DEF Names
    <3> HIDE DEF d
    <3>3. PICK h : SetFiles(d, h, disk)
      BY <3>1 DEF CopyDone
    <3> QED
      BY <3>2, <3>3, SameDatabase, ZenonT(30)
  <2>3. CASE ~CopyFails(disk[hd[p].src], hd[p])
    <3>0. PICK d0 : \E g : SetFiles(dir, g, [disk EXCEPT ![dir["tmp"]] = Overlay(@, d0)])
      BY <1>7, <2>1, <2>3 DEF Write
    <3> DEFINE new == Overlay(disk[dir["tmp"]], d0)
               c == [disk EXCEPT ![dir["tmp"]] = new]
    <3>1. PICK h : SetFiles(dir, h, c)
      BY <3>0
    <3> HIDE DEF new
    <3>2. c[dir["fname"]] = disk[dir["fname"]]
      BY <1>0, <2>1, Zenon DEF Exists
    <3> HIDE DEF c
    <3> QED
      BY <1>0, <2>1, <3>1, <3>2, SameDatabase, Zenon
  <2> QED
    BY <2>2, <2>3, Zenon
<1>8. CASE Rename1(p)
  <2> DEFINE d == [dir EXCEPT !["bak"] = dir["fname"], !["fname"] = NoInode]
  <2>1. Exists("fname")
    BY <1>0, <1>8, Zenon DEF Own, Holder, Rename1
  <2>2. SetFiles(d, Goto(p, "rename2"), disk)
    BY <1>8, <2>1 DEF Rename1
  <2>3. /\ d \in [Names -> Inodes \cup {NoInode}] /\ d["bak"] = dir["fname"] /\ d["fname"] = NoInode
        /\ "bak" \in Names
    BY <1>0 DEF Names
  <2> HIDE DEF d
  <2>4. dir' = d /\ disk'[dir["fname"]] = disk[dir["fname"]]
    <3>1. d["bak"] # NoInode
      BY <2>1, <2>3 DEF Exists
    <3>2. dir' = d /\ disk'[d["bak"]] = disk[d["bak"]]
      <4>1. SetFiles(d, hd', disk)
        BY <2>2, Zenon DEF SetFiles
      <4>2. d \in [Names -> Inodes \cup {NoInode}] /\ "bak" \in Names
        BY <2>3
      <4> QED
        BY <3>1, <4>1, <4>2, NamedAfter, Zenon
    <3> QED
      BY <2>3, <3>2, ZenonT(30)
  <2> QED
    BY <2>1, <2>3, <2>4, Zenon DEF Database, Exists
<1>9. CASE Search(p) \/ Find(p) \/ Access(p) \/ Exit(p) \/ Crash(p)
  <2>1. PICK h : SetFiles(dir, h, disk)
    BY <1>9 DEF Search, Find, Access, Exit, Crash
  <2> QED
    BY <1>2, <2>1
<1>10. CASE TryLock(p) \/ TakeLock(p) \/ \E op \in Ops, k \in Keys : Start(p, op, k)
  <2>1. UNCHANGED <<disk, dir>>
    BY <1>10, Zenon DEF TryLock, TakeLock, Start
  <2> QED
    BY <1>1, <2>1
<1> QED
  BY <1>4, <1>5, <1>6, <1>7, <1>8, <1>9, <1>10

\* The second rename changes the key of the writer, and a compress run changes none.
LEMMA Rename2Changes ==
  ASSUME Good, NEW p \in Procs, Rename2(p)
  PROVE  /\ ChangesOwn(p)
         /\ Commits(p) => hd[p].mode # "compress"
<1> DEFINE d == [dir EXCEPT !["fname"] = dir["tmp"], !["tmp"] = NoInode]
<1>1. /\ hd[p].pc = "rename2" /\ Exists("tmp") /\ ~Exists("fname") /\ Exists("bak")
      /\ dir \in [Names -> Inodes \cup {NoInode}] /\ hd \in [Procs -> Handle]
      /\ Made(disk[dir["bak"]], disk[dir["tmp"]], hd[p])
  BY ZenonT(30) DEF Good, Types, Own, Holder, Writer, Rename2
<1>2. CopyDone(p, d, disk)
  BY <1>1, ZenonT(30) DEF Rename2
<1>3. /\ d \in [Names -> Inodes \cup {NoInode}] /\ d["fname"] = dir["tmp"]
      /\ "fname" \in Names
  BY <1>1, ZenonT(30) DEF Names
<1> HIDE DEF d
<1>4. /\ SetFiles(d, hd', disk)
      /\ hd'[p].pc = IF hd[p].mode # "compress" THEN "exit"
                     ELSE IF hd[p].op \in SearchFirst THEN "search" ELSE "lock"
  BY <1>1, <1>2, DoneHandle, Zenon
<1>5. dir' = d /\ disk'[dir["tmp"]] = disk[dir["tmp"]]
  <2>1. d["fname"] # NoInode
    BY <1>1, <1>3 DEF Exists
  <2>2. dir' = d /\ disk'[d["fname"]] = disk[d["fname"]]
    BY <1>3, <1>4, <2>1, NamedAfter
  <2> QED
    BY <1>3, <2>2
<1>6. Database = disk[dir["bak"]] /\ Database' = disk[dir["tmp"]]
  BY <1>1, <1>3, <1>5, Zenon DEF Database, Exists
<1>7. Commits(p) <=> hd[p].mode # "compress"
  BY <1>1, <1>4, ZenonT(30) DEF Commits
<1>8. \A k \in Keys : (hd[p].mode = "compress" \/ k # hd[p].key) /\ (hd[p].mode = "update" => hd[p].fresh) =>
         Versions(Database', k) = Versions(Database, k)
  BY <1>1, <1>6 DEF Made
<1> QED
  BY <1>7, <1>8, Zenon DEF ChangesOwn

\* A blob written in place is that of the writer's key, if the offset is current.
LEMMA InPlaceChanges ==
  ASSUME Good, NEW p \in Procs, InPlace(p)
  PROVE  ChangesOwn(p)
<1> DEFINE h == hd[p]
           f == dir["fname"]
           old == disk[f]
           new == Patch(old, h.found, h)
           g == [hd EXCEPT ![p].pc = "exit", ![p].fp = NoInode]
           c == [disk EXCEPT ![f] = new]
<1>1. /\ hd \in [Procs -> Handle] /\ Own(p) /\ h \in Handle /\ h.pc = "inplace" /\ h.found # 0
      /\ dir \in [Names -> Inodes \cup {NoInode}] /\ disk \in [Inodes -> Seq(Blob)]
      /\ h.fp # NoInode /\ (h.fresh => h.fp = f) /\ Hit(disk[h.fp], h)
  BY DEF Good, Types, Own, Holder, Critical, Reader, InPlace
<1>2. SetFiles(dir, g, IF Exists("fname") THEN c ELSE disk) /\ "fname" \in Names
  BY DEF InPlace, Names
<1>3. Commits(p)
  <2>1. g[p].pc = "exit"
    BY <1>1 DEF Handle
  <2> QED
    BY <1>1, <1>2, <2>1 DEF Commits, SetFiles
<1> HIDE DEF g
<1>4. CASE ~Exists("fname")
  <2>1. Database' = Database
    BY <1>1, <1>2, <1>4, SameDatabase, ZenonT(30)
  <2> QED
    BY <2>1 DEF ChangesOwn
<1>5. CASE Exists("fname")
  <2>1. f \in Inodes /\ f # NoInode /\ old \in Seq(Blob)
    BY <1>1, <1>2, <1>5, ZenonT(30) DEF Exists
  <2>2. Hit(old, h) => \A k \in Keys \ {h.key} : Versions(new, k) = Versions(old, k)
    <3> HIDE DEF h, old
    <3> QED
      BY <1>1, <2>1, Patched, Zenon
  <2> HIDE DEF new
  <2>3. c[f] = new /\ SetFiles(dir, g, c)
    BY <1>1, <1>2, <1>5, <2>1, Zenon
  <2> HIDE DEF c
  <2>4. dir' = dir /\ disk'[f] = new
    BY <1>1, <1>2, <2>1, <2>3, NamedAfter, ZenonT(30)
  <2>5. Database = old /\ Database' = new
    BY <1>5, <2>4 DEF Database, Exists
  <2>6. h.fresh => Hit(old, h)
    BY <1>1
  <2> QED
    BY <1>3, <2>2, <2>5, <2>6, ZenonT(30) DEF ChangesOwn
<1> QED
  BY <1>4, <1>5

\* The process of a step.
Acts(p) == Step(p) \/ Crash(p) \/ \E op \in Ops, k \in Keys : Start(p, op, k)

\* A step of a process changes its own key at most.
LEMMA StepChanges ==
  ASSUME Good, NEW p \in Procs, Acts(p)
  PROVE  ChangesOwn(p)
<1>1. CASE Rename2(p)
  BY <1>1, Rename2Changes
<1>2. CASE InPlace(p)
  BY <1>2, InPlaceChanges
<1>3. CASE ~Rename2(p) /\ ~InPlace(p)
  <2>1. Database' = Database
    BY <1>3, DatabaseKept DEF Acts, Step
  <2> QED
    BY <2>1 DEF ChangesOwn
<1> QED
  BY <1>1, <1>2, <1>3

\* What OnlyOwnKey says of a step.
OwnKeyStep ==
    unlocked' \/ \A k \in Keys : Versions(Database, k) # Versions(Database', k) =>
        \E p \in Procs : Commits(p) /\ (hd[p].key = k \/ ~hd[p].fresh)

\* A writer changes the key it was asked to change and no other one, and nothing else
\* changes a key (see OnlyOwnKey).
THEOREM OnlyOwnKeyChanges == Spec => OnlyOwnKey
<1>1. ASSUME IInv, [Next]_vars
      PROVE  [OwnKeyStep]_vars
  <2>1. CASE UNCHANGED vars
    BY <2>1
  <2>2. CASE unlocked'
    BY <2>2 DEF OwnKeyStep
  <2>3. CASE ~unlocked' /\ \E p \in Procs : Acts(p)
    <3>1. PICK p \in Procs : Acts(p)
      BY <2>3
    <3>2. Good
      BY <1>1, <2>3, HistoryKept DEF IInv, Recalled
    <3>3. ChangesOwn(p)
      BY <3>1, <3>2, StepChanges
    <3> QED
      BY <3>3 DEF OwnKeyStep, ChangesOwn
  <2> QED
    BY <1>1, <2>1, <2>2, <2>3 DEF Next, Acts, AllEnded
<1>2. OnlyOwnKey <=> [][OwnKeyStep]_vars
  BY DEF OnlyOwnKey, OwnKeyStep
<1> QED
  BY <1>1, <1>2, Invariance, PTL DEF Spec

\* A step of one process leaves the handles of the others alone.
LEMMA OthersStay ==
  ASSUME hd \in [Procs -> Handle], NEW p \in Procs, Acts(p), NEW q \in Procs \ {p}
  PROVE  hd'[q] = hd[q]
<1>1. CASE Create(p) \/ TryLock(p) \/ Rename1(p)
  BY <1>1 DEF Create, TryLock, Rename1, CopyDone, SetFiles, Goto
<1>2. CASE Compress(p) \/ Copy(p)
  BY <1>2 DEF Compress, Copy, OpenFiles, SetFiles, Goto
<1>3. CASE Search(p) \/ Find(p)
  BY <1>3 DEF Search, Find, SetFiles
<1>4. CASE TakeLock(p) \/ Access(p) \/ InPlace(p) \/ Exit(p) \/ Crash(p)
  BY <1>4 DEF TakeLock, Access, InPlace, Exit, Crash, SetFiles
<1>5. CASE Write(p) \/ Rename2(p)
  BY <1>5 DEF Write, Rename2, CopyDone, SetFiles
<1>6. CASE \E op \in Ops, k \in Keys : Start(p, op, k)
  BY <1>6 DEF Start
<1> QED
  BY <1>1, <1>2, <1>3, <1>4, <1>5, <1>6 DEF Acts, Step

\* What ImportMergesLatest says of a step.
MergeStep ==
    \A p \in Procs : Commits(p) /\ hd[p].op = "import" /\ ~unlocked' /\ ~misplaced' =>
        Versions(Database, hd[p].key) = IF hd[p].mode = "update" THEN {hd[p].base} ELSE {}

\* An import merges into the version of its key that is in the database when it
\* writes, or inserts a key that is not there (see ImportMergesLatest).
THEOREM ImportsMergeTheLatest == Spec => ImportMergesLatest
<1>1. ASSUME IInv, [Next]_vars
      PROVE  [MergeStep]_vars
  <2>1. CASE UNCHANGED vars
    BY <2>1
  <2>2. ASSUME NEW p \in Procs, Acts(p), NEW q \in Procs, Commits(q), hd[q].op = "import",
               ~unlocked', ~misplaced'
        PROVE  Versions(Database, hd[q].key) = IF hd[q].mode = "update" THEN {hd[q].base} ELSE {}
    <3>1. Good /\ ~misplaced
      BY <1>1, <2>2, HistoryKept, ZenonT(30) DEF IInv, Recalled
    <3>2. /\ hd \in [Procs -> Handle] /\ Holder(q) /\ Writer(q) /\ hd[q] \in Handle
      BY <3>1 DEF Good, Types, Own
    <3>3. hd[q].pc = "rename2" /\ hd'[q].pc = "exit"
      BY <2>2, <3>2, Zenon DEF Commits, Holder
    <3>4. q = p
      BY <2>2, <3>2, <3>3, OthersStay
    <3>5. Rename2(p)
      <4>1. ~Crash(p)
        <5>1. SUFFICES ASSUME Crash(p) PROVE FALSE
          OBVIOUS
        <5>2. hd' = [hd EXCEPT ![p] = Off] /\ Off.pc = "off"
          BY <5>1, Zenon DEF Crash, SetFiles, Off
        <5>3. hd'[p] = Off
          BY <3>2, <3>4, <5>2, Zenon
        <5> QED
          BY <3>3, <3>4, <5>2, <5>3
      <4>2. ~\E op \in Ops, k \in Keys : Start(p, op, k)
        <5>1. hd[p] # Off
          BY <3>3, <3>4 DEF Off
        <5> QED
          BY <5>1, Zenon DEF Start
      <4>3. ~Create(p) /\ ~Compress(p) /\ ~Search(p) /\ ~TryLock(p)
        BY <3>3, <3>4, Zenon DEF Create, Compress, Search, TryLock
      <4>4. ~TakeLock(p) /\ ~Find(p) /\ ~Access(p) /\ ~Copy(p)
        BY <3>3, <3>4, Zenon DEF TakeLock, Find, Access, Copy
      <4>5. ~Write(p) /\ ~Rename1(p) /\ ~InPlace(p) /\ ~Exit(p)
        BY <3>3, <3>4, Zenon DEF Write, Rename1, InPlace, Exit
      <4> QED
        BY <2>2, <4>1, <4>2, <4>3, <4>4, <4>5, Zenon DEF Acts, Step
    <3>6. hd[q].mode \in {"insert", "update"}
      BY <2>2, <3>1, <3>2, <3>3, <3>4, <3>5, Rename2Changes, Zenon DEF Holder, Handle
    <3>7. /\ Made(disk[dir["bak"]], disk[dir["tmp"]], hd[q])
          /\ Database = disk[dir["bak"]]
      BY <3>2, <3>3, Zenon DEF Writer, Database
    <3> QED
      BY <3>1, <3>6, <3>7, ZenonT(30) DEF Made
  <2> QED
    BY <1>1, <2>1, <2>2, Zenon DEF Next, Acts, AllEnded, MergeStep
<1>2. ImportMergesLatest <=> [][MergeStep]_vars
  BY DEF ImportMergesLatest, MergeStep
<1> QED
  BY <1>1, <1>2, Invariance, PTL DEF Spec
=============================================================================
