------------------------------- MODULE TrustDB -------------------------------
(***************************************************************************)
(* The trust database of gpg (g10/tdbio.c with the updates of             *)
(* g10/trustdb.c and g10/tdbdump.c): a file of numbered records with a     *)
(* version record, a hash table over the fingerprints, list records for    *)
(* keys of one hash slot, trust and validity records and a list of free    *)
(* records.  Every process has a write-back cache of records; a lock is    *)
(* held only while records of the cache are written to the file.           *)
(*                                                                         *)
(* A command is a sequence of steps between which other processes run: the *)
(* search for the key, the two halves of tdbio_new_recnum for every record *)
(* it needs, the search for the place in the hash table, each record put   *)
(* into the cache, the mark for the next check, and each record a sync     *)
(* writes.  A process may die between any two of them.                     *)
(*                                                                         *)
(* What a process read for a command it holds until the command is done    *)
(* (basis), and what it put into its cache until it ends.  The history     *)
(* variable stale says that a process went on although another one had     *)
(* written such a record.  The records of one search are read in one step: *)
(* were one of them written by another process before the search is over,  *)
(* stale would become true, else reading all of them at its end gives the  *)
(* same.                                                                   *)
(***************************************************************************)
EXTENDS Integers, Sequences, FiniteSets, SequencesExt

CONSTANTS
    Procs,
    Fprs,          \* fingerprints
    SlotOf(_),     \* their slot in the hash table
    Slots,
    Values,        \* ownertrust values
    Soft,          \* MAX_CACHE_ENTRIES_SOFT
    InitFree,      \* numbers of free records at the start
    HlstItems,     \* ITEMS_PER_HLST_RECORD
    MaxOps,        \* bound: changes of records in total
    MaxCrashes     \* bound: processes killed

NoRec == 0         \* record number of the version record: no record
Bad == -1          \* error instead of a record number
End == -1          \* the end of the file, in a set of record numbers
Table == 1         \* record number of the hash table
Nothing == -1      \* no trust record
Same == -2         \* no change

ASSUME SizeAssumption == Soft \in Nat \ {0} /\ HlstItems \in Nat \ {0, 1}

VARIABLES
    db,        \* the file: record n is db[n + 1]
    proc,      \* the processes: cache, command and its next step, records to put
    lock,
    ops,
    crashes,
    want,      \* history: the value of every key that was synced last
    owed,      \* history: an ownertrust changed after the last check of the keys
    overtaken, \* history: an ownertrust changed during a check of the keys
    stale,     \* history: a process went on with a record another one had changed
    torn,      \* history: a process read, or left behind, half of a change
    broken     \* history: an operation found the database invalid

vars == <<db, proc, lock, ops, crashes, want, owed, overtaken, stale, torn, broken>>

NoProc == "none"

Blank == [t |-> "blank"]
Ver(free, mark) == [t |-> "ver", free |-> free, mark |-> mark]
Htbl(items) == [t |-> "htbl", items |-> items]
Hlst(next, rnum) == [t |-> "hlst", next |-> next, rnum |-> rnum]
Trust(f, v, vl) == [t |-> "trust", fpr |-> f, ot |-> v, vl |-> vl]
Valid(v) == [t |-> "valid", validity |-> v]
FreeRec(next) == [t |-> "free", next |-> next]

\* What a command works on: its trust record and the number of it, the use of the
\* record it asks tdbio_new_recnum for, what that function has read so far (the
\* version record, the end of the file) and the hash table or list record that is
\* to refer to a new list record.
NoJob == [cmd |-> "none", rec |-> NoRec, data |-> Blank, use |-> "none",
          ver |-> Blank, end |-> NoRec, n |-> NoRec, link |-> Blank]

\* base: the command of many changes the process is in; at: its next step, after
\* the records in todo are in the cache; basis: the records it relies on; old:
\* another process has written one of those or one of the cache; partial: some
\* of its changes are in the file and some are not; pend: changes not synced.
Idle == [cache |-> <<>>, dirty |-> FALSE, base |-> "none", at |-> "rest", todo |-> <<>>,
         job |-> NoJob, basis |-> {}, old |-> FALSE, partial |-> FALSE,
         pend |-> [f \in Fprs |-> Same]]

\* create_version_record and create_hashtable: a version record and a table,
\* followed in a database of an older version by n free records.
NewDB(n) == <<Ver(IF n = 0 THEN NoRec ELSE 2, FALSE), Htbl([s \in Slots |-> NoRec])>>
            \o [i \in 1..n |-> FreeRec(IF i = n THEN NoRec ELSE i + 2)]

\* The same after the ownertrust of one key was set.
OneKeyDB(f, v) == <<Ver(NoRec, TRUE), Htbl([s \in Slots |-> IF s = SlotOf(f) THEN 2 ELSE NoRec]),
                    Trust(f, v, NoRec)>>

Init ==
    /\ \/ /\ db \in {NewDB(n) : n \in InitFree}
          /\ want = [f \in Fprs |-> Nothing]
          /\ owed = FALSE
       \/ /\ \E f \in Fprs, v \in Values :
                /\ db = OneKeyDB(f, v)
                /\ want = [g \in Fprs |-> IF g = f THEN v ELSE Nothing]
          /\ owed = TRUE
    /\ proc = [p \in Procs |-> Idle]
    /\ lock = NoProc
    /\ ops = 0
    /\ crashes = 0
    /\ overtaken = FALSE
    /\ stale = FALSE
    /\ torn = FALSE
    /\ broken = FALSE

----------------------------------------------------------------------------
(* The record cache.  Putting a record into it transforms a state          *)
(*   [c: cache, db: file, dirty: cache_is_dirty, wrote],                   *)
(* where "wrote" is the set of the records written to the file.            *)

State(p) == [c |-> proc[p].cache, db |-> db, dirty |-> proc[p].dirty, wrote |-> {}]

\* A record to be put into the cache; touched: with a new time in it.
Item(n, r) == [n |-> n, r |-> r, touched |-> FALSE]

Entry(x) == [used |-> TRUE, dirty |-> TRUE, recno |-> x.n, data |-> x.r]

Cached(s, n) == {i \in DOMAIN s.c : s.c[i].used /\ s.c[i].recno = n}

First(S) == CHOOSE i \in S : \A j \in S : i <= j

\* tdbio_read_record: from the cache, else from the file; what is read is not
\* put into the cache.
Read(s, n) ==
    IF Cached(s, n) # {} THEN s.c[First(Cached(s, n))].data
    ELSE IF n + 1 \in DOMAIN s.db THEN s.db[n + 1] ELSE Blank

\* write_cache_item.
WriteItem(s, i) ==
    [s EXCEPT !.db[s.c[i].recno + 1] = s.c[i].data, !.wrote = @ \cup {s.c[i].recno},
              !.c[i].dirty = FALSE]

\* The first n members of a set of numbers.
Lowest(S, n) == {i \in S : Cardinality({j \in S : j < i}) < n}

Share(S, n) == IF Cardinality(S) \div n = 0 THEN 1 ELSE Cardinality(S) \div n

\* The cache is full of dirty entries: some of them are written to the file.
RECURSIVE WriteItems(_, _)
WriteItems(s, S) ==
    IF S = {} THEN s ELSE WriteItems(WriteItem(s, First(S)), S \ {First(S)})

\* Mutant: the entries are reused without writing them.
ForgetItems(s, S) == s

FlushItems(s, S) == WriteItems(s, S)

\* Mutant: the limit is exceeded by one.
HasRoomForOneMore(used) == Cardinality(used) <= Soft

HasRoom(used) == Cardinality(used) < Soft

\* Mutant: a clean entry that is hit stays clean.
StaysClean(e, r) == e.dirty

\* A cached entry e is dirty after it was set to r.
IsDirty(e, r) == e.dirty \/ e.data # r

\* put_record_into_cache.
Put(s, x) ==
    LET used   == {i \in DOMAIN s.c : s.c[i].used}
        unused == DOMAIN s.c \ used
        clean  == {i \in used : ~s.c[i].dirty}
        evict  == IF clean # {} THEN Lowest(clean, Share(clean, 3))
                  ELSE Lowest(used, Share(used, 5))
        flushed == IF clean # {} THEN s ELSE FlushItems(s, evict)
        emptied == [flushed.c EXCEPT ![First(evict)] = Entry(x)]
        hit == First(Cached(s, x.n))
        dirtied == IsDirty(s.c[hit], x.r) \/ x.touched
    IN  IF Cached(s, x.n) # {} THEN
            [s EXCEPT !.c[hit].dirty = dirtied, !.c[hit].data = x.r, !.dirty = @ \/ dirtied]
        ELSE IF unused # {} THEN
            [s EXCEPT !.c[First(unused)] = Entry(x), !.dirty = TRUE]
        ELSE IF HasRoom(used) THEN
            [s EXCEPT !.c = <<Entry(x)>> \o @, !.dirty = TRUE]
        ELSE [flushed EXCEPT !.dirty = TRUE,
                  !.c = [i \in DOMAIN emptied |->
                           IF i \in evict \ {First(evict)}
                           THEN [emptied[i] EXCEPT !.used = FALSE] ELSE emptied[i]]]

----------------------------------------------------------------------------
(* The hash table. *)

\* The records of the list that starts at n, in order; a list with an invalid
\* link ends with the number of a record that is no list record.
RECURSIVE Chain(_, _)
Chain(s, n) ==
    IF Read(s, n).t # "hlst" \/ Read(s, n).next = NoRec THEN <<n>>
    ELSE <<n>> \o Chain(s, Read(s, n).next)

ListEnd(s, n) == Chain(s, n)[Len(Chain(s, n))]

BadLink(s, n) == Read(s, ListEnd(s, n)).t # "hlst"

\* The entries of the list.
RECURSIVE ListItems(_, _)
ListItems(s, n) ==
    LET r == Read(s, n)
    IN  IF r.t # "hlst" THEN <<>>
        ELSE r.rnum \o (IF r.next = NoRec THEN <<>> ELSE ListItems(s, r.next))

FreeSlots(r) == {i \in 1..HlstItems : r.rnum[i] = NoRec}

One(n) == [i \in 1..HlstItems |-> IF i = 1 THEN n ELSE NoRec]
Two(m, n) == [i \in 1..HlstItems |-> IF i = 1 THEN m ELSE IF i = 2 THEN n ELSE NoRec]

\* The records lookup_hashtable compares with the fingerprint.
Candidates(s, f) ==
    LET item == Read(s, Table).items[SlotOf(f)]
    IN  IF item = NoRec THEN <<>>
        ELSE IF Read(s, item).t = "hlst"
        THEN SelectSeq(ListItems(s, item), LAMBDA n : n # NoRec)
        ELSE <<item>>

\* lookup_hashtable with cmp_trec_fpr: the number of the record, NoRec, or Bad
\* when it runs into an invalid link.
Lookup(s, f) ==
    LET hits == SelectSeq(Candidates(s, f),
                          LAMBDA n : Read(s, n).t = "trust" /\ Read(s, n).fpr = f)
        item == Read(s, Table).items[SlotOf(f)]
    IN  CASE hits # <<>> -> Head(hits)
          [] hits = <<>> /\ Read(s, item).t = "hlst" /\ BadLink(s, item) -> Bad
          [] OTHER -> NoRec

\* The records a search without result relies on: the table and the list.
Path(s, f) ==
    LET item == Read(s, Table).items[SlotOf(f)]
    IN  {Table} \cup (IF Read(s, item).t = "hlst" THEN ToSet(Chain(s, item)) ELSE {})

Value(s, f) == IF Lookup(s, f) \in {NoRec, Bad} THEN Nothing ELSE Read(s, Lookup(s, f)).ot

----------------------------------------------------------------------------
(* The steps of a process. *)

At(p, a) == proc[p].at = a /\ proc[p].todo = <<>>

Changed(p) == {f \in Fprs : proc[p].pend[f] # Same}

Checking(p) == proc[p].base \in {"validate", "checked"}

Changing(p) == proc[p].base = "import" \/ proc[p].job.cmd \in {"update", "clear", "import"}

\* A change of an ownertrust and a check of the keys are under way together.
Overlap == \E p, q \in Procs : p # q /\ Checking(q) /\ Changing(p)

\* History: the file has only some of the records of a change of another process.
HalfOfOther(p) == \E q \in Procs \ {p} : proc[q].partial

\* The records process p relies on.
Held(p) == proc[p].basis \cup
           {proc[p].cache[i].recno : i \in {j \in DOMAIN proc[p].cache : proc[p].cache[j].used}}

\* Process p goes on as r after it has written some records to the file.
Proceed(p, r, wrote) ==
    proc' = [q \in Procs |-> IF q = p THEN r
                             ELSE [proc[q] EXCEPT !.old = @ \/ wrote \cap Held(q) # {}]]

\* Process p has read records and goes on as r, or ends if they are invalid.
Reads(p, valid, r) ==
    /\ proc' = [proc EXCEPT ![p] = IF valid THEN r ELSE Idle]
    /\ stale' = (stale \/ proc[p].old)
    /\ torn' = (torn \/ HalfOfOther(p) \/ (~valid /\ proc[p].partial))
    /\ broken' = (broken \/ ~valid)
    /\ overtaken' = (overtaken \/ Overlap')
    /\ UNCHANGED <<db, lock, crashes, want, owed>>

\* A change is made; what it was about is forgotten.
Settled(r) == IF r.at = "rest" /\ r.todo = <<>> THEN [r EXCEPT !.job = NoJob, !.basis = {}] ELSE r

\* The next record is put into the cache; p waits for the lock when the cache is
\* full of dirty records.
PutNext(p) ==
    LET s == Put(State(p), Head(proc[p].todo))
    IN  /\ proc[p].todo # <<>>
        /\ s.wrote # {} => lock = NoProc
        /\ db' = s.db
        /\ Proceed(p, Settled([proc[p] EXCEPT !.cache = s.c, !.dirty = s.dirty, !.todo = Tail(@),
                                              !.partial = @ \/ s.wrote # {}]), s.wrote)
        /\ stale' = (stale \/ proc[p].old)
        /\ UNCHANGED <<lock, ops, crashes, want, owed, overtaken, torn, broken>>

\* The command at hand has entered its trust record in the hash table.
Entered(cmd) == IF cmd \in {"update", "clear"} THEN "mark" ELSE "rest"

\* The number of the trust record is known: update_validity gets itself a
\* validity record, and the records are written.
Continue(r) ==
    LET j == r.job
    IN  IF j.cmd = "validity" /\ j.data.vl = NoRec
        THEN [r EXCEPT !.at = "new", !.job.use = "valid"]
        ELSE [r EXCEPT !.at = "hash", !.todo = @ \o
                 (IF j.cmd = "validity" THEN <<Item(j.data.vl, Valid(1))>> ELSE <<>>)
                 \o <<Item(j.rec, j.data)>>]

\* Mutant: a new list record is referred to but not written.
ReferOnly(j, n) ==
    IF j.link.t = "htbl" THEN <<Item(Table, [j.link EXCEPT !.items[SlotOf(j.data.fpr)] = n])>>
    ELSE <<Item(j.n, [j.link EXCEPT !.next = n])>>

\* upd_hashtable has the new list record n: it holds the key of the table's
\* entry and the new one and replaces that entry, or it extends a list.
Refer(j, n) ==
    LET s == SlotOf(j.data.fpr)
    IN  IF j.link.t = "htbl"
        THEN <<Item(n, Hlst(NoRec, Two(j.link.items[s], j.rec))),
               Item(Table, [j.link EXCEPT !.items[s] = n])>>
        ELSE <<Item(j.n, [j.link EXCEPT !.next = n]), Item(n, Hlst(NoRec, One(j.rec)))>>

\* tdbio_new_recnum has returned n.
Obtained(r, n) ==
    CASE r.job.use = "trust" -> Continue([r EXCEPT !.job.rec = n])
      [] r.job.use = "valid" -> Continue([r EXCEPT !.job.data.vl = n])
      [] r.job.use = "list" -> [r EXCEPT !.at = Entered(r.job.cmd), !.todo = @ \o Refer(r.job, n)]

\* tdbio_new_recnum reads the version record, and finds the end of the file if
\* there are no free records.
NewRecnum(p) ==
    LET ver == Read(State(p), NoRec)
    IN  /\ At(p, "new")
        /\ Reads(p, TRUE, [proc[p] EXCEPT
               !.at = IF ver.free = NoRec THEN "append" ELSE "take",
               !.job.ver = ver, !.job.end = Len(db),
               !.basis = @ \cup {IF ver.free = NoRec THEN End ELSE NoRec}])
        /\ UNCHANGED ops

\* Mutant: the head of the free list is not advanced.
TakeSameHead(p) ==
    LET ver == proc[p].job.ver
        r == Read(State(p), ver.free)
    IN  /\ At(p, "take")
        /\ Reads(p, r.t = "free",
                 Obtained([proc[p] EXCEPT !.todo = <<Item(NoRec, ver), Item(ver.free, Blank)>>], ver.free))
        /\ UNCHANGED ops

\* It takes the first free record, which the version record as read before names.
TakeFree(p) ==
    LET ver == proc[p].job.ver
        r == Read(State(p), ver.free)
    IN  /\ At(p, "take")
        /\ Reads(p, r.t = "free",
                 Obtained([proc[p] EXCEPT !.todo = <<Item(NoRec, Ver(r.next, ver.mark)),
                                                     Item(ver.free, Blank)>>], ver.free))
        /\ UNCHANGED ops

\* Or it writes a blank record to the former end of the file, without the lock.
AppendBlank(p) ==
    LET n == proc[p].job.end
    IN  /\ At(p, "append")
        /\ db' = IF n = Len(db) THEN Append(db, Blank) ELSE [db EXCEPT ![n + 1] = Blank]
        /\ Proceed(p, Obtained([proc[p] EXCEPT !.basis = @ \ {End}], n), {n, End})
        /\ stale' = (stale \/ proc[p].old)
        /\ UNCHANGED <<lock, ops, crashes, want, owed, overtaken, torn, broken>>

\* upd_hashtable looks for the place of the trust record and puts it in, or asks
\* for a new list record.
Enter(p) ==
    LET s == State(p)
        j == proc[p].job
        slot == SlotOf(j.data.fpr)
        h == Read(s, Table)
        item == h.items[slot]
        last == ListEnd(s, item)
        r == Read(s, last)
        type == IF item = NoRec THEN "none" ELSE Read(s, item).t
        known == item = j.rec \/ Contains(ListItems(s, item), j.rec)
        Done(todo, n) == [proc[p] EXCEPT !.at = Entered(j.cmd), !.todo = todo, !.basis = @ \cup n]
        More(n, link) == [proc[p] EXCEPT !.at = "new", !.basis = @ \cup {n}, !.job.use = "list",
                                         !.job.n = n, !.job.link = link]
    IN  /\ At(p, "hash")
        /\ CASE item = NoRec -> Reads(p, TRUE, Done(<<Item(Table, [h EXCEPT !.items[slot] = j.rec])>>, {Table}))
             [] item # NoRec /\ known -> Reads(p, TRUE, Settled(Done(<<>>, {})))
             [] ~known /\ type = "trust" -> Reads(p, TRUE, More(Table, h))
             [] ~known /\ type = "hlst" /\ ~BadLink(s, item) ->
                    Reads(p, TRUE,
                          IF FreeSlots(r) = {} THEN More(last, r)
                          ELSE Done(<<Item(last, [r EXCEPT !.rnum[First(FreeSlots(r))] = j.rec])>>, {last}))
             [] OTHER -> Reads(p, FALSE, Idle)
        /\ UNCHANGED ops

\* Mutant: the comparison with the present value is the wrong way round.
NextcheckIfSame(ver, due) == IF ver.mark # due THEN <<>> ELSE <<Item(NoRec, [ver EXCEPT !.mark = due])>>

\* tdbio_write_nextcheck: a check of the keys is due, or done.
Nextcheck(ver, due) == IF ver.mark = due THEN <<>> ELSE <<Item(NoRec, [ver EXCEPT !.mark = due])>>

\* tdb_revalidation_mark, at the end of a change.
Mark(p) ==
    /\ At(p, "mark")
    /\ Reads(p, TRUE, [proc[p] EXCEPT !.at = "sync", !.todo = Nextcheck(Read(State(p), NoRec), TRUE),
                                      !.basis = @ \cup {NoRec}])
    /\ UNCHANGED ops

----------------------------------------------------------------------------
(* The commands. *)

Count == ops < MaxOps /\ ops' = ops + 1

\* The search for the key f of a command gave n, and it is to have the value v.
Begin(p, cmd, f, n, v, base) ==
    LET s == State(p)
        trec == IF n = NoRec THEN Trust(f, v, NoRec) ELSE [Read(s, n) EXCEPT !.ot = v]
        r == [proc[p] EXCEPT !.base = base,
                 !.pend[f] = IF cmd = "validity" /\ n # NoRec THEN @ ELSE v,
                 !.basis = IF n = NoRec THEN Path(s, f) ELSE {n},
                 !.job = [NoJob EXCEPT !.cmd = cmd, !.rec = n, !.data = trec, !.use = "trust"]]
    IN  Reads(p, TRUE, IF n = NoRec THEN [r EXCEPT !.at = "new"] ELSE Continue(r))

\* tdb_update_ownertrust; validate_keys calls it for the answers of the user.
UpdateOwnertrust(p, f, v) ==
    /\ At(p, "rest")
    /\ proc[p].base \in {"none", "validate"}
    /\ Lookup(State(p), f) # Bad
    /\ Value(State(p), f) # v
    /\ Count
    /\ Begin(p, "update", f, Lookup(State(p), f), v, proc[p].base)

\* read_record of a validity record ends the process when it is none.
BadValidity(s, vl) == vl # NoRec /\ Read(s, vl).t # "valid"

\* tdb_clear_ownertrusts: the value is cleared; if it was, and the validity is
\* set, only a check of the keys becomes due.
ClearOwnertrusts(p, f) ==
    LET s == State(p)
        n == Lookup(s, f)
        vl == Read(s, n).vl
    IN  /\ At(p, "rest")
        /\ proc[p].base = "none"
        /\ n \notin {NoRec, Bad}
        /\ Count
        /\ \/ Value(s, f) # 0 /\ Begin(p, "clear", f, n, 0, "none")
           \/ /\ Value(s, f) = 0
              /\ vl # NoRec
              /\ ~BadValidity(s, vl) => Read(s, vl).validity # 0 /\ ~Read(s, NoRec).mark
              /\ Reads(p, ~BadValidity(s, vl), [proc[p] EXCEPT !.at = "mark", !.job.cmd = "clear"])

\* import_ownertrust: one line of its input, and its end.
ImportLine(p, f, v) ==
    /\ At(p, "rest")
    /\ proc[p].base \in {"none", "import"}
    /\ Lookup(State(p), f) # Bad
    /\ Value(State(p), f) # v
    /\ Count
    /\ Begin(p, "import", f, Lookup(State(p), f), v, "import")

ImportEnd(p) ==
    /\ At(p, "rest")
    /\ proc[p].base = "import"
    /\ proc' = [proc EXCEPT ![p].base = "none", ![p].at = "mark", ![p].job.cmd = "import"]
    /\ UNCHANGED <<db, lock, ops, crashes, want, owed, overtaken, stale, torn, broken>>

\* validate_keys starts with reset_trust_records.
ValidateBegin(p) ==
    LET s == State(p)
        set == SetToSortSeq({n \in 1..(Len(db) - 1) : Read(s, n).t = "valid" /\ Read(s, n).validity # 0}, <)
    IN  /\ At(p, "rest")
        /\ proc[p].base = "none"
        /\ Count
        /\ Reads(p, TRUE, [proc[p] EXCEPT !.base = "validate", !.basis = ToSet(set),
                              !.todo = [i \in DOMAIN set |-> Item(set[i], Valid(0))]])

\* update_validity for a key with one user id.
UpdateValidity(p, f) ==
    LET s == State(p)
        n == Lookup(s, f)
        vl == IF n = NoRec THEN NoRec ELSE Read(s, n).vl
    IN  /\ At(p, "rest")
        /\ proc[p].base = "validate"
        /\ n # Bad
        /\ Count
        /\ \/ BadValidity(s, vl) /\ Reads(p, FALSE, Idle)
           \/ ~BadValidity(s, vl) /\ Begin(p, "validity", f, n, IF n = NoRec THEN 0 ELSE Value(s, f), "validate")

\* The end of validate_keys: the keys are checked.
ValidateEnd(p) ==
    LET ver == Read(State(p), NoRec)
    IN  /\ At(p, "rest")
        /\ proc[p].base = "validate"
        /\ Reads(p, TRUE, [proc[p] EXCEPT !.base = "checked", !.at = "sync", !.basis = {NoRec},
               !.todo = Nextcheck(ver, FALSE) \o <<[Item(NoRec, [ver EXCEPT !.mark = FALSE])
                                                    EXCEPT !.touched = TRUE]>>])
        /\ UNCHANGED ops

\* Or the user quits, or the keys cannot be read: nothing is marked or synced.
ValidateQuits(p) ==
    /\ At(p, "rest")
    /\ proc[p].base = "validate"
    /\ proc' = [proc EXCEPT ![p].base = "none"]
    /\ UNCHANGED <<db, lock, ops, crashes, want, owed, overtaken, stale, torn, broken>>

\* A command other than import_ownertrust ends when the lookup of a key fails.
LookupFails(p, f) ==
    /\ At(p, "rest")
    /\ proc[p].base \in {"none", "validate"}
    /\ Lookup(State(p), f) = Bad
    /\ Count
    /\ Reads(p, FALSE, Idle)

----------------------------------------------------------------------------
(* The sync, and the end of a process. *)

\* tdbio_sync takes the lock.
SyncBegin(p) ==
    /\ At(p, "sync") \/ (At(p, "rest") /\ proc[p].base = "validate")
    /\ proc[p].dirty
    /\ lock = NoProc
    /\ lock' = p
    /\ proc' = [proc EXCEPT ![p].at = "writing"]
    /\ UNCHANGED <<db, ops, crashes, want, owed, overtaken, stale, torn, broken>>

DirtyItems(c) == {i \in DOMAIN c : c[i].used /\ c[i].dirty}

\* tdbio_sync writes the next dirty entry.
SyncWrite(p) ==
    LET s == WriteItem(State(p), First(DirtyItems(proc[p].cache)))
    IN  /\ At(p, "writing")
        /\ DirtyItems(proc[p].cache) # {}
        /\ db' = s.db
        /\ stale' = (stale \/ proc[p].old)
        /\ Proceed(p, [proc[p] EXCEPT !.cache = s.c, !.partial = TRUE], s.wrote)
        /\ UNCHANGED <<lock, ops, crashes, want, owed, overtaken, torn, broken>>

\* tdbio_sync ends, or finds nothing to do: the command goes on or is done.
SyncEnd(p) ==
    /\ \/ At(p, "writing") /\ DirtyItems(proc[p].cache) = {}
       \/ At(p, "sync") /\ ~proc[p].dirty
    /\ lock' = IF proc[p].at = "writing" THEN NoProc ELSE lock
    /\ proc' = [proc EXCEPT ![p] = [Idle EXCEPT !.cache = proc[p].cache, !.old = proc[p].old,
                    !.base = IF proc[p].base = "validate" THEN "validate" ELSE "none"]]
    /\ want' = [f \in Fprs |-> IF f \in Changed(p) THEN proc[p].pend[f] ELSE want[f]]
    /\ owed' = (proc[p].base # "checked" /\ (owed \/ Changing(p)))
    /\ UNCHANGED <<db, ops, crashes, overtaken, stale, torn, broken>>

\* A process ends; changes it has not synced are lost.
Exit(p) ==
    /\ At(p, "rest")
    /\ proc[p].base = "none"
    /\ proc[p].cache # <<>>
    /\ torn' = (torn \/ proc[p].partial)
    /\ proc' = [proc EXCEPT ![p] = Idle]
    /\ UNCHANGED <<db, lock, ops, crashes, want, owed, overtaken, stale, broken>>

\* A process is killed; the next one takes its lock over.
Crash(p) ==
    /\ proc[p].at # "rest" \/ proc[p].base # "none"
    /\ crashes < MaxCrashes
    /\ crashes' = crashes + 1
    /\ torn' = (torn \/ proc[p].partial)
    /\ proc' = [proc EXCEPT ![p] = Idle]
    /\ lock' = IF lock = p THEN NoProc ELSE lock
    /\ UNCHANGED <<db, ops, want, owed, overtaken, stale, broken>>

Step(p) ==
    \/ \E f \in Fprs, v \in Values : UpdateOwnertrust(p, f, v) \/ ImportLine(p, f, v)
    \/ \E f \in Fprs : ClearOwnertrusts(p, f) \/ UpdateValidity(p, f) \/ LookupFails(p, f)
    \/ ImportEnd(p) \/ ValidateBegin(p) \/ ValidateEnd(p) \/ ValidateQuits(p)
    \/ NewRecnum(p) \/ TakeFree(p) \/ AppendBlank(p) \/ Enter(p) \/ PutNext(p) \/ Mark(p)
    \/ SyncBegin(p) \/ SyncWrite(p) \/ SyncEnd(p)
    \/ Exit(p) \/ Crash(p)

Next == \E p \in Procs : Step(p)

Spec == Init /\ [][Next]_vars

----------------------------------------------------------------------------
(* Properties. *)

Disk == [c |-> <<>>, db |-> db, dirty |-> FALSE, wrote |-> {}]

Damaged == stale \/ torn

\* No command is under way and none has left a part of its changes in a cache.
Quiet == \A p \in Procs : At(p, "rest") /\ proc[p].base = "none" /\ ~proc[p].partial

\* The records have known types, no cache exceeds its limit, a dirty entry makes
\* the cache dirty and only the process that syncs holds the lock.
TypeOK ==
    /\ lock \in Procs \cup {NoProc}
    /\ ops \in 0..MaxOps
    /\ \A n \in DOMAIN db : db[n].t \in {"ver", "htbl", "hlst", "trust", "valid", "free", "blank"}
    /\ \A p \in Procs :
        /\ proc[p].at \in {"rest", "new", "take", "append", "hash", "mark", "sync", "writing"}
        /\ Len(proc[p].cache) <= Soft
        /\ DirtyItems(proc[p].cache) # {} => proc[p].dirty
        /\ proc[p].at = "writing" <=> lock = p

\* Whatever was synced is found in the file, also by a process that starts
\* later: no eviction from the cache, extension of a list, reuse of a free record
\* and no death of a process before it wrote anything loses or changes the
\* ownertrust of a key, whatever other processes do between its steps.  The ways
\* to lose one are a process that goes on with a record, or an end of the file,
\* that another one has changed since it was read (take_write_lock does not cover
\* the reading), and half of the records of a change in the file when a process
\* dies or reads.
Durable ==
    Damaged \/ \A f \in Fprs :
        (\A p \in Procs : ~proc[p].partial /\ proc[p].pend[f] = Same) => Value(Disk, f) = want[f]

\* A process sees its own changes before they are synced, through all evictions
\* (get_record_from_cache, else the file).
ReadOwnWrites ==
    Damaged \/ \A p \in Procs : proc[p].old \/ HalfOfOther(p) \/
        (proc[p].at \in {"rest", "mark", "sync", "writing"} /\ proc[p].todo = <<>>
            => \A f \in Changed(p) : Value(State(p), f) = proc[p].pend[f])

\* No operation on an undamaged database ends with "points to an invalid record"
\* (upd_hashtable), "error reading free record" (tdbio_new_recnum) or with an
\* unexpected type of a list or validity record (tdbio_read_record).
NeverInvalid == Damaged \/ ~broken

RECURSIVE FreeChain(_, _)
FreeChain(s, n) ==
    IF n = NoRec \/ Read(s, n).t # "free" THEN <<n>> ELSE <<n>> \o FreeChain(s, Read(s, n).next)

\* Every record has one use: the list of free records has free ones only, the
\* records the hash table leads to are trust records of different keys, and no
\* validity record belongs to two keys; tdbio_new_recnum never hands out a record
\* that is in use.
OneUse ==
    Damaged \/ ~Quiet \/
    LET free == FreeChain(Disk, Disk.db[1].free)
        keys == {Lookup(Disk, f) : f \in Fprs} \ {NoRec}
        valid == {n \in keys : Read(Disk, n).vl # NoRec}
    IN  /\ Last(free) = NoRec
        /\ \A f \in Fprs : LET c == Candidates(Disk, f) IN \A i, j \in DOMAIN c :
              /\ Read(Disk, c[i]).t = "trust"
              /\ Read(Disk, c[i]).fpr = Read(Disk, c[j]).fpr => i = j
        /\ \A m, n \in valid : /\ Read(Disk, Read(Disk, n).vl).t = "valid"
                               /\ Read(Disk, m).vl = Read(Disk, n).vl => m = n

\* A change of an ownertrust is followed by a check of the keys: once it is
\* synced, the file says that a check is due until a check is done
\* (tdb_revalidation_mark), and a check that the user quits does not count.  A
\* check that runs at the same time may overtake the change.
CheckDue == Damaged \/ overtaken \/ ~Quiet \/ (owed => db[1].mark)
=============================================================================
