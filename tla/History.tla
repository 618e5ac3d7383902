------------------------------ MODULE History ------------------------------
(***************************************************************************)
(* hammer history: for every path of the command line the transaction ids  *)
(* of the versions of the file, asked of the kernel page by page with      *)
(* HAMMERIOC_GETHISTORY (cmd_history.c).  A path may carry the offset of   *)
(* the data whose versions are wanted, path@offset,length, or the command  *)
(* may carry one for all paths, history@offset,length.                     *)
(*                                                                         *)
(* The filesystem is in use while the command runs: between two calls of   *)
(* the ioctl other processes commit new versions of a file (Commit) and    *)
(* hammer prune destroys old ones (Prune).  The kernel's side of the ioctl *)
(* is not in this repository; GetHistory is what the loop of               *)
(* hammer_do_history() relies on.                                          *)
(***************************************************************************)
EXTENDS Integers, Sequences, FiniteSets, SequencesExt

CONSTANTS
    Paths,                      \* the names the command line is made of
    Starts,                     \* command lines: [offset_str, av]
    Files,                      \* the files there are: name |-> key |-> TIDs
    MaxTid,                     \* bound: the last transaction id committed
    HAMMER_MAX_HISTORY_ELMS,    \* entries of hist_ary
    MaxFaults,                  \* bound: calls of the ioctl that fail
    MaxPrunes,                  \* bound: versions hammer prune destroys
    Nil, NoAttr, ERANGE, NoKey  \* no prefix, no "@...", out of range, the inode

\* "@offset", "@offset,length": what strtoll() and strtol() make of the
\* digits, a number or ERANGE; length is Nil without a comma.
Attrs == [offset : Int \cup {ERANGE}, length : Int \cup {ERANGE, Nil}]

\* A string of the command line: what stands before its first '@', if
\* anything does, and what stands from there on.
Strings == [prefix : Paths \cup {Nil}, attr : Attrs \cup {NoAttr}]

Plain(p) == [prefix |-> p, attr |-> NoAttr]

HAMMER_MIN_TID == 0
HAMMER_MAX_TID == MaxTid + 1
Tids == 1..MaxTid

ASSUME /\ MaxTid \in Nat /\ MaxFaults \in Nat /\ MaxPrunes \in Nat
       /\ HAMMER_MAX_HISTORY_ELMS \in Nat \ {0}
       /\ \A st \in Starts :
            /\ st.offset_str \in {NoAttr} \cup Attrs
            /\ st.av \in Seq(Strings)
       /\ DOMAIN Files \subseteq Strings
       /\ \A f \in DOMAIN Files : \A k \in DOMAIN Files[f] :
            (k = NoKey \/ k \in Nat) /\ Files[f][k] \subseteq Tids

VARIABLES
    pc,             \* "main", "args", "page", "exit_ok", "exit_err"
    offset_str,     \* what follows "history" in av[0]
    av,             \* the paths
    i,              \* the index of the path at hand, from 1
    old_behavior,
    ca,             \* cmd_attr_t: offset, length, path
    hist,           \* struct hammer_ioc_history
    out,            \* what was printed, one entry a path
    fs,             \* the files: name |-> key |-> TIDs of the versions
    last_tid,       \* the last transaction id the filesystem has assigned
    faults,         \* the calls of the ioctl that have failed
    prunes          \* the versions that were pruned

vars == <<pc, offset_str, av, i, old_behavior, ca, hist, out, fs, last_tid, faults, prunes>>
cmdline == <<offset_str, av>>

-----------------------------------------------------------------------------
(* The kernel. *)

TidsAt(file, key) == IF key \in DOMAIN file THEN file[key] ELSE {}

\* The records of the file that lie beyond the key: the scan has passed it.
BeyondKey(file, key) ==
    \E k \in DOMAIN file \ {NoKey} : k > key /\ file[k] # {}

\* The transaction ids of a set in ascending order, as the B-Tree holds them.
Ascending(tids) ==
    [n \in 1..Cardinality(tids) |->
        CHOOSE t \in tids : Cardinality({u \in tids : u < t}) = n - 1]

\* HAMMERIOC_GETHISTORY: the transaction ids in [beg_tid, end_tid) of the
\* inode, or with ATKEY of the data at key, in ascending order.  When
\* hist_ary is full the first one that did not fit is nxt_tid, with
\* NEXT_TID; else the scan ends with NEXT_KEY or with EOF.
GetHistory(h, file) ==
    LET key    == IF "ATKEY" \in h.flags THEN h.key ELSE NoKey
        found  == Ascending({t \in TidsAt(file, key) :
                                 h.beg_tid <= t /\ t < h.end_tid})
        full   == Len(found) > HAMMER_MAX_HISTORY_ELMS
        ending == IF full THEN "NEXT_TID"
                  ELSE IF key # NoKey /\ BeyondKey(file, key) THEN "NEXT_KEY"
                  ELSE "EOF"
    IN  [h EXCEPT !.hist_ary = SubSeq(found, 1, IF full THEN HAMMER_MAX_HISTORY_ELMS
                                                 ELSE Len(found)),
                  !.nxt_tid  = IF full THEN found[HAMMER_MAX_HISTORY_ELMS + 1]
                               ELSE h.end_tid,
                  !.flags    = (h.flags \cap {"ATKEY"}) \cup {ending}]

\* Another process writes to a file: a new version of the inode and, when
\* data was written, of the data at that key.
Commit(f, key) ==
    /\ last_tid < MaxTid
    /\ last_tid' = last_tid + 1
    /\ fs' = [fs EXCEPT ![f] = [k \in DOMAIN @ |->
                 IF k \in {key, NoKey} THEN @[k] \cup {last_tid + 1} ELSE @[k]]]
    /\ UNCHANGED <<pc, cmdline, i, old_behavior, ca, hist, out, faults, prunes>>

\* hammer prune destroys a version of a file.
Prune(f, t) ==
    /\ prunes < MaxPrunes
    /\ \E k \in DOMAIN fs[f] : t \in fs[f][k]
    /\ prunes' = prunes + 1
    /\ fs' = [fs EXCEPT ![f] = [k \in DOMAIN @ |-> @[k] \ {t}]]
    /\ UNCHANGED <<pc, cmdline, i, old_behavior, ca, hist, out, last_tid, faults>>

-----------------------------------------------------------------------------
(* cmd_history.c *)

\* test_strtoll(), test_strtol()
OutOfRange(val) == val = ERANGE

\* Mutant: a negative length is taken as it is.
Length_Any(length, dflt) == IF length = Nil THEN dflt ELSE length

\* "if (length >= 0) ca->length = length"
Length(length, dflt) == IF length # Nil /\ length >= 0 THEN length ELSE dflt

\* parse_attr(): ret is 0, or -1 for "not parsed"; err where err(1, ...)
\* ends the process.  The defaults are set before anything is looked at.
ParseAttr(s, attr) ==
    LET dflt == [attr EXCEPT !.offset = -1, !.length = 32] IN
    IF s = NoAttr THEN [ret |-> -1, err |-> FALSE, ca |-> dflt]
    ELSE IF OutOfRange(s.offset) \/ OutOfRange(s.length)
    THEN [ret |-> -1, err |-> TRUE, ca |-> dflt]
    ELSE [ret |-> 0, err |-> FALSE, ca |-> [dflt EXCEPT !.offset = s.offset,
                                                       !.length = Length(s.length, @)]]

\* parse_attr_path(): a string that names a file is "real path"; one
\* without '@', or with nothing before it, has "no attr specified".
ParseAttrPath(s, attr) ==
    LET none == [attr EXCEPT !.path = Nil] IN
    IF s \in DOMAIN fs \/ s.attr = NoAttr \/ s.prefix = Nil
    THEN [ret |-> -1, err |-> FALSE, ca |-> none]
    ELSE LET parsed == ParseAttr(s.attr, none) IN
         [parsed EXCEPT !.ca.path = Plain(s.prefix)]

\* What is passed to hammer_do_history() for av[i].
Attributes(s) ==
    LET parsed == IF old_behavior THEN [ret |-> 0, err |-> FALSE, ca |-> ca]
                  ELSE ParseAttrPath(s, ca)
    IN  [parsed EXCEPT !.ca.path = IF @ = Nil THEN s ELSE @]

\* hammer_do_history() up to the first ioctl.
FirstRequest(off) ==
    LET zero == [beg_tid |-> HAMMER_MIN_TID, end_tid |-> HAMMER_MAX_TID,
                 nxt_tid |-> 0, key |-> 0, nxt_key |-> 0, flags |-> {},
                 hist_ary |-> << >>]
    IN  IF off >= 0
        THEN [zero EXCEPT !.flags = {"ATKEY"}, !.key = off, !.nxt_key = off + 1]
        ELSE zero

\* Mutant: the next page begins behind the transaction id that did not fit.
NextRequest_SkipsOne(h) == [h EXCEPT !.beg_tid = h.nxt_tid + 1]

\* "hist.beg_tid = hist.nxt_tid"
NextRequest(h) == [h EXCEPT !.beg_tid = h.nxt_tid]

\* Mutant: only the end of the file ends the loop.
LastPage_EofOnly(h) == "EOF" \in h.flags

\* The three breaks of the for (;;) loop.
LastPage(h) ==
    \/ "EOF" \in h.flags
    \/ "NEXT_KEY" \in h.flags
    \/ "NEXT_TID" \notin h.flags

Entry(path, off, end) ==
    [path |-> path, off |-> off, tids |-> << >>, at_open |-> {}, end |-> end]

\* main() hands over what follows "history": hammer_cmd_history() up to its
\* loop.
Main ==
    /\ pc = "main"
    /\ LET parsed == ParseAttr(offset_str, ca) IN
         /\ ca' = parsed.ca
         /\ old_behavior' = (parsed.ret = 0)
         /\ pc' = IF parsed.err THEN "exit_err" ELSE "args"
    /\ UNCHANGED <<cmdline, i, hist, out, fs, last_tid, faults, prunes>>

\* One turn of the loop of hammer_cmd_history() that does not get a first
\* page: err() in parse_attr(), a path that cannot be opened, an ioctl that
\* fails.
NoHistory ==
    /\ pc = "args" /\ i <= Len(av)
    /\ LET parsed == Attributes(av[i])
           path   == parsed.ca.path
       IN  \/ /\ parsed.err
              /\ pc' = "exit_err"
              /\ ca' = parsed.ca
              /\ UNCHANGED <<i, out, faults>>
           \/ /\ ~parsed.err
              /\ path \in DOMAIN fs => faults < MaxFaults
              /\ faults' = IF path \in DOMAIN fs THEN faults + 1 ELSE faults
              /\ out' = Append(out, Entry(path, parsed.ca.offset,
                                          IF path \in DOMAIN fs THEN "ioctl_failed"
                                          ELSE "open_failed"))
              /\ ca' = [parsed.ca EXCEPT !.path = Nil]
              /\ i' = i + 1
              /\ UNCHANGED pc
    /\ UNCHANGED <<cmdline, old_behavior, hist, fs, last_tid, prunes>>

\* The turn that does: the attributes, open(), the first ioctl.
FirstPage ==
    /\ pc = "args" /\ i <= Len(av)
    /\ LET parsed == Attributes(av[i])
           path   == parsed.ca.path
       IN  /\ ~parsed.err
           /\ path \in DOMAIN fs
           /\ hist' = GetHistory(FirstRequest(parsed.ca.offset), fs[path])
           /\ out' = Append(out, [Entry(path, parsed.ca.offset, "listing")
                                     EXCEPT !.at_open = TidsAt(fs[path],
                                                IF parsed.ca.offset >= 0
                                                THEN parsed.ca.offset ELSE NoKey)])
           /\ ca' = parsed.ca
    /\ pc' = "page"
    /\ UNCHANGED <<cmdline, i, old_behavior, fs, last_tid, faults, prunes>>

\* One turn of the for (;;) loop: the page is printed; after the last one
\* the file is closed and hammer_cmd_history() goes on to the next path,
\* else the next page is asked for, and a failure of the ioctl ends the
\* loop as well.
PrintPage ==
    /\ pc = "page"
    /\ LET printed == [out EXCEPT ![Len(out)].tids = @ \o hist.hist_ary]
           leave(end) ==
               /\ faults' = IF end = "error" THEN faults + 1 ELSE faults
               /\ out' = [printed EXCEPT ![Len(out)].end = end]
               /\ ca' = [ca EXCEPT !.path = Nil]
               /\ i' = i + 1
               /\ pc' = "args"
               /\ UNCHANGED hist
       IN  IF LastPage(hist) THEN leave("closed")
           ELSE \/ /\ hist' = GetHistory(NextRequest(hist), fs[ca.path])
                   /\ out' = printed
                   /\ UNCHANGED <<pc, i, ca, faults>>
                \/ faults < MaxFaults /\ leave("error")
    /\ UNCHANGED <<cmdline, old_behavior, fs, last_tid, prunes>>

\* The loop of hammer_cmd_history() is through.
Return ==
    /\ pc = "args" /\ i > Len(av)
    /\ pc' = "exit_ok"
    /\ UNCHANGED <<cmdline, i, old_behavior, ca, hist, out, fs, last_tid, faults, prunes>>

-----------------------------------------------------------------------------

Init ==
    /\ pc = "main"
    /\ \E st \in Starts : offset_str = st.offset_str /\ av = st.av
    /\ i = 1
    /\ old_behavior = FALSE
    /\ ca = [offset |-> 0, length |-> 0, path |-> Nil]
    /\ hist = FirstRequest(-1)
    /\ out = << >>
    /\ fs = Files
    /\ faults = 0 /\ prunes = 0
    /\ last_tid = Max({0} \cup UNION {UNION Range(Files[f]) : f \in DOMAIN Files})

Command == Main \/ NoHistory \/ FirstPage \/ PrintPage \/ Return

Others ==
    \/ \E f \in DOMAIN fs : \E key \in DOMAIN fs[f] : Commit(f, key)
    \/ \E f \in DOMAIN fs, t \in Tids : Prune(f, t)

Next == Command \/ Others

Spec == Init /\ [][Next]_vars

\* The process is scheduled while it can run; nobody has to write or prune.
FairSpec == Spec /\ WF_vars(Command)

-----------------------------------------------------------------------------
(* Properties. *)

Entries ==
    [path : Strings, off : Int, tids : Seq(Tids), at_open : SUBSET Tids,
     end : {"open_failed", "ioctl_failed", "listing", "closed", "error"}]

TypeOK ==
    /\ pc \in {"main", "args", "page", "exit_ok", "exit_err"}
    /\ i \in 1..(Len(av) + 1)
    /\ old_behavior \in BOOLEAN
    /\ ca.offset \in Int /\ ca.length \in Nat /\ ca.path \in Strings \cup {Nil}
    /\ hist.beg_tid \in 0..HAMMER_MAX_TID /\ hist.nxt_tid \in 0..HAMMER_MAX_TID
    /\ hist.flags \subseteq {"ATKEY", "NEXT_TID", "NEXT_KEY", "EOF"}
    /\ Len(hist.hist_ary) <= HAMMER_MAX_HISTORY_ELMS
    /\ out \in Seq(Entries)
    /\ last_tid \in 0..MaxTid /\ faults \in 0..MaxFaults
    /\ prunes \in 0..MaxPrunes

\* A listing that hammer_do_history() has closed is the history of the
\* file: its transaction ids ascend, none is printed twice, and every
\* version that was there at the first ioctl and has not been pruned since
\* is among them, however many pages the listing took and whatever was
\* committed or pruned between two of them.  The page that follows a full
\* one begins at nxt_tid, the transaction id that did not fit, and the loop
\* goes on while NEXT_TID is set.
HistoryListsEveryVersion ==
    \A n \in DOMAIN out :
        LET e   == out[n]
            key == IF e.off >= 0 THEN e.off ELSE NoKey
        IN  e.end = "closed" =>
                /\ \A j, k \in DOMAIN e.tids : j < k => e.tids[j] < e.tids[k]
                /\ e.at_open \cap TidsAt(fs[e.path], key) \subseteq ToSet(e.tids)

\* hammer history ends: every page asked for begins behind the one before,
\* and each of the three ways the kernel ends a scan (EOF, NEXT_KEY, no
\* NEXT_TID) ends the for (;;) loop of hammer_do_history().
HistoryEnds == <>(pc \in {"exit_ok", "exit_err"})

=============================================================================
