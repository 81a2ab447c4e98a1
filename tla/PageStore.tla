------------------------------- MODULE PageStore -------------------------------
(***************************************************************************)
(* What DiskDoubleWriteBuffer promises the buffer pools: a store of pages  *)
(* in which add_page happens at one moment, and which a crash leaves as it *)
(* was.  Slots, headers, flushes and recovery are not seen.                *)
(*                                                                         *)
(* A call is seen from its start on, and survives a crash from a moment    *)
(* before its end on.  Two faults can destroy a page, which then leaves    *)
(* the domain of the store: a crash that tears the write of the call in    *)
(* progress, and a failed write while the page's pool is closed.           *)
(***************************************************************************)
CONSTANTS
    Pools,          \* ids of the buffer pools
    PageNums,       \* page numbers of each of them
    Contents        \* what a page may hold

VARIABLES
    up,             \* the process runs, and recovery is over
    open,           \* the buffer pools that may be used
    content,        \* what load_page reads, of the pages that are intact
    kept,           \* what it would read after a crash and a restart
    writing,        \* the page of the add_page call in progress
    closing         \* the pool of the close_file call in progress

vars == <<up, open, content, kept, writing, closing>>

Quiet           == up /\ writing = {} /\ closing = {}
Without(f, ks)  == [k \in DOMAIN f \ ks |-> f[k]]
PagesOf(pools)  == pools \X PageNums

-----------------------------------------------------------------------------
(***************************************************************************)
(* add_page: the three steps of a write.                                   *)
(***************************************************************************)
BeginWrite(k) ==
    /\ Quiet
    /\ writing' = {k}
    /\ \E c \in Contents : content' = [content EXCEPT ![k] = c]
    /\ UNCHANGED <<up, open, kept, closing>>

\* The slot has been written, and the header happened to count it already.
Persist ==
    /\ writing # {} /\ kept' = content
    /\ UNCHANGED <<writing, up, open, closing, content>>

EndWrite ==
    /\ writing # {} /\ writing' = {}
    /\ kept' = content
    /\ UNCHANGED <<up, open, content, closing>>

-----------------------------------------------------------------------------
(***************************************************************************)
(* close_file and open_file.                                               *)
(***************************************************************************)
BeginClose(p) ==
    /\ Quiet /\ p \in open
    /\ open' = open \ {p} /\ closing' = {p}
    /\ UNCHANGED <<up, content, kept, writing>>

\* A write to the data file fails.
CloseLoses(ks) ==
    /\ closing # {}
    /\ UNCHANGED <<up, open, writing, closing>>
    /\ kept' = Without(kept, ks) /\ content' = Without(content, ks)

EndClose ==
    /\ closing # {} /\ closing' = {}
    /\ UNCHANGED <<up, open, content, kept, writing>>

Open(p) ==
    /\ Quiet /\ p \notin open
    /\ open' = open \cup {p}
    /\ UNCHANGED <<up, content, kept, writing, closing>>

-----------------------------------------------------------------------------
(***************************************************************************)
(* The process ends, at any moment, and starts again.                      *)
(***************************************************************************)
Stop(ks) ==
    /\ up /\ up' = FALSE
    /\ open' = {} /\ writing' = {} /\ closing' = {}
    /\ kept' = Without(kept, ks) /\ content' = kept'

Start ==
    /\ ~up /\ up' = TRUE
    /\ open' = Pools
    /\ UNCHANGED <<content, kept, writing, closing>>

-----------------------------------------------------------------------------
Init ==
    /\ up = FALSE /\ open = {} /\ writing = {} /\ closing = {}
    /\ content \in [Pools \X PageNums -> Contents]
    /\ kept = content

Next ==
    \/ \E k \in PagesOf(open) : BeginWrite(k)
    \/ Persist \/ EndWrite
    \/ \E p \in Pools : BeginClose(p) \/ Open(p)
    \/ \E ks \in SUBSET PagesOf(closing) : CloseLoses(ks)
    \/ EndClose
    \/ \E ks \in SUBSET writing : Stop(ks)
    \/ Start

Spec == Init /\ [][Next]_vars
=============================================================================
