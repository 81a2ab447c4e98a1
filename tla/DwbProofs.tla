------------------------------- MODULE DwbProofs -------------------------------
(***************************************************************************)
(* Proofs about DoubleWriteBuffer, for any pools, pages, sizes and bounds  *)
(* and for every fault of Spec (failed data writes, kill -9, torn writes), *)
(* provided that a pool is only closed when no page of another is buffered *)
(* (CloseShared = FALSE): clear_pages leaves the slots of the other pages  *)
(* where they are, and add_page numbers the next slot by the size of the   *)
(* map, so the slots would not be distinct any more.                       *)
(*                                                                         *)
(* The argument.  FileInv says when dblwr.db can repair the data files; it *)
(* is what a start needs and what every crash has to leave.  UpInv says    *)
(* how the memory of a running process describes the files; it implies     *)
(* FileInv, so the process may die anywhere.  RecInv does the same for     *)
(* recovery, which may die and be repeated too.                            *)
(*                                                                         *)
(* The second half shows that the module implements PageStore: the content *)
(* the next start would make of each page changes only where PageStore     *)
(* says so, whatever is flushed, torn, or recovered again.                 *)
(***************************************************************************)
EXTENDS DoubleWriteBuffer, FiniteSetTheorems, WellFoundedInduction, TLAPS

MemPage   == [slot : Slot, ver : Nat, valid : BOOLEAN]
SlotImage == {Blank, TornSlot} \cup [key : Pages, ver : Nat, valid : BOOLEAN]
Calls     == {"idle", "hit", "slot", "header", "sync", "flush", "invalidate", "clear", "clear_slot"}

\* load_pages takes page k from slot i.
First(k, i) == i \in Loadable(k) /\ \A j \in Loadable(k) : i <= j

\* The pages the process has in memory, the ones whose newest content is not in the data files yet,
\* and the one add_page is bringing.
Clearing == pc \in {"clear", "clear_slot"}
Mem      == IF Clearing THEN spec_pages ELSE dblwr_pages
Dirty    == IF Clearing \/ pc \in {"flush", "invalidate"} THEN todo ELSE Buffered
Fresh    == IF pc \in {"slot", "header"} THEN {cur} ELSE {}
Count    == Cardinality(DOMAIN Mem)

TypeInv ==
    /\ phase \in {"down", "recovering", "up", "undefined"} /\ pc \in Calls
    /\ header \in Nat /\ page_cnt \in Nat
    /\ slots \in [Slot -> SlotImage] /\ data \in [Pages -> {Torn} \cup Nat]
    /\ adds \in Nat /\ added \in [Pages -> Nat]
    /\ excused \subseteq Pages /\ faults \in 0..MaxFaults
    /\ DOMAIN Mem \subseteq Pages /\ Mem \in [DOMAIN Mem -> MemPage]

\* No content is newer than the last call's.
SeqInv ==
    /\ \A k \in Pages : data[k] <= adds /\ added[k] <= adds
    /\ \A i \in Slot : slots[i].ver <= adds
    /\ \A k \in DOMAIN Mem : Mem[k].ver <= adds

\* A torn page has a valid image, and load_pages takes that one.  The newest content of a page is in
\* its data file and every image of it is invalid, or it is in the image load_pages takes and in no
\* other that is valid.
FileInv ==
    \A k \in Pages :
        /\ data[k] = Torn => \E i \in Slot : First(k, i) /\ slots[i].valid
        /\ \/ k \in excused
           \/ data[k] >= added[k] /\ (\A i \in Loadable(k) : ~slots[i].valid)
           \/ \E i \in Slot :
                /\ First(k, i) /\ slots[i].valid
                /\ slots[i].ver >= added[k] /\ slots[i].ver >= data[k]
                /\ \A j \in Loadable(k) \ {i} : ~slots[j].valid

\* Recovery has loaded exactly what the file holds, and invalidates it page by page.
RecInv ==
    /\ pc \in {"sync", "flush", "invalidate"}
    /\ \A k \in Pages : k \in Buffered <=> Loadable(k) # {}
    /\ \A k \in Buffered : /\ First(k, dblwr_pages[k].slot)
                           /\ slots[dblwr_pages[k].slot] = Image(k, dblwr_pages[k])
    /\ pc \in {"flush", "invalidate"} =>
         todo \subseteq Buffered /\ \A k \in Buffered \ todo : ~dblwr_pages[k].valid
    /\ pc = "invalidate" =>
         cur \in todo /\ (dblwr_pages[cur].valid => data[cur] = dblwr_pages[cur].ver)

\* The pages in memory have the slots 0 .. Count - 1, and a failed flush is the only way past
\* max_pages_.
PlacedInv ==
    /\ IsFiniteSet(DOMAIN Mem) /\ Dirty \subseteq DOMAIN Mem
    /\ \A k \in DOMAIN Mem : Mem[k].slot < Count
    /\ \A i \in 0..(Count - 1) : \E k \in DOMAIN Mem : Mem[k].slot = i
    /\ \A k, j \in DOMAIN Mem : Mem[k].slot = Mem[j].slot => k = j
    /\ \A k \in Fresh : Mem[k].slot = Count - 1
    /\ Count <= MaxPages + faults
    /\ pc \in {"idle", "hit"} => Count < MaxPages + faults
    /\ Clearing => dblwr_pages = NoPages

CurInv ==
    /\ pc \in {"hit", "slot", "header"} => cur \in Buffered
    /\ pc \in {"invalidate", "clear_slot"} => cur \in todo /\ data[cur] = Mem[cur].ver

\* The counts in memory and in the file cover the pages, except the one add_page is bringing.
CountInv ==
    /\ page_cnt <= header
    /\ \A k \in DOMAIN Mem \ Fresh : Mem[k].slot < page_cnt

\* The slot of a page holds the page, with the content in memory except while add_page writes it.
ImageInv ==
    /\ \A k \in Dirty : Mem[k].valid
    /\ \A k \in DOMAIN Mem : ~(pc = "slot" /\ k = cur) =>
         /\ slots[Mem[k].slot].key = k
         /\ k \in Dirty => slots[Mem[k].slot].valid
         /\ ~(pc = "hit" /\ k = cur) /\ (k \in Dirty \/ ~Clearing) => slots[Mem[k].slot] = Image(k, Mem[k])

\* The other slots the header counts are left from earlier batches, and invalid.
StaleInv ==
    \A k \in Pages \ excused : \A i \in Loadable(k) :
        slots[i].valid => k \in Dirty /\ Mem[k].slot = i /\ ~(pc = "slot" /\ k = cur)

NewestInv ==
    \A k \in Pages \ excused :
        /\ k \in Dirty => Mem[k].ver >= data[k] /\ Mem[k].ver >= added[k]
        /\ k \in Dirty \ Fresh => slots[Mem[k].slot].ver >= data[k] /\ slots[Mem[k].slot].ver >= added[k]
        /\ k \notin Dirty \/ k \in Fresh => data[k] >= added[k]

UpInv ==
    /\ \A k \in Pages : data[k] # Torn
    /\ PlacedInv /\ CurInv /\ CountInv /\ ImageInv /\ StaleInv /\ NewestInv

IInv ==
    /\ TypeInv /\ SeqInv /\ HeaderCoversSlots
    /\ phase \in {"down", "undefined"} => pc = "idle"
    /\ phase \in {"down", "recovering"} => FileInv
    /\ phase = "recovering" => RecInv
    /\ phase = "up" => UpInv

-----------------------------------------------------------------------------
(***************************************************************************)
(* Slots, images and records.                                              *)
(***************************************************************************)

\* A blank or torn slot is no page's.
LEMMA NobodyIsNoPage == ASSUME NEW k \in Pages PROVE k # Nobody
  BY DEF Pages, Nobody

LEMMA Numbers ==
    /\ Slot \subseteq Nat /\ Torn \in Int /\ Torn < 0
    /\ \A i \in Nat : i < MaxPages + MaxFaults => i \in Slot
  BY DwbAssumption DEF Slot, Torn

LEMMA SlotFields ==
    ASSUME TypeInv, NEW i \in Slot
    PROVE  /\ slots[i] \in SlotImage /\ slots[i].ver \in Int /\ slots[i].valid \in BOOLEAN
           /\ slots[i].valid => slots[i].key \in Pages /\ slots[i].ver \in Nat
           /\ \A k \in Pages : slots[i].key = k => slots[i].ver \in Nat /\ slots[i] # Blank
<1>1. slots[i] \in SlotImage
  BY DEF TypeInv
<1>2. CASE slots[i] \in {Blank, TornSlot}
  <2>1. /\ slots[i].key = Nobody /\ slots[i].valid = FALSE /\ slots[i].ver \in Int
    BY <1>2 DEF Blank, TornSlot, Torn
  <2> QED BY <1>1, <2>1, NobodyIsNoPage
<1>3. CASE slots[i] \in [key : Pages, ver : Nat, valid : BOOLEAN]
  <2>1. slots[i].key \in Pages /\ slots[i].ver \in Nat /\ slots[i].valid \in BOOLEAN
    BY <1>3
  <2>2. slots[i] # Blank
    BY <2>1, NobodyIsNoPage DEF Blank
  <2> QED BY <1>1, <2>1, <2>2
<1> QED BY <1>1, <1>2, <1>3 DEF SlotImage

LEMMA ImageFields ==
    ASSUME NEW k \in Pages, NEW p \in MemPage
    PROVE  /\ Image(k, p) \in SlotImage /\ Image(k, p) # Blank
           /\ Image(k, p).key = k /\ Image(k, p).ver = p.ver /\ Image(k, p).valid = p.valid
<1>1. p.ver \in Nat /\ p.valid \in BOOLEAN
  BY DEF MemPage
<1>2. Image(k, p).key = k /\ Image(k, p).ver = p.ver /\ Image(k, p).valid = p.valid
  BY DEF Image
<1>3. Image(k, p) # Blank
  BY <1>2, NobodyIsNoPage DEF Blank
<1> QED BY <1>1, <1>2, <1>3 DEF Image, SlotImage

LEMMA LeastIs ==
    ASSUME NEW S \in SUBSET Slot, S # {}
    PROVE  Least(S) \in S /\ \A j \in S : Least(S) <= j
<1>1. S \subseteq Nat
  BY Numbers
<1>2. PICK x \in S : \A y \in S : ~(<<y, x>> \in OpToRel(<, Nat))
  BY <1>1, WFMin, NatLessThanWellFounded
<1>3. ASSUME NEW y \in S PROVE x <= y
  <2>1. ~(y < x)
    BY <1>1, <1>2 DEF OpToRel
  <2> QED BY <1>1, <2>1
<1> QED BY <1>3 DEF Least

\* write_page_internal
LEMMA PutSlotIs ==
    ASSUME TypeInv, NEW i \in Slot, NEW image \in SlotImage, PutSlot(i, image)
    PROVE  /\ slots' \in [Slot -> SlotImage] /\ slots'[i] = image
           /\ \A j \in Slot \ {i} : slots'[j] = slots[j]
           /\ UNCHANGED <<header, data>>
  BY DEF TypeInv, PutSlot

LEMMA PutDataIs ==
    ASSUME TypeInv, NEW k \in Pages, NEW v \in {Torn} \cup Nat, PutData(k, v)
    PROVE  /\ data' \in [Pages -> {Torn} \cup Nat] /\ data'[k] = v
           /\ \A j \in Pages \ {k} : data'[j] = data[j]
           /\ UNCHANGED <<header, slots>>
  BY DEF TypeInv, PutData

LEMMA SetVer ==
    ASSUME NEW f, f \in [DOMAIN f -> MemPage], NEW k \in DOMAIN f, NEW v \in Nat,
           NEW g, g = [f EXCEPT ![k].ver = v]
    PROVE  /\ DOMAIN g = DOMAIN f /\ g \in [DOMAIN g -> MemPage]
           /\ g[k].slot = f[k].slot /\ g[k].ver = v /\ g[k].valid = f[k].valid
           /\ \A j \in DOMAIN f \ {k} : g[j] = f[j]
<1>1. f[k] \in MemPage
  OBVIOUS
<1>2. g = [f EXCEPT ![k] = [f[k] EXCEPT !.ver = v]]
  OBVIOUS
<1>3. PICK p : p = [f[k] EXCEPT !.ver = v]
  OBVIOUS
<1>4. p \in MemPage /\ p.slot = f[k].slot /\ p.ver = v /\ p.valid = f[k].valid
  BY <1>1, <1>3 DEF MemPage
<1>5. g = [f EXCEPT ![k] = p]
  BY <1>2, <1>3
<1> QED BY <1>4, <1>5

LEMMA MemFields ==
    ASSUME TypeInv, NEW k \in DOMAIN Mem
    PROVE  /\ k \in Pages /\ Mem[k] \in MemPage
           /\ Mem[k].slot \in Slot /\ Mem[k].slot \in Nat /\ Mem[k].ver \in Nat /\ Mem[k].valid \in BOOLEAN
<1>1. k \in Pages /\ Mem[k] \in MemPage
  BY DEF TypeInv
<1>2. Mem[k].slot \in Slot /\ Mem[k].ver \in Nat /\ Mem[k].valid \in BOOLEAN
  BY <1>1 DEF MemPage
<1> QED BY <1>1, <1>2, Numbers

-----------------------------------------------------------------------------
(***************************************************************************)
(* What a crash leaves.                                                    *)
(***************************************************************************)

\* The slots before the one of a page in memory hold other pages.
LEMMA OthersBefore ==
    ASSUME TypeInv, UpInv, NEW k \in DOMAIN Mem, ~(pc = "slot" /\ k = cur),
           NEW j \in Slot, j < Mem[k].slot
    PROVE  slots[j].key # k
<1>1. Count \in Nat
  BY FS_CardinalityType DEF UpInv, PlacedInv, Count
<1>2. Mem[k].slot \in Nat /\ Mem[k].slot < Count /\ j \in Nat
  BY MemFields, Numbers DEF UpInv, PlacedInv
<1>3. PICK l \in DOMAIN Mem : Mem[l].slot = j
  BY <1>1, <1>2 DEF UpInv, PlacedInv
<1>4. l # k
  BY <1>2, <1>3
<1>5. ~(pc = "slot" /\ l = cur)
  <2> SUFFICES ASSUME pc = "slot", l = cur PROVE FALSE
    OBVIOUS
  <2>1. Mem[l].slot = Count - 1
    BY DEF UpInv, PlacedInv, Fresh
  <2> QED BY <1>1, <1>2, <1>3, <2>1
<1> QED BY <1>3, <1>4, <1>5 DEF UpInv, ImageInv

\* load_pages takes a page in memory from its slot.
LEMMA TakenFromItsSlot ==
    ASSUME TypeInv, UpInv, NEW k \in DOMAIN Mem, ~(pc = "slot" /\ k = cur), Mem[k].slot < header
    PROVE  First(k, Mem[k].slot)
<1>1. Mem[k].slot \in Slot /\ Mem[k].slot \in Nat
  BY MemFields
<1>2. Mem[k].slot \in Loadable(k)
  BY <1>1 DEF UpInv, ImageInv, Loadable
<1>3. ASSUME NEW j \in Loadable(k) PROVE Mem[k].slot <= j
  <2>1. j \in Slot /\ j \in Nat /\ slots[j].key = k
    BY Numbers DEF Loadable
  <2> QED BY <1>1, <2>1, OthersBefore
<1> QED BY <1>2, <1>3 DEF First

LEMMA Counted ==
    ASSUME TypeInv, UpInv, NEW k \in DOMAIN Mem \ Fresh
    PROVE  Mem[k].slot < header
<1>1. Mem[k].slot \in Nat /\ page_cnt \in Nat /\ header \in Nat
  BY MemFields DEF TypeInv
<1> QED BY <1>1 DEF UpInv, CountInv

\* The files can always repair themselves.
LEMMA UpFile == ASSUME TypeInv, UpInv PROVE FileInv
<1> SUFFICES ASSUME NEW k \in Pages \ excused
             PROVE  \/ data[k] >= added[k] /\ (\A i \in Loadable(k) : ~slots[i].valid)
                    \/ \E i \in Slot :
                         /\ First(k, i) /\ slots[i].valid
                         /\ slots[i].ver >= added[k] /\ slots[i].ver >= data[k]
                         /\ \A j \in Loadable(k) \ {i} : ~slots[j].valid
  BY DEF FileInv, UpInv
<1>1. CASE k \notin Dirty
  BY <1>1 DEF UpInv, StaleInv, NewestInv
<1>2. CASE k \in Dirty /\ k \notin Fresh
  <2>1. k \in DOMAIN Mem /\ ~(pc = "slot" /\ k = cur)
    BY <1>2 DEF UpInv, PlacedInv, Fresh
  <2>2. Mem[k].slot \in Slot /\ First(k, Mem[k].slot)
    BY <1>2, <2>1, Counted, TakenFromItsSlot, MemFields
  <2>3. slots[Mem[k].slot].valid
    BY <1>2, <2>1 DEF UpInv, ImageInv
  <2>4. slots[Mem[k].slot].ver >= added[k] /\ slots[Mem[k].slot].ver >= data[k]
    BY <1>2 DEF UpInv, NewestInv
  <2>5. \A j \in Loadable(k) \ {Mem[k].slot} : ~slots[j].valid
    BY DEF UpInv, StaleInv
  <2> QED BY <2>2, <2>3, <2>4, <2>5
<1>3. CASE k \in Dirty /\ k \in Fresh
  <2>1. k \in DOMAIN Mem /\ k = cur /\ pc \in {"slot", "header"}
    BY <1>3 DEF UpInv, PlacedInv, Fresh
  <2>2. data[k] >= added[k]
    BY <1>3 DEF UpInv, NewestInv
  <2>3. Mem[k].slot \in Slot /\ Mem[k].slot \in Nat /\ Mem[k] \in MemPage /\ header \in Nat
    BY <2>1, MemFields DEF TypeInv
  <2>4. CASE pc = "slot" \/ ~(Mem[k].slot < header)
    <3>1. \A i \in Loadable(k) : ~slots[i].valid
      BY <2>1, <2>3, <2>4 DEF UpInv, StaleInv, Loadable
    <3> QED BY <2>2, <3>1
  <2>5. CASE pc = "header" /\ Mem[k].slot < header
    <3>1. First(k, Mem[k].slot)
      BY <2>1, <2>5, TakenFromItsSlot
    <3>2. slots[Mem[k].slot] = Image(k, Mem[k]) /\ slots[Mem[k].slot].valid
      BY <1>3, <2>1, <2>5 DEF UpInv, ImageInv
    <3>3. slots[Mem[k].slot].ver >= added[k] /\ slots[Mem[k].slot].ver >= data[k]
      BY <1>3, <2>3, <3>2, ImageFields DEF UpInv, NewestInv
    <3>4. \A j \in Loadable(k) \ {Mem[k].slot} : ~slots[j].valid
      BY DEF UpInv, StaleInv
    <3> QED BY <2>3, <3>1, <3>2, <3>3, <3>4
  <2> QED BY <2>1, <2>4, <2>5
<1> QED BY <1>1, <1>2, <1>3

\* A torn data page whose image is the one load_pages takes.
LEMMA TornPage ==
    ASSUME FileInv, TypeInv, NEW k \in Pages, NEW i \in Slot, First(k, i), slots[i].valid, PutData(k, Torn),
           UNCHANGED <<added, excused>>
    PROVE  FileInv'
<1>1. /\ data'[k] = Torn /\ \A j \in Pages \ {k} : data'[j] = data[j]
      /\ UNCHANGED <<header, slots>>
  BY PutDataIs
<1>2. /\ \A j \in Pages : Loadable(j)' = Loadable(j)
      /\ \A j \in Pages, l \in Slot : First(j, l)' <=> First(j, l)
  BY <1>1 DEF Loadable, First
<1>3. ASSUME NEW j \in Pages \ {k}
      PROVE  /\ data'[j] = Torn => \E l \in Slot : First(j, l)' /\ slots'[l].valid
             /\ \/ j \in excused'
                \/ data'[j] >= added'[j] /\ (\A l \in Loadable(j)' : ~slots'[l].valid)
                \/ \E l \in Slot :
                     /\ First(j, l)' /\ slots'[l].valid
                     /\ slots'[l].ver >= added'[j] /\ slots'[l].ver >= data'[j]
                     /\ \A m \in Loadable(j)' \ {l} : ~slots'[m].valid
  BY <1>1, <1>2 DEF FileInv
<1>4. ASSUME k \notin excused'
      PROVE  /\ slots'[i].ver >= added'[k] /\ slots'[i].ver >= data'[k]
             /\ \A m \in Loadable(k)' \ {i} : ~slots'[m].valid
  <2>1. i \in Loadable(k)
    BY DEF First
  <2>2. PICK l \in Slot : /\ First(k, l) /\ slots[l].valid
                          /\ slots[l].ver >= added[k] /\ slots[l].ver >= data[k]
                          /\ \A m \in Loadable(k) \ {l} : ~slots[m].valid
    BY <1>4, <2>1 DEF FileInv
  <2>3. l = i
    BY <2>1, <2>2
  <2>4. slots[i].ver \in Nat
    BY <2>1, SlotFields DEF Loadable
  <2> QED BY <1>1, <1>2, <2>2, <2>3, <2>4, Numbers
<1> QED BY <1>1, <1>2, <1>3, <1>4 DEF FileInv

-----------------------------------------------------------------------------
(***************************************************************************)
(* The process ends.                                                       *)
(***************************************************************************)
FileTypes ==
    /\ header \in Nat /\ slots \in [Slot -> SlotImage] /\ data \in [Pages -> {Torn} \cup Nat]
    /\ adds \in Nat /\ added \in [Pages -> Nat] /\ excused \subseteq Pages /\ faults \in 0..MaxFaults

FileSeq ==
    /\ \A k \in Pages : data[k] <= adds /\ added[k] <= adds
    /\ \A i \in Slot : slots[i].ver <= adds

LEMMA Stopped ==
    ASSUME LoseMemory, FileTypes', FileSeq', HeaderCoversSlots', FileInv'
    PROVE  IInv'
<1>1. phase' = "down" /\ pc' = "idle" /\ page_cnt' = 0 /\ dblwr_pages' = NoPages
  BY DEF LoseMemory
<1>2. Mem' = NoPages /\ DOMAIN Mem' = {}
  BY <1>1 DEF Mem, Clearing, NoPages
<1>3. Mem' \in [DOMAIN Mem' -> MemPage]
  BY <1>2 DEF NoPages
<1>4. TypeInv'
  BY <1>1, <1>2, <1>3 DEF TypeInv, FileTypes, Calls
<1>5. SeqInv'
  BY <1>2 DEF SeqInv, FileSeq
<1> QED BY <1>1, <1>4, <1>5 DEF IInv

LEMMA FilesOK == ASSUME IInv PROVE FileTypes /\ FileSeq /\ (phase \in {"up", "recovering", "down"} => FileInv)
  BY UpFile DEF IInv, TypeInv, SeqInv, FileTypes, FileSeq

LEMMA StopsBetweenWrites ==
    ASSUME IInv, phase \in {"up", "recovering"}, LoseMemory,
           UNCHANGED <<files, adds, added, excused>>, faults' \in 0..MaxFaults
    PROVE  IInv'
<1>1. UNCHANGED <<slots, header, data, adds, added, excused>>
  BY DEF files
<1>2. FileTypes' /\ FileSeq' /\ FileInv' /\ HeaderCoversSlots'
  BY <1>1, FilesOK DEF IInv, FileTypes, FileSeq, FileInv, First, Loadable, HeaderCoversSlots, LoadSucceeds
<1> QED BY <1>2, Stopped

LEMMA CrashInv == ASSUME IInv, Crash \/ Shutdown PROVE IInv'
<1>1. /\ phase \in {"up", "recovering"} /\ LoseMemory
      /\ UNCHANGED <<files, adds, added, excused, faults>>
  BY DEF Crash, Dies, Shutdown, counts
<1>2. faults' \in 0..MaxFaults
  BY <1>1 DEF IInv, TypeInv
<1> QED BY <1>1, <1>2, StopsBetweenWrites

LEMMA CrashTearsPageInv == ASSUME IInv, NEW k \in Pages, CrashTearsPage(k) PROVE IInv'
<1>1. /\ phase \in {"up", "recovering"} /\ LoseMemory /\ PutData(k, Torn)
      /\ UNCHANGED <<adds, added, excused, faults>>
      /\ \/ pc = "flush" /\ k \in todo /\ dblwr_pages[k].valid
         \/ pc = "clear" /\ k \in todo
  BY DEF CrashTearsPage, Dies, FirstPage
<1>2. PICK i \in Slot : First(k, i) /\ slots[i].valid
  <2>1. CASE phase = "recovering"
    <3>1. pc = "flush" /\ k \in Buffered /\ k \in DOMAIN Mem /\ Mem = dblwr_pages
      BY <1>1, <2>1 DEF IInv, RecInv, Mem, Clearing, Buffered
    <3>2. dblwr_pages[k].slot \in Slot /\ dblwr_pages[k] \in MemPage
      BY <3>1, MemFields DEF IInv
    <3>3. First(k, dblwr_pages[k].slot) /\ slots[dblwr_pages[k].slot] = Image(k, dblwr_pages[k])
      BY <2>1, <3>1 DEF IInv, RecInv
    <3> QED BY <1>1, <3>1, <3>2, <3>3, ImageFields
  <2>2. CASE phase = "up"
    <3>1. k \in Dirty /\ Fresh = {} /\ pc # "slot"
      BY <1>1 DEF Dirty, Fresh, Clearing
    <3>2. k \in DOMAIN Mem
      BY <2>2, <3>1 DEF IInv, UpInv, PlacedInv
    <3>3. Mem[k].slot \in Slot /\ First(k, Mem[k].slot)
      BY <2>2, <3>1, <3>2, MemFields, Counted, TakenFromItsSlot DEF IInv
    <3>4. slots[Mem[k].slot].valid
      BY <2>2, <3>1, <3>2 DEF IInv, UpInv, ImageInv
    <3> QED BY <3>3, <3>4
  <2> QED BY <1>1, <2>1, <2>2
<1>3. FileInv'
  BY <1>1, <1>2, TornPage, FilesOK DEF IInv
<1>4. /\ data' \in [Pages -> {Torn} \cup Nat] /\ data'[k] = Torn
      /\ \A j \in Pages \ {k} : data'[j] = data[j]
  BY <1>1, PutDataIs DEF IInv
<1>5. UNCHANGED <<header, slots>>
  BY <1>1 DEF PutData
<1>6. FileTypes' /\ HeaderCoversSlots'
  BY <1>1, <1>4, <1>5, FilesOK DEF IInv, FileTypes, HeaderCoversSlots, LoadSucceeds
<1>7. FileSeq'
  BY <1>1, <1>4, <1>5, FilesOK, Numbers DEF FileSeq, FileTypes
<1> QED BY <1>1, <1>3, <1>6, <1>7, Stopped

LEMMA CrashTearsSlotInv == ASSUME IInv, CrashTearsSlot PROVE IInv'
<1>1. /\ phase \in {"up", "recovering"} /\ LoseMemory /\ pc \in {"hit", "slot"}
      /\ PutSlot(dblwr_pages[cur].slot, TornSlot)
      /\ excused' = excused \cup {cur} /\ UNCHANGED <<adds, added, faults>>
  BY DEF CrashTearsSlot, Dies
<1>2. phase = "up" /\ UpInv /\ TypeInv
  BY <1>1 DEF IInv, RecInv
<1>3. cur \in DOMAIN Mem /\ Mem = dblwr_pages /\ Dirty = DOMAIN Mem
  BY <1>1, <1>2 DEF UpInv, CurInv, Mem, Clearing, Dirty, Buffered
<1>4. PICK i \in Slot : i = Mem[cur].slot
  BY <1>2, <1>3, MemFields
<1>5. cur \in Pages
  BY <1>2, <1>3, MemFields
<1>6. /\ slots' \in [Slot -> SlotImage] /\ slots'[i] = TornSlot
      /\ \A j \in Slot \ {i} : slots'[j] = slots[j]
      /\ UNCHANGED <<header, data>>
  <2>1. TornSlot \in SlotImage
    BY DEF SlotImage
  <2> QED BY <1>1, <1>2, <1>3, <1>4, <2>1, PutSlotIs
<1>7. TornSlot.key = Nobody /\ TornSlot # Blank /\ TornSlot.ver = Torn
  BY DEF TornSlot, Blank, Torn
<1>8. \A k \in Pages : Loadable(k)' = Loadable(k) \ {i}
  BY <1>6, <1>7, NobodyIsNoPage DEF Loadable
<1>9. FileInv'
  <2> SUFFICES ASSUME NEW k \in Pages \ excused'
               PROVE  \/ data'[k] >= added'[k] /\ (\A j \in Loadable(k)' : ~slots'[j].valid)
                      \/ \E j \in Slot :
                           /\ First(k, j)' /\ slots'[j].valid
                           /\ slots'[j].ver >= added'[k] /\ slots'[j].ver >= data'[k]
                           /\ \A l \in Loadable(k)' \ {j} : ~slots'[l].valid
    BY <1>2, <1>6 DEF FileInv, UpInv
  <2>1. k \in Pages \ excused /\ k # cur
    BY <1>1
  <2>2. \A j \in Loadable(k)' : j \in Loadable(k) /\ j \in Slot /\ j # i /\ slots'[j] = slots[j]
    BY <1>6, <1>8 DEF Loadable
  <2>3. CASE data[k] >= added[k] /\ (\A j \in Loadable(k) : ~slots[j].valid)
    BY <1>1, <1>6, <2>2, <2>3
  <2>4. CASE ~(data[k] >= added[k] /\ (\A j \in Loadable(k) : ~slots[j].valid))
    <3>1. k \in Dirty
      BY <1>2, <2>1, <2>4 DEF UpInv, StaleInv, NewestInv
    <3>2. k \in DOMAIN Mem \ Fresh
      BY <1>1, <1>3, <2>1, <3>1 DEF Fresh
    <3>3. Mem[k].slot \in Slot /\ First(k, Mem[k].slot) /\ Mem[k].slot # i
      BY <1>2, <1>3, <1>4, <2>1, <3>2, MemFields, Counted, TakenFromItsSlot DEF UpInv, PlacedInv
    <3>4. PICK j \in Slot : j = Mem[k].slot
      BY <3>3
    <3>5. First(k, j)' /\ slots'[j] = slots[j]
      BY <1>6, <1>8, <2>2, <3>3, <3>4 DEF First
    <3>6. slots[j].valid /\ slots[j].ver >= added[k] /\ slots[j].ver >= data[k]
      BY <1>2, <2>1, <3>1, <3>2, <3>4 DEF UpInv, ImageInv, NewestInv
    <3>7. \A l \in Loadable(k)' \ {j} : ~slots'[l].valid
      BY <1>2, <2>1, <2>2, <3>4 DEF UpInv, StaleInv
    <3> QED BY <1>1, <1>6, <3>5, <3>6, <3>7
  <2> QED BY <2>3, <2>4
<1>10. FileTypes'
  BY <1>1, <1>5, <1>6, FilesOK DEF FileTypes
<1>11. FileSeq'
  BY <1>1, <1>6, <1>7, FilesOK, Numbers DEF FileSeq, FileTypes
<1>12. HeaderCoversSlots'
  BY <1>6, <1>7 DEF IInv, HeaderCoversSlots, LoadSucceeds
<1> QED BY <1>1, <1>9, <1>10, <1>11, <1>12, Stopped

-----------------------------------------------------------------------------
(***************************************************************************)
(* Steps of a running process that write nothing.                          *)
(***************************************************************************)
LEMMA CountNat == ASSUME UpInv PROVE Count \in Nat /\ IsFiniteSet(DOMAIN Mem)
  BY FS_CardinalityType DEF UpInv, PlacedInv, Count

LEMMA Quiet ==
    ASSUME IInv, phase = "up", phase' = "up", Mem' = Mem, Dirty = DOMAIN Mem, Dirty' = DOMAIN Mem,
           pc \in {"idle", "sync", "flush"}, pc' \in {"idle", "sync", "flush", "clear"},
           UNCHANGED <<slots, header, data, page_cnt, adds, added, excused>>,
           faults' \in faults..MaxFaults, pc' = "idle" => Count < MaxPages + faults',
           pc' = "clear" => dblwr_pages' = NoPages
    PROVE  IInv'
<1>1. TypeInv /\ UpInv /\ SeqInv /\ HeaderCoversSlots /\ faults \in Nat
  BY DEF IInv, TypeInv
<1>2. Count' = Count /\ Count \in Nat
  BY <1>1, CountNat DEF Count
<1>3. Fresh = {} /\ Fresh' = {} /\ (Clearing' => dblwr_pages' = NoPages) /\ ~Clearing
  BY DEF Fresh, Clearing
<1>4. TypeInv' /\ SeqInv' /\ HeaderCoversSlots'
  <2>1. faults' \in 0..MaxFaults
    BY <1>1
  <2>2. pc' \in Calls
    BY DEF Calls
  <2> QED BY <1>1, <2>1, <2>2 DEF TypeInv, SeqInv, HeaderCoversSlots, LoadSucceeds
<1>5. PlacedInv'
  <2>1. Count' <= MaxPages + faults' /\ (pc' \in {"idle", "hit"} => Count' < MaxPages + faults')
    <3>1. Count <= MaxPages + faults /\ faults <= faults' /\ faults' \in Nat /\ MaxPages \in Nat
      BY <1>1, DwbAssumption DEF UpInv, PlacedInv
    <3>2. pc' # "hit"
      OBVIOUS
    <3>3. Count <= MaxPages + faults'
      <4>1. \A c, m, f, g \in Nat : c <= m + f /\ f <= g => c <= m + g
        OBVIOUS
      <4>2. Count \in Nat /\ MaxPages \in Nat /\ faults \in Nat /\ faults' \in Nat
        BY <1>1, <1>2, <3>1
      <4> QED BY <3>1, <4>1, <4>2
    <3>4. pc' \in {"idle", "hit"} => Count < MaxPages + faults'
      BY <3>2
    <3> QED BY <1>2, <3>3, <3>4
  <2> QED BY <1>1, <1>2, <1>3, <2>1 DEF UpInv, PlacedInv
<1>6. CurInv' /\ CountInv'
  BY <1>1, <1>3 DEF UpInv, CurInv, CountInv
<1>7. ImageInv'
  BY <1>1, <1>3 DEF UpInv, ImageInv
<1>8. StaleInv' /\ NewestInv'
  BY <1>1, <1>3 DEF UpInv, StaleInv, NewestInv, Loadable
<1> QED BY <1>1, <1>4, <1>5, <1>6, <1>7, <1>8 DEF IInv, UpInv

LEMMA SnapshotInv == ASSUME IInv, Snapshot \/ \E p \in Pools : OpenPool(p) PROVE IInv'
<1>1. /\ phase = "up" /\ pc = "idle" /\ phase' = "up" /\ pc' \in {"idle", "sync"}
      /\ UNCHANGED <<dblwr_pages, todo, spec_pages, page_cnt, slots, header, data, adds, added, excused, faults>>
  BY DEF Snapshot, OpenPool, files, counts
<1>2. Mem' = Mem /\ Dirty = DOMAIN Mem /\ Dirty' = DOMAIN Mem
  BY <1>1 DEF Mem, Dirty, Clearing, Buffered
<1>3. faults' \in faults..MaxFaults /\ Count < MaxPages + faults'
  BY <1>1 DEF IInv, TypeInv, UpInv, PlacedInv
<1> QED BY <1>1, <1>2, <1>3, Quiet

LEMMA ClearPagesInv == ASSUME CloseShared = FALSE, IInv, NEW p \in Pools, ClearPages(p) PROVE IInv'
<1>1. /\ phase = "up" /\ pc = "idle" /\ phase' = "up" /\ pc' = "clear" /\ Of(p) = Buffered
      /\ spec_pages' = [k \in Of(p) |-> dblwr_pages[k]] /\ todo' = Of(p)
      /\ dblwr_pages' = [k \in Buffered \ Of(p) |-> dblwr_pages[k]]
      /\ UNCHANGED <<page_cnt, slots, header, data, adds, added, excused, faults>>
  BY DEF ClearPages, files, counts
<1>2. Mem = dblwr_pages /\ Mem \in [Buffered -> MemPage] /\ Dirty = DOMAIN Mem
  BY <1>1 DEF IInv, TypeInv, Mem, Dirty, Clearing, Buffered
<1>3. spec_pages' = dblwr_pages
  BY <1>1, <1>2
<1>4. Mem' = Mem /\ Dirty' = DOMAIN Mem
  BY <1>1, <1>2, <1>3 DEF Mem, Dirty, Clearing, Buffered
<1>5. dblwr_pages' = NoPages
  BY <1>1 DEF NoPages
<1>6. faults' \in faults..MaxFaults
  BY <1>1 DEF IInv, TypeInv
<1> QED BY <1>1, <1>2, <1>4, <1>5, <1>6, Quiet

\* Nothing is buffered any more.
LEMMA Emptied ==
    ASSUME IInv, phase \in {"up", "recovering"}, phase' = "up", pc' = "idle", Buffered' = {}, dblwr_pages' = NoPages,
           \A k \in Pages : data[k] # Torn,
           \A k \in Pages \ excused : data[k] >= added[k] /\ \A i \in Loadable(k) : ~slots[i].valid,
           page_cnt' \in Nat, page_cnt' <= header,
           UNCHANGED <<slots, header, data, adds, added, excused, faults>>
    PROVE  IInv'
<1>1. TypeInv /\ SeqInv /\ HeaderCoversSlots /\ faults \in Nat
  BY DEF IInv, TypeInv
<1>2. Mem' = NoPages /\ DOMAIN Mem' = {} /\ Dirty' = {} /\ Fresh' = {} /\ ~Clearing'
  BY DEF Mem, Dirty, Clearing, Fresh, Buffered, NoPages
<1>3. Count' = 0 /\ IsFiniteSet(DOMAIN Mem')
  BY <1>2, FS_EmptySet DEF Count
<1>4. TypeInv'
  <2>1. Mem' \in [DOMAIN Mem' -> MemPage] /\ DOMAIN Mem' \subseteq Pages
    BY <1>2 DEF NoPages
  <2> QED BY <1>1, <2>1 DEF TypeInv, Calls
<1>5. SeqInv' /\ HeaderCoversSlots'
  BY <1>1, <1>2 DEF SeqInv, HeaderCoversSlots, LoadSucceeds
<1>6. PlacedInv'
  <2>1. 0 < MaxPages + faults' /\ 0..(0 - 1) = {}
    BY <1>1, DwbAssumption
  <2>2. 0 <= MaxPages + faults'
    BY <1>1, DwbAssumption
  <2>3. \A i \in 0..(Count' - 1) : FALSE
    BY <1>3, <2>1
  <2> QED BY <1>2, <1>3, <2>1, <2>2, <2>3 DEF PlacedInv
<1>7. CurInv' /\ CountInv' /\ ImageInv'
  BY <1>2 DEF CurInv, CountInv, ImageInv
<1>8. StaleInv' /\ NewestInv'
  BY <1>2 DEF StaleInv, NewestInv, Loadable
<1> QED BY <1>4, <1>5, <1>6, <1>7, <1>8 DEF IInv, UpInv

LEMMA ClearEndInv == ASSUME IInv, ClearEnd PROVE IInv'
<1>1. /\ pc = "clear" /\ todo = {} /\ pc' = "idle"
      /\ UNCHANGED <<phase, dblwr_pages, page_cnt, slots, header, data, adds, added, excused, faults>>
  BY DEF ClearEnd, files, counts
<1>2. phase = "up" /\ UpInv
  BY <1>1 DEF IInv, RecInv, TypeInv
<1>3. Clearing /\ dblwr_pages = NoPages /\ Dirty = {}
  BY <1>1, <1>2 DEF UpInv, PlacedInv, Clearing, Dirty
<1>4. Buffered' = {} /\ dblwr_pages' = NoPages
  BY <1>1, <1>3 DEF Buffered, NoPages
<1>5. \A k \in Pages \ excused : data[k] >= added[k] /\ \A i \in Loadable(k) : ~slots[i].valid
  BY <1>2, <1>3 DEF UpInv, StaleInv, NewestInv
<1>6. page_cnt' \in Nat /\ page_cnt' <= header
  BY <1>1, <1>2 DEF IInv, TypeInv, UpInv, CountInv
<1> QED BY <1>1, <1>2, <1>4, <1>5, <1>6, Emptied DEF UpInv

-----------------------------------------------------------------------------
(***************************************************************************)
(* add_page                                                                *)
(***************************************************************************)
LEMMA AddHit ==
    ASSUME IInv, NEW k \in Pages, AddPage(k), k \in Buffered
    PROVE  IInv'
<1>1. /\ phase = "up" /\ pc = "idle" /\ phase' = "up" /\ pc' = "hit" /\ cur' = k /\ adds' = adds + 1
      /\ dblwr_pages' = [dblwr_pages EXCEPT ![k].ver = adds + 1]
      /\ UNCHANGED <<page_cnt, slots, header, data, added, excused, faults>>
  BY DEF AddPage, files, counts
<1>2. TypeInv /\ SeqInv /\ HeaderCoversSlots /\ UpInv /\ adds \in Nat
  BY <1>1 DEF IInv, TypeInv
<1>3. /\ Mem = dblwr_pages /\ Mem' = dblwr_pages' /\ Dirty = DOMAIN Mem /\ Dirty' = DOMAIN Mem' /\ k \in DOMAIN Mem
      /\ Fresh = {} /\ Fresh' = {} /\ ~Clearing /\ ~Clearing' /\ Buffered' = DOMAIN Mem'
  BY <1>1 DEF Mem, Dirty, Clearing, Fresh, Buffered
<1>4. /\ DOMAIN Mem' = DOMAIN Mem /\ Mem' \in [DOMAIN Mem' -> MemPage]
      /\ Mem'[k].slot = Mem[k].slot /\ Mem'[k].ver = adds + 1 /\ Mem'[k].valid = Mem[k].valid
      /\ \A j \in DOMAIN Mem \ {k} : Mem'[j] = Mem[j]
  <2>1. adds + 1 \in Nat /\ Mem \in [DOMAIN Mem -> MemPage]
    BY <1>2 DEF TypeInv
  <2>2. Mem' = [Mem EXCEPT ![k].ver = adds + 1]
    BY <1>1, <1>3
  <2> QED BY <1>3, <2>1, <2>2, SetVer
<1>5. \A j \in DOMAIN Mem : Mem'[j].slot = Mem[j].slot /\ Mem'[j].valid = Mem[j].valid
  BY <1>4
<1>6. TypeInv'
  BY <1>1, <1>2, <1>4 DEF TypeInv, Calls
<1>7. SeqInv'
  <2>1. \A j \in DOMAIN Mem : Mem'[j].ver <= adds + 1
    BY <1>2, <1>4, MemFields DEF SeqInv
  <2>2. \A j \in Pages : data[j] \in Int /\ added[j] \in Int
    BY <1>2, Numbers DEF TypeInv
  <2>3. \A i \in Slot : slots[i].ver \in Int
    BY <1>2, SlotFields
  <2> QED BY <1>1, <1>2, <1>4, <2>1, <2>2, <2>3 DEF SeqInv
<1>8. HeaderCoversSlots'
  BY <1>1, <1>2 DEF HeaderCoversSlots, LoadSucceeds
<1>9. PlacedInv'
  <2>1. Count' = Count
    BY <1>4 DEF Count
  <2> QED BY <1>1, <1>2, <1>3, <1>4, <1>5, <2>1 DEF UpInv, PlacedInv
<1>10. CurInv' /\ CountInv'
  BY <1>1, <1>2, <1>3, <1>4, <1>5 DEF UpInv, CurInv, CountInv
<1>11. ImageInv'
  <2>1. \A j \in DOMAIN Mem : /\ slots[Mem[j].slot].key = j /\ slots[Mem[j].slot].valid /\ Mem[j].valid
                              /\ slots[Mem[j].slot] = Image(j, Mem[j])
    BY <1>1, <1>2, <1>3 DEF UpInv, ImageInv
  <2> QED BY <1>1, <1>3, <1>4, <1>5, <2>1 DEF ImageInv
<1>12. StaleInv'
  BY <1>1, <1>2, <1>3, <1>4, <1>5 DEF UpInv, StaleInv, Loadable
<1>13. NewestInv'
  <2>1. \A j \in Pages : data[j] \in Int /\ added[j] \in Int /\ data[j] <= adds /\ added[j] <= adds
    BY <1>2, Numbers DEF TypeInv, SeqInv
  <2>2. Mem'[k].ver >= data[k] /\ Mem'[k].ver >= added[k]
    BY <1>2, <1>4, <2>1
  <2> QED BY <1>1, <1>2, <1>3, <1>4, <1>5, <2>2 DEF UpInv, NewestInv
<1> QED BY <1>1, <1>2, <1>6, <1>7, <1>8, <1>9, <1>10, <1>11, <1>12, <1>13 DEF IInv, UpInv

LEMMA AddNew ==
    ASSUME IInv, NEW k \in Pages, AddPage(k), k \notin Buffered
    PROVE  IInv'
<1>1. /\ phase = "up" /\ pc = "idle" /\ phase' = "up" /\ pc' = "slot" /\ cur' = k /\ adds' = adds + 1
      /\ dblwr_pages' = [j \in Buffered \cup {k} |->
                           IF j = k THEN [slot |-> Cardinality(Buffered), ver |-> adds + 1, valid |-> TRUE]
                                    ELSE dblwr_pages[j]]
      /\ UNCHANGED <<page_cnt, slots, header, data, added, excused, faults>>
  BY DEF AddPage, files, counts
<1>2. TypeInv /\ SeqInv /\ HeaderCoversSlots /\ UpInv /\ adds \in Nat /\ faults \in 0..MaxFaults
  BY <1>1 DEF IInv, TypeInv
<1>3. /\ Mem = dblwr_pages /\ Mem' = dblwr_pages' /\ Dirty = DOMAIN Mem /\ Dirty' = DOMAIN Mem' /\ k \notin DOMAIN Mem
      /\ Fresh = {} /\ Fresh' = {k} /\ ~Clearing /\ ~Clearing' /\ Buffered' = DOMAIN Mem' /\ Buffered = DOMAIN Mem
  BY <1>1 DEF Mem, Dirty, Clearing, Fresh, Buffered
<1>c. Count \in Nat /\ IsFiniteSet(DOMAIN Mem) /\ Count = Cardinality(Buffered)
  BY <1>2, <1>3, CountNat DEF Count
<1>4. /\ DOMAIN Mem' = DOMAIN Mem \cup {k}
      /\ Mem'[k].slot = Count /\ Mem'[k].ver = adds + 1 /\ Mem'[k].valid = TRUE
      /\ \A j \in DOMAIN Mem : Mem'[j] = Mem[j]
  BY <1>1, <1>3, <1>c
<1>5. Count \in Slot /\ Count < MaxPages + faults
  <2>1. Count < MaxPages + faults
    BY <1>1, <1>2 DEF UpInv, PlacedInv
  <2>2. Count < MaxPages + MaxFaults
    BY <1>2, <1>c, <2>1, DwbAssumption
  <2> QED BY <1>c, <2>1, <2>2, Numbers
<1>6. TypeInv'
  <2>1. [slot |-> Count, ver |-> adds + 1, valid |-> TRUE] \in MemPage
    BY <1>2, <1>5 DEF MemPage
  <2>2. \A j \in DOMAIN Mem : Mem[j] \in MemPage
    BY <1>2, MemFields
  <2>3. dblwr_pages' \in [Buffered \cup {k} -> MemPage]
    BY <1>1, <1>3, <1>c, <2>1, <2>2
  <2>4. Mem' \in [DOMAIN Mem' -> MemPage]
    BY <1>3, <1>4, <2>3
  <2>5. DOMAIN Mem' \subseteq Pages
    BY <1>2, <1>4 DEF TypeInv
  <2>6. adds' \in Nat /\ pc' \in Calls
    BY <1>1, <1>2 DEF Calls
  <2> QED BY <1>1, <1>2, <2>4, <2>5, <2>6 DEF TypeInv
<1>7. SeqInv'
  <2>1. \A j \in DOMAIN Mem' : Mem'[j].ver <= adds + 1
    BY <1>2, <1>4, MemFields DEF SeqInv
  <2>2. \A j \in Pages : data[j] \in Int /\ added[j] \in Int
    BY <1>2, Numbers DEF TypeInv
  <2>3. \A i \in Slot : slots[i].ver \in Int
    BY <1>2, SlotFields
  <2> QED BY <1>1, <1>2, <2>1, <2>2, <2>3 DEF SeqInv
<1>8. HeaderCoversSlots'
  BY <1>1, <1>2 DEF HeaderCoversSlots, LoadSucceeds
<1>9. PlacedInv'
  <2>1. Count' = Count + 1 /\ IsFiniteSet(DOMAIN Mem')
    BY <1>3, <1>4, <1>c, FS_AddElement DEF Count
  <2>2. \A j \in DOMAIN Mem : Mem[j].slot \in Nat /\ Mem[j].slot < Count
    BY <1>2, MemFields DEF UpInv, PlacedInv
  <2>3. \A j \in DOMAIN Mem' : Mem'[j].slot < Count'
    BY <1>4, <1>c, <2>1, <2>2
  <2>4. \A i \in 0..(Count' - 1) : \E j \in DOMAIN Mem' : Mem'[j].slot = i
    <3> SUFFICES ASSUME NEW i \in 0..(Count' - 1) PROVE \E j \in DOMAIN Mem' : Mem'[j].slot = i
      OBVIOUS
    <3>1. CASE i = Count
      BY <1>4, <3>1
    <3>2. CASE i # Count
      <4>1. i \in 0..(Count - 1)
        BY <1>c, <2>1, <3>2
      <4>2. PICK j \in DOMAIN Mem : Mem[j].slot = i
        BY <1>2, <4>1 DEF UpInv, PlacedInv
      <4> QED BY <1>4, <4>2
    <3> QED BY <3>1, <3>2
  <2>5. \A l, j \in DOMAIN Mem' : Mem'[l].slot = Mem'[j].slot => l = j
    <3>1. \A l, j \in DOMAIN Mem : Mem[l].slot = Mem[j].slot => l = j
      BY <1>2 DEF UpInv, PlacedInv
    <3>2. \A l \in DOMAIN Mem : Mem[l].slot # Count
      BY <1>c, <2>2
    <3> QED BY <1>4, <3>1, <3>2
  <2>6. Count' <= MaxPages + faults' /\ Mem'[k].slot = Count' - 1
    BY <1>1, <1>2, <1>4, <1>5, <1>c, <2>1, DwbAssumption
  <2> QED BY <1>1, <1>3, <2>1, <2>3, <2>4, <2>5, <2>6 DEF PlacedInv
<1>10. CurInv' /\ CountInv'
  BY <1>1, <1>2, <1>3, <1>4 DEF UpInv, CurInv, CountInv
<1>11. ImageInv'
  <2>1. \A j \in DOMAIN Mem : /\ slots[Mem[j].slot].key = j /\ slots[Mem[j].slot].valid /\ Mem[j].valid
                              /\ slots[Mem[j].slot] = Image(j, Mem[j])
    BY <1>1, <1>2, <1>3 DEF UpInv, ImageInv
  <2> QED BY <1>1, <1>3, <1>4, <2>1 DEF ImageInv
<1>12. StaleInv'
  <2>1. \A j \in Pages \ excused : \A i \in Loadable(j) : slots[i].valid => j \in DOMAIN Mem /\ Mem[j].slot = i
    BY <1>2, <1>3 DEF UpInv, StaleInv
  <2>2. \A j \in DOMAIN Mem : j # k /\ Mem'[j] = Mem[j] /\ j \in DOMAIN Mem'
    BY <1>3, <1>4
  <2> QED BY <1>1, <1>3, <2>1, <2>2 DEF StaleInv, Loadable
<1>13. NewestInv'
  <2>1. \A j \in Pages : data[j] \in Int /\ added[j] \in Int /\ data[j] <= adds /\ added[j] <= adds
    BY <1>2, Numbers DEF TypeInv, SeqInv
  <2>2. Mem'[k].ver >= data[k] /\ Mem'[k].ver >= added[k]
    BY <1>2, <1>4, <2>1
  <2>3. k \notin excused => data[k] >= added[k]
    BY <1>2, <1>3 DEF UpInv, NewestInv
  <2> QED BY <1>1, <1>2, <1>3, <1>4, <2>2, <2>3 DEF UpInv, NewestInv
<1> QED BY <1>1, <1>2, <1>6, <1>7, <1>8, <1>9, <1>10, <1>11, <1>12, <1>13 DEF IInv, UpInv

\* The image goes to the slot of the page.
LEMMA WriteImageInv == ASSUME IInv, WriteHit \/ WriteSlot PROVE IInv'
<1>1. /\ \/ pc = "hit" /\ pc' = "idle" /\ added' = [added EXCEPT ![cur] = dblwr_pages[cur].ver]
         \/ pc = "slot" /\ pc' = "header" /\ UNCHANGED <<added, cur>>
      /\ PutSlot(dblwr_pages[cur].slot, Image(cur, dblwr_pages[cur]))
      /\ UNCHANGED <<phase, dblwr_pages, page_cnt, adds, excused, faults>>
  BY DEF WriteHit, WriteSlot, counts
<1>2. phase = "up" /\ TypeInv /\ SeqInv /\ HeaderCoversSlots /\ UpInv
  BY <1>1 DEF IInv, TypeInv, RecInv
<1>3. /\ Mem = dblwr_pages /\ Mem' = Mem /\ Dirty = DOMAIN Mem /\ Dirty' = DOMAIN Mem /\ cur \in DOMAIN Mem
      /\ ~Clearing /\ ~Clearing' /\ Buffered' = DOMAIN Mem
  BY <1>1, <1>2 DEF Mem, Dirty, Clearing, Buffered, UpInv, CurInv
<1>4. Fresh' = Fresh /\ (pc = "hit" => Fresh = {}) /\ (pc = "slot" => Fresh = {cur})
  BY <1>1 DEF Fresh
<1>5. cur \in Pages /\ Mem[cur] \in MemPage /\ Mem[cur].ver \in Nat /\ Mem[cur].valid
  BY <1>2, <1>3, MemFields DEF UpInv, ImageInv
<1>i. PICK i \in Slot : i = Mem[cur].slot
  BY <1>2, <1>3, MemFields
<1>g. PICK g \in SlotImage : g = Image(cur, Mem[cur])
  BY <1>5, ImageFields
<1>6. g # Blank /\ g.key = cur /\ g.ver = Mem[cur].ver /\ g.valid
  BY <1>5, <1>g, ImageFields
<1>7. /\ slots' \in [Slot -> SlotImage] /\ slots'[i] = g
      /\ \A j \in Slot \ {i} : slots'[j] = slots[j]
      /\ UNCHANGED <<header, data>>
  BY <1>1, <1>2, <1>3, <1>i, <1>g, PutSlotIs
<1>8. /\ added' \in [Pages -> Nat] /\ \A k \in Pages \ {cur} : added'[k] = added[k]
      /\ pc = "hit" => added'[cur] = Mem[cur].ver
      /\ pc = "slot" => added'[cur] = added[cur]
  BY <1>1, <1>2, <1>3, <1>5 DEF TypeInv
<1>9. \A k \in DOMAIN Mem \ {cur} : Mem[k].slot \in Slot \ {i} /\ slots'[Mem[k].slot] = slots[Mem[k].slot]
  BY <1>2, <1>3, <1>7, <1>i, MemFields DEF UpInv, PlacedInv
<1>10. TypeInv'
  BY <1>1, <1>2, <1>3, <1>7, <1>8 DEF TypeInv, Calls
<1>11. SeqInv'
  <2>1. Mem[cur].ver <= adds
    BY <1>2, <1>3 DEF SeqInv
  <2>2. \A k \in Pages : added'[k] <= adds
    BY <1>1, <1>2, <1>8, <2>1 DEF SeqInv
  <2>3. \A j \in Slot : slots'[j].ver <= adds
    BY <1>2, <1>6, <1>7, <2>1 DEF SeqInv
  <2> QED BY <1>1, <1>2, <1>3, <1>7, <2>2, <2>3 DEF SeqInv
<1>12. HeaderCoversSlots'
  BY <1>2, <1>6, <1>7 DEF HeaderCoversSlots, LoadSucceeds
<1>13. PlacedInv'
  <2>1. Count' = Count
    BY <1>3 DEF Count
  <2> QED BY <1>1, <1>2, <1>3, <1>4, <2>1 DEF UpInv, PlacedInv
<1>14. CurInv' /\ CountInv'
  BY <1>1, <1>2, <1>3, <1>4, <1>7 DEF UpInv, CurInv, CountInv
<1>15. ImageInv'
  <2>1. \A k \in DOMAIN Mem \ {cur} : /\ slots[Mem[k].slot].key = k /\ slots[Mem[k].slot].valid /\ Mem[k].valid
                                      /\ slots[Mem[k].slot] = Image(k, Mem[k])
    BY <1>2, <1>3 DEF UpInv, ImageInv
  <2>2. \A k \in DOMAIN Mem : /\ slots'[Mem[k].slot].key = k /\ slots'[Mem[k].slot].valid /\ Mem[k].valid
                              /\ slots'[Mem[k].slot] = Image(k, Mem[k])
    BY <1>5, <1>6, <1>7, <1>9, <1>i, <1>g, <2>1
  <2> QED BY <1>3, <2>2 DEF ImageInv
<1>16. StaleInv'
  <2> SUFFICES ASSUME NEW k \in Pages \ excused, NEW j \in Loadable(k)', slots'[j].valid
               PROVE  k \in DOMAIN Mem /\ Mem[k].slot = j /\ ~(pc' = "slot" /\ k = cur')
    BY <1>1, <1>3 DEF StaleInv
  <2>1. CASE j = i
    BY <1>1, <1>3, <1>6, <1>7, <1>i, <2>1 DEF Loadable
  <2>2. CASE j # i
    <3>1. j \in Loadable(k) /\ slots[j].valid
      BY <1>7, <2>2 DEF Loadable
    <3> QED BY <1>1, <1>2, <1>3, <3>1 DEF UpInv, StaleInv
  <2> QED BY <2>1, <2>2
<1>17. NewestInv'
  <2> SUFFICES ASSUME NEW k \in Pages \ excused
               PROVE  /\ k \in DOMAIN Mem => Mem[k].ver >= data[k] /\ Mem[k].ver >= added'[k]
                      /\ k \in DOMAIN Mem \ Fresh =>
                           slots'[Mem[k].slot].ver >= data[k] /\ slots'[Mem[k].slot].ver >= added'[k]
                      /\ k \notin DOMAIN Mem \/ k \in Fresh => data[k] >= added'[k]
    BY <1>1, <1>3, <1>4, <1>7 DEF NewestInv
  <2>1. CASE k # cur
    <3>1. added'[k] = added[k]
      BY <1>8, <2>1
    <3>2. k \in DOMAIN Mem => slots'[Mem[k].slot] = slots[Mem[k].slot]
      BY <1>9, <2>1
    <3> QED BY <1>2, <1>3, <3>1, <3>2 DEF UpInv, NewestInv
  <2>2. CASE k = cur
    <3>1. Mem[k].ver >= data[k] /\ Mem[k].ver >= added[k] /\ slots'[Mem[k].slot].ver = Mem[k].ver
      BY <1>2, <1>3, <1>6, <1>7, <1>i, <2>2 DEF UpInv, NewestInv
    <3>2. CASE pc = "hit"
      <4>1. Mem[k].ver >= added'[k] /\ Fresh = {}
        BY <1>4, <1>5, <1>8, <2>2, <3>2
      <4> QED BY <1>3, <2>2, <3>1, <4>1
    <3>3. CASE pc = "slot"
      <4>1. added'[k] = added[k] /\ k \in Fresh
        BY <1>4, <1>8, <2>2, <3>3
      <4>2. data[k] >= added[k]
        BY <1>2, <4>1 DEF UpInv, NewestInv
      <4> QED BY <3>1, <4>1, <4>2
    <3> QED BY <1>1, <3>2, <3>3
  <2> QED BY <2>1, <2>2
<1> QED BY <1>1, <1>2, <1>7, <1>10, <1>11, <1>12, <1>13, <1>14, <1>15, <1>16, <1>17 DEF IInv, UpInv

\* The count follows, and the slots it adds are all written.
LEMMA WriteHeaderInv == ASSUME IInv, WriteHeader PROVE IInv'
<1>1. /\ pc = "header" /\ pc' = IF Cardinality(Buffered) >= MaxPages THEN "sync" ELSE "idle"
      /\ added' = [added EXCEPT ![cur] = dblwr_pages[cur].ver]
      /\ UNCHANGED <<phase, dblwr_pages, slots, data, adds, excused, faults>>
      /\ IF dblwr_pages[cur].slot + 1 > page_cnt
           THEN page_cnt' = dblwr_pages[cur].slot + 1 /\ header' = page_cnt'
           ELSE UNCHANGED <<page_cnt, header>>
  BY DEF WriteHeader, PutHeader, files, counts
<1>2. phase = "up" /\ TypeInv /\ SeqInv /\ HeaderCoversSlots /\ UpInv
  BY <1>1 DEF IInv, TypeInv, RecInv
<1>3. /\ Mem = dblwr_pages /\ Mem' = Mem /\ Dirty = DOMAIN Mem /\ Dirty' = DOMAIN Mem /\ cur \in DOMAIN Mem
      /\ ~Clearing /\ ~Clearing' /\ Buffered = DOMAIN Mem /\ Buffered' = DOMAIN Mem /\ Fresh = {cur} /\ Fresh' = {}
  BY <1>1, <1>2 DEF Mem, Dirty, Clearing, Buffered, UpInv, CurInv, Fresh
<1>c. Count \in Nat /\ Count' = Count /\ Count = Cardinality(Buffered)
  BY <1>2, <1>3, CountNat DEF Count
<1>4. /\ Mem[cur].slot = Count - 1 /\ Mem[cur].slot \in Nat /\ cur \in Pages /\ Mem[cur].ver \in Nat
      /\ page_cnt \in Nat /\ header \in Nat /\ faults \in Nat
  BY <1>2, <1>3, MemFields DEF UpInv, PlacedInv, TypeInv
<1>5. /\ \A k \in DOMAIN Mem : /\ slots[Mem[k].slot].key = k /\ slots[Mem[k].slot].valid /\ Mem[k].valid
                               /\ slots[Mem[k].slot] = Image(k, Mem[k]) /\ slots[Mem[k].slot].ver = Mem[k].ver
                               /\ slots[Mem[k].slot] # Blank
  <2>1. \A k \in DOMAIN Mem : /\ slots[Mem[k].slot].key = k /\ slots[Mem[k].slot].valid /\ Mem[k].valid
                              /\ slots[Mem[k].slot] = Image(k, Mem[k])
    BY <1>1, <1>2, <1>3 DEF UpInv, ImageInv
  <2> QED BY <1>2, <2>1, MemFields, ImageFields
<1>6. \A i \in Slot : i < Count => \E k \in DOMAIN Mem : Mem[k].slot = i
  <2>1. \A i \in Slot : i < Count => i \in 0..(Count - 1)
    BY <1>c, Numbers
  <2> QED BY <1>2, <2>1 DEF UpInv, PlacedInv
<1>7. /\ page_cnt' \in Nat /\ header' \in Nat /\ page_cnt' <= header'
      /\ header' = Count \/ header' = header
      /\ \A k \in DOMAIN Mem : Mem[k].slot < page_cnt'
  <2>1. /\ page_cnt <= header /\ \A k \in DOMAIN Mem \ {cur} : Mem[k].slot < page_cnt
    BY <1>2, <1>3 DEF UpInv, CountInv
  <2>2. \A k \in DOMAIN Mem : Mem[k].slot \in Nat /\ Mem[k].slot < Count
    BY <1>2, MemFields DEF UpInv, PlacedInv
  <2>3. CASE Mem[cur].slot + 1 > page_cnt
    <3>1. page_cnt' = Count /\ header' = Count
      BY <1>1, <1>3, <1>4, <1>c, <2>3
    <3> QED BY <1>c, <2>2, <3>1
  <2>4. CASE ~(Mem[cur].slot + 1 > page_cnt)
    <3>1. page_cnt' = page_cnt /\ header' = header
      BY <1>1, <1>3, <2>4
    <3>2. Mem[cur].slot < page_cnt
      BY <1>4, <2>4
    <3> QED BY <1>4, <2>1, <3>1, <3>2
  <2> QED BY <2>3, <2>4
<1>8. /\ added' \in [Pages -> Nat] /\ \A k \in Pages \ {cur} : added'[k] = added[k]
      /\ added'[cur] = Mem[cur].ver
  BY <1>1, <1>2, <1>3, <1>4 DEF TypeInv
<1>9. pc' \in {"sync", "idle"} /\ (pc' = "idle" => Count < MaxPages + faults)
  <2>1. MaxPages \in Nat
    BY DwbAssumption
  <2> QED BY <1>1, <1>4, <1>c, <2>1
<1>10. TypeInv'
  BY <1>1, <1>2, <1>3, <1>7, <1>8, <1>9 DEF TypeInv, Calls
<1>11. SeqInv'
  BY <1>1, <1>2, <1>3, <1>8 DEF SeqInv
<1>12. HeaderCoversSlots'
  <2>1. CASE header' = header
    BY <1>1, <1>2, <2>1 DEF HeaderCoversSlots, LoadSucceeds
  <2>2. CASE header' = Count
    BY <1>1, <1>5, <1>6, <2>2 DEF HeaderCoversSlots, LoadSucceeds
  <2> QED BY <1>7, <2>1, <2>2
<1>13. PlacedInv'
  BY <1>1, <1>2, <1>3, <1>9, <1>c DEF UpInv, PlacedInv
<1>14. CurInv' /\ CountInv'
  BY <1>3, <1>7, <1>9 DEF CurInv, CountInv
<1>15. ImageInv'
  BY <1>1, <1>3, <1>5 DEF ImageInv
<1>16. StaleInv'
  <2> SUFFICES ASSUME NEW k \in Pages \ excused, NEW j \in Loadable(k)', slots[j].valid
               PROVE  k \in DOMAIN Mem /\ Mem[k].slot = j
    BY <1>1, <1>3, <1>9 DEF StaleInv
  <2>1. CASE header' = header
    <3>1. j \in Loadable(k)
      BY <1>1, <2>1 DEF Loadable
    <3> QED BY <1>2, <1>3, <3>1 DEF UpInv, StaleInv
  <2>2. CASE header' = Count
    <3>1. j \in Slot /\ j < Count /\ slots[j].key = k
      BY <1>1, <2>2 DEF Loadable
    <3>2. PICK l \in DOMAIN Mem : Mem[l].slot = j
      BY <1>6, <3>1
    <3> QED BY <1>5, <3>1, <3>2
  <2> QED BY <1>7, <2>1, <2>2
<1>17. NewestInv'
  <2> SUFFICES ASSUME NEW k \in Pages \ excused
               PROVE  /\ k \in DOMAIN Mem => Mem[k].ver >= data[k] /\ Mem[k].ver >= added'[k]
                      /\ k \notin DOMAIN Mem => data[k] >= added'[k]
    BY <1>1, <1>3, <1>5 DEF NewestInv
  <2>1. /\ k \in DOMAIN Mem => Mem[k].ver >= data[k] /\ Mem[k].ver >= added[k]
        /\ k \notin DOMAIN Mem => data[k] >= added[k]
    BY <1>2, <1>3 DEF UpInv, NewestInv
  <2>2. CASE k = cur
    BY <1>3, <1>4, <1>8, <2>1, <2>2
  <2>3. CASE k # cur
    BY <1>8, <2>1, <2>3
  <2> QED BY <2>2, <2>3
<1> QED BY <1>1, <1>2, <1>10, <1>11, <1>12, <1>13, <1>14, <1>15, <1>16, <1>17 DEF IInv, UpInv

-----------------------------------------------------------------------------
(***************************************************************************)
(* flush_page and clear_pages of a running process.                        *)
(***************************************************************************)

\* A page goes to its data file.
LEMMA WritePage ==
    ASSUME IInv, phase = "up", phase' = "up", NEW k \in Pages, k \in todo, PutData(k, Mem[k].ver), cur' = k,
           \/ pc = "flush" /\ pc' = "invalidate"
           \/ pc = "clear" /\ pc' = "clear_slot",
           UNCHANGED <<dblwr_pages, spec_pages, todo, page_cnt, adds, added, excused, faults>>
    PROVE  IInv'
<1>2. TypeInv /\ SeqInv /\ HeaderCoversSlots /\ UpInv
  BY DEF IInv
<1>3. /\ Mem' = Mem /\ Dirty = todo /\ Dirty' = todo /\ Fresh = {} /\ Fresh' = {} /\ (Clearing' <=> Clearing)
      /\ Buffered' = Buffered
  BY DEF Mem, Dirty, Clearing, Fresh, Buffered
<1>4. k \in DOMAIN Mem
  BY <1>2, <1>3 DEF UpInv, PlacedInv
<1>5. PICK v \in Nat : v = Mem[k].ver
  BY <1>2, <1>4, MemFields
<1>6. /\ data' \in [Pages -> {Torn} \cup Nat] /\ data'[k] = v
      /\ \A j \in Pages \ {k} : data'[j] = data[j]
      /\ UNCHANGED <<header, slots>>
  BY <1>2, <1>5, PutDataIs
<1>7. TypeInv' /\ HeaderCoversSlots'
  BY <1>2, <1>3, <1>6 DEF TypeInv, Calls, HeaderCoversSlots, LoadSucceeds
<1>8. SeqInv'
  BY <1>2, <1>3, <1>4, <1>5, <1>6 DEF SeqInv
<1>9. \A j \in Pages : data'[j] # Torn
  BY <1>2, <1>5, <1>6, Numbers DEF UpInv
<1>10. PlacedInv'
  <2>1. Count' = Count
    BY <1>3 DEF Count
  <2> QED BY <1>2, <1>3, <2>1 DEF UpInv, PlacedInv
<1>11. CurInv' /\ CountInv'
  BY <1>2, <1>3, <1>5, <1>6 DEF UpInv, CurInv, CountInv
<1>12. ImageInv'
  BY <1>2, <1>3, <1>6 DEF UpInv, ImageInv
<1>13. StaleInv'
  BY <1>2, <1>3, <1>6 DEF UpInv, StaleInv, Loadable
<1>14. NewestInv'
  <2>1. slots[Mem[k].slot].ver = v
    <3>1. slots[Mem[k].slot] = Image(k, Mem[k]) /\ Mem[k] \in MemPage
      BY <1>2, <1>3, <1>4, MemFields DEF UpInv, ImageInv
    <3> QED BY <1>5, <3>1, ImageFields
  <2> SUFFICES ASSUME NEW j \in Pages \ excused
               PROVE  /\ j \in todo => /\ Mem[j].ver >= data'[j] /\ Mem[j].ver >= added[j]
                                       /\ slots[Mem[j].slot].ver >= data'[j] /\ slots[Mem[j].slot].ver >= added[j]
                      /\ j \notin todo => data'[j] >= added[j]
    BY <1>3, <1>6 DEF NewestInv
  <2>2. /\ j \in todo => /\ Mem[j].ver >= data[j] /\ Mem[j].ver >= added[j]
                         /\ slots[Mem[j].slot].ver >= data[j] /\ slots[Mem[j].slot].ver >= added[j]
        /\ j \notin todo => data[j] >= added[j]
    BY <1>2, <1>3 DEF UpInv, NewestInv
  <2>3. CASE j = k
    <3>1. v >= v
      BY <1>5
    <3> QED BY <1>5, <1>6, <2>1, <2>2, <2>3, <3>1
  <2>4. CASE j # k
    BY <1>6, <2>2, <2>4
  <2> QED BY <2>3, <2>4
<1> QED BY <1>2, <1>7, <1>8, <1>9, <1>10, <1>11, <1>12, <1>13, <1>14 DEF IInv, UpInv

\* Then its slot is made invalid.
LEMMA MakeInvalid ==
    ASSUME IInv, phase = "up", phase' = "up", NEW image \in SlotImage, image # Blank,
           image.key = cur, image.ver = Mem[cur].ver, image.valid = FALSE,
           PutSlot(Mem[cur].slot, image), todo' = todo \ {cur},
           \/ pc = "invalidate" /\ pc' = "flush" /\ image = Image(cur, Mem'[cur])
           \/ pc = "clear_slot" /\ pc' = "clear",
           Clearing' => UNCHANGED dblwr_pages,
           DOMAIN Mem' = DOMAIN Mem, Mem' \in [DOMAIN Mem' -> MemPage],
           Mem'[cur].slot = Mem[cur].slot, Mem'[cur].ver = Mem[cur].ver,
           \A k \in DOMAIN Mem \ {cur} : Mem'[k] = Mem[k],
           UNCHANGED <<page_cnt, adds, added, excused, faults>>
    PROVE  IInv'
<1>2. TypeInv /\ SeqInv /\ HeaderCoversSlots /\ UpInv
  BY DEF IInv
<1>3. Dirty = todo /\ Dirty' = todo \ {cur} /\ Fresh = {} /\ Fresh' = {} /\ (Clearing' <=> Clearing)
  BY DEF Dirty, Clearing, Fresh
<1>4. cur \in todo /\ cur \in DOMAIN Mem /\ cur \in Pages /\ data[cur] = Mem[cur].ver
  BY <1>2, <1>3, MemFields DEF UpInv, PlacedInv, CurInv
<1>i. PICK i \in Slot : i = Mem[cur].slot
  BY <1>2, <1>4, MemFields
<1>5. /\ slots' \in [Slot -> SlotImage] /\ slots'[i] = image
      /\ \A j \in Slot \ {i} : slots'[j] = slots[j]
      /\ UNCHANGED <<header, data>>
  BY <1>2, <1>i, PutSlotIs
<1>6. /\ \A k \in DOMAIN Mem : Mem'[k].slot = Mem[k].slot /\ Mem'[k].ver = Mem[k].ver
      /\ \A k \in DOMAIN Mem \ {cur} : Mem[k].slot \in Slot \ {i} /\ slots'[Mem[k].slot] = slots[Mem[k].slot]
  BY <1>2, <1>4, <1>5, <1>i, MemFields DEF UpInv, PlacedInv
<1>7. TypeInv'
  BY <1>2, <1>5 DEF TypeInv, Calls
<1>8. SeqInv'
  BY <1>2, <1>4, <1>5, <1>6 DEF SeqInv
<1>9. HeaderCoversSlots'
  BY <1>2, <1>5 DEF HeaderCoversSlots, LoadSucceeds
<1>10. PlacedInv'
  <2>1. Count' = Count
    BY DEF Count
  <2>2. /\ IsFiniteSet(DOMAIN Mem') /\ Dirty' \subseteq DOMAIN Mem'
    BY <1>2, <1>3 DEF UpInv, PlacedInv
  <2>3. /\ \A k \in DOMAIN Mem' : Mem'[k].slot < Count'
        /\ \A j \in 0..(Count' - 1) : \E k \in DOMAIN Mem' : Mem'[k].slot = j
        /\ \A k, j \in DOMAIN Mem' : Mem'[k].slot = Mem'[j].slot => k = j
    BY <1>2, <1>6, <2>1 DEF UpInv, PlacedInv
  <2>4. Count' <= MaxPages + faults' /\ pc' \notin {"idle", "hit"} /\ (Clearing' => dblwr_pages' = NoPages)
    BY <1>2, <1>3, <2>1 DEF UpInv, PlacedInv
  <2> QED BY <1>3, <2>2, <2>3, <2>4 DEF PlacedInv
<1>11. CurInv' /\ CountInv'
  BY <1>2, <1>3, <1>5, <1>6 DEF UpInv, CurInv, CountInv
<1>12. ImageInv'
  <2>1. \A k \in DOMAIN Mem \ {cur} : /\ slots'[Mem'[k].slot].key = k
                                      /\ k \in Dirty' => slots'[Mem'[k].slot].valid /\ Mem'[k].valid
                                      /\ k \in Dirty' \/ ~Clearing' => slots'[Mem'[k].slot] = Image(k, Mem'[k])
    BY <1>2, <1>3, <1>6 DEF UpInv, ImageInv
  <2>2. slots'[Mem'[cur].slot] = image
    BY <1>5, <1>i
  <2>3. cur \notin Dirty' /\ (~Clearing' => image = Image(cur, Mem'[cur]))
    BY <1>3 DEF Clearing
  <2>4. \A k \in DOMAIN Mem' : /\ slots'[Mem'[k].slot].key = k
                               /\ k \in Dirty' => slots'[Mem'[k].slot].valid /\ Mem'[k].valid
                               /\ k \in Dirty' \/ ~Clearing' => slots'[Mem'[k].slot] = Image(k, Mem'[k])
    BY <2>1, <2>2, <2>3
  <2>5. Dirty' \subseteq DOMAIN Mem'
    BY <1>2, <1>3 DEF UpInv, PlacedInv
  <2> QED BY <2>4, <2>5 DEF ImageInv
<1>13. StaleInv'
  <2> SUFFICES ASSUME NEW k \in Pages \ excused, NEW j \in Loadable(k)', slots'[j].valid
               PROVE  k \in Dirty' /\ Mem'[k].slot = j
    BY DEF StaleInv
  <2>1. j \in Slot /\ j # i
    BY <1>5 DEF Loadable
  <2>2. j \in Loadable(k) /\ slots[j].valid
    BY <1>5, <2>1 DEF Loadable
  <2>3. k \in todo /\ Mem[k].slot = j /\ k \in DOMAIN Mem
    BY <1>2, <1>3, <2>2 DEF UpInv, StaleInv, PlacedInv
  <2>4. k # cur
    BY <1>i, <2>1, <2>3
  <2> QED BY <1>3, <1>6, <2>3, <2>4
<1>14. NewestInv'
  <2> SUFFICES ASSUME NEW k \in Pages \ excused
               PROVE  /\ k \in Dirty' => /\ Mem'[k].ver >= data[k] /\ Mem'[k].ver >= added[k]
                                         /\ slots'[Mem'[k].slot].ver >= data[k] /\ slots'[Mem'[k].slot].ver >= added[k]
                      /\ k \notin Dirty' => data[k] >= added[k]
    BY <1>3, <1>5 DEF NewestInv
  <2>1. /\ k \in todo => /\ Mem[k].ver >= data[k] /\ Mem[k].ver >= added[k]
                         /\ slots[Mem[k].slot].ver >= data[k] /\ slots[Mem[k].slot].ver >= added[k]
        /\ k \notin todo => data[k] >= added[k]
    BY <1>2, <1>3 DEF UpInv, NewestInv
  <2>2. CASE k = cur
    BY <1>3, <1>4, <2>1, <2>2
  <2>3. CASE k # cur
    <3>1. k \in todo => k \in DOMAIN Mem
      BY <1>2, <1>3 DEF UpInv, PlacedInv
    <3> QED BY <1>3, <1>6, <2>1, <2>3, <3>1
  <2> QED BY <2>2, <2>3
<1> QED BY <1>2, <1>5, <1>7, <1>8, <1>9, <1>10, <1>11, <1>12, <1>13, <1>14 DEF IInv, UpInv

LEMMA ClearPageInv == ASSUME IInv, NEW k \in Pages, ClearPage(k) PROVE IInv'
<1>1. /\ pc = "clear" /\ k \in todo /\ PutData(k, spec_pages[k].ver) /\ cur' = k /\ pc' = "clear_slot"
      /\ UNCHANGED <<phase, dblwr_pages, spec_pages, todo, page_cnt, adds, added, excused, faults>>
  BY DEF ClearPage, FirstPage, counts
<1>2. phase = "up" /\ Mem = spec_pages
  BY <1>1 DEF IInv, TypeInv, RecInv, Mem, Clearing
<1> QED BY <1>1, <1>2, WritePage

LEMMA ClearSlotInv == ASSUME IInv, ClearSlot PROVE IInv'
<1>1. /\ pc = "clear_slot" /\ pc' = "clear" /\ todo' = todo \ {cur}
      /\ PutSlot(spec_pages[cur].slot, [Image(cur, spec_pages[cur]) EXCEPT !.valid = FALSE])
      /\ UNCHANGED <<phase, dblwr_pages, spec_pages, page_cnt, adds, added, excused, faults>>
  BY DEF ClearSlot, counts
<1>2. phase = "up" /\ Mem = spec_pages /\ Mem' = Mem /\ TypeInv /\ UpInv
  BY <1>1 DEF IInv, TypeInv, RecInv, Mem, Clearing
<1>3. cur \in DOMAIN Mem
  BY <1>1, <1>2 DEF UpInv, CurInv, PlacedInv, Dirty, Clearing
<1>4. cur \in Pages /\ Mem[cur] \in MemPage /\ Mem[cur].ver \in Nat
  BY <1>2, <1>3, MemFields
<1>5. PICK old : old = Image(cur, spec_pages[cur])
  OBVIOUS
<1>6. old \in [key : Pages, ver : Nat, valid : BOOLEAN] /\ old.key = cur /\ old.ver = Mem[cur].ver
  BY <1>2, <1>4, <1>5 DEF Image, MemPage
<1>i. PICK image : image = [old EXCEPT !.valid = FALSE]
  OBVIOUS
<1>7. image.key = cur /\ image.ver = Mem[cur].ver /\ image.valid = FALSE /\ image \in SlotImage
  BY <1>6, <1>i DEF SlotImage
<1>8. image # Blank
  BY <1>4, <1>7, NobodyIsNoPage DEF Blank
<1>9. Mem' \in [DOMAIN Mem' -> MemPage]
  BY <1>2 DEF TypeInv
<1> QED BY <1>1, <1>2, <1>5, <1>i, <1>7, <1>8, <1>9, MakeInvalid

\* The pages that are not written lose their newest content.
LEMMA ClearFailsInv == ASSUME IInv, ClearFails PROVE IInv'
<1>1. /\ pc = "clear" /\ pc' = "clear" /\ excused' = excused \cup todo /\ todo' = {}
      /\ faults < MaxFaults /\ faults' = faults + 1
      /\ UNCHANGED <<phase, dblwr_pages, spec_pages, page_cnt, slots, header, data, adds, added>>
  BY DEF ClearFails, files
<1>2. phase = "up" /\ TypeInv /\ SeqInv /\ HeaderCoversSlots /\ UpInv
  BY <1>1 DEF IInv, TypeInv, RecInv
<1>3. /\ Mem' = Mem /\ Dirty = todo /\ Dirty' = {} /\ Fresh = {} /\ Fresh' = {} /\ Clearing /\ Clearing'
      /\ todo \subseteq DOMAIN Mem
  BY <1>1, <1>2 DEF Mem, Dirty, Clearing, Fresh, UpInv, PlacedInv
<1>c. Count' = Count /\ Count \in Nat
  BY <1>2, <1>3, CountNat DEF Count
<1>4. TypeInv'
  <2>1. faults' \in 0..MaxFaults
    BY <1>1, <1>2, DwbAssumption DEF TypeInv
  <2>2. excused' \subseteq Pages
    BY <1>1, <1>2, <1>3 DEF TypeInv
  <2> QED BY <1>1, <1>2, <1>3, <2>1, <2>2 DEF TypeInv
<1>5. SeqInv' /\ HeaderCoversSlots'
  BY <1>1, <1>2, <1>3 DEF SeqInv, HeaderCoversSlots, LoadSucceeds
<1>6. PlacedInv'
  <2>1. Count' <= MaxPages + faults'
    BY <1>1, <1>2, <1>c, DwbAssumption DEF UpInv, PlacedInv, TypeInv
  <2> QED BY <1>1, <1>2, <1>3, <1>c, <2>1 DEF UpInv, PlacedInv
<1>7. CurInv' /\ CountInv' /\ ImageInv'
  BY <1>1, <1>2, <1>3 DEF UpInv, CurInv, CountInv, ImageInv
<1>8. StaleInv'
  BY <1>1, <1>2, <1>3 DEF UpInv, StaleInv, Loadable
<1>9. NewestInv'
  BY <1>1, <1>2, <1>3 DEF UpInv, NewestInv
<1> QED BY <1>1, <1>2, <1>4, <1>5, <1>6, <1>7, <1>8, <1>9 DEF IInv, UpInv

-----------------------------------------------------------------------------
(***************************************************************************)
(* Recovery, and flush_page wherever it runs.                              *)
(***************************************************************************)
LEMMA RestartInv == ASSUME IInv, Restart PROVE IInv'
<1>1. /\ phase = "down" /\ phase' = "recovering" /\ pc' = "sync" /\ dblwr_pages' = Loaded /\ page_cnt' = header
      /\ UNCHANGED <<slots, header, data, adds, added, excused, faults>>
  BY DEF Restart, files, counts
<1>2. TypeInv /\ SeqInv /\ HeaderCoversSlots /\ FileInv
  BY <1>1 DEF IInv
<1>3. Mem' = Loaded /\ DOMAIN Mem' = {k \in Pages : Loadable(k) # {}} /\ Buffered' = DOMAIN Mem'
  BY <1>1 DEF Mem, Clearing, Buffered, Loaded
<1>4. ASSUME NEW k \in Pages, Loadable(k) # {}
      PROVE  /\ First(k, Loaded[k].slot) /\ Loaded[k] \in MemPage
             /\ slots[Loaded[k].slot] = Image(k, Loaded[k]) /\ Loaded[k].ver <= adds
  <2>1. PICK i : i = Least(Loadable(k))
    OBVIOUS
  <2>2. i \in Loadable(k) /\ i \in Slot /\ slots[i].key = k /\ First(k, i)
    <3>1. Loadable(k) \in SUBSET Slot
      BY DEF Loadable
    <3>2. i \in Loadable(k) /\ \A j \in Loadable(k) : i <= j
      BY <1>4, <2>1, <3>1, LeastIs
    <3> QED BY <3>2 DEF Loadable, First
  <2>3. Loaded[k] = [slot |-> i, ver |-> slots[i].ver, valid |-> slots[i].valid]
    BY <1>4, <2>1 DEF Loaded
  <2>4. slots[i].ver \in Nat /\ slots[i].valid \in BOOLEAN /\ slots[i] \in SlotImage /\ slots[i] # Blank
    BY <1>2, <2>2, SlotFields
  <2>5. slots[i] \in [key : Pages, ver : Nat, valid : BOOLEAN]
    <3>1. slots[i] # TornSlot
      BY <2>2, NobodyIsNoPage DEF TornSlot
    <3> QED BY <2>4, <3>1 DEF SlotImage
  <2>6. slots[i] = [key |-> k, ver |-> slots[i].ver, valid |-> slots[i].valid]
    BY <2>2, <2>5
  <2>7. Loaded[k] \in MemPage /\ Loaded[k].slot = i /\ Loaded[k].ver = slots[i].ver /\ Loaded[k].valid = slots[i].valid
    BY <2>2, <2>3, <2>4 DEF MemPage
  <2>8. slots[i] = Image(k, Loaded[k])
    BY <2>6, <2>7 DEF Image
  <2>9. slots[i].ver <= adds
    BY <1>2, <2>2 DEF SeqInv
  <2> QED BY <2>2, <2>7, <2>8, <2>9
<1>5. TypeInv'
  <2>1. \A k \in DOMAIN Mem' : Mem'[k] \in MemPage
    BY <1>3, <1>4
  <2>2. Mem' = [k \in DOMAIN Mem' |-> Mem'[k]]
    BY <1>3 DEF Loaded
  <2>3. Mem' \in [DOMAIN Mem' -> MemPage]
    BY <2>1, <2>2
  <2> QED BY <1>1, <1>2, <1>3, <2>3 DEF TypeInv, Calls
<1>6. SeqInv'
  BY <1>1, <1>2, <1>3, <1>4 DEF SeqInv
<1>7. HeaderCoversSlots' /\ FileInv'
  BY <1>1, <1>2 DEF HeaderCoversSlots, LoadSucceeds, FileInv, First, Loadable
<1>8. RecInv'
  <2>1. \A k \in Pages : /\ Loadable(k)' = Loadable(k)
                         /\ \A i : First(k, i)' <=> First(k, i)
    BY <1>1 DEF Loadable, First
  <2>2. \A k \in Pages : k \in Buffered' <=> Loadable(k)' # {}
    BY <1>3, <2>1
  <2>3. ASSUME NEW k \in Buffered'
        PROVE  First(k, dblwr_pages[k].slot)' /\ slots'[dblwr_pages'[k].slot] = Image(k, dblwr_pages'[k])
    <3>1. k \in Pages /\ Loadable(k) # {}
      BY <1>3
    <3>2. PICK i : i = dblwr_pages'[k].slot
      OBVIOUS
    <3>3. First(k, i)
      BY <1>1, <1>4, <3>1, <3>2
    <3>4. i \in Loadable(k)' /\ \A j \in Loadable(k)' : i <= j
      BY <2>1, <3>1, <3>3 DEF First
    <3>5. First(k, dblwr_pages[k].slot)'
      BY <3>2, <3>4 DEF First
    <3> QED BY <1>1, <1>4, <3>1, <3>5
  <2> QED BY <1>1, <2>2, <2>3 DEF RecInv
<1> QED BY <1>1, <1>5, <1>6, <1>7, <1>8 DEF IInv

LEMMA SyncFilesInv == ASSUME IInv, SyncFiles PROVE IInv'
<1>1. /\ pc = "sync" /\ pc' = "flush" /\ todo' = Buffered
      /\ UNCHANGED <<phase, dblwr_pages, page_cnt, slots, header, data, adds, added, excused, faults>>
  BY DEF SyncFiles, counts
<1>2. phase \in {"up", "recovering"}
  BY <1>1 DEF IInv, TypeInv
<1>3. Mem' = Mem /\ Dirty = DOMAIN Mem /\ Dirty' = DOMAIN Mem /\ Buffered' = Buffered
  BY <1>1 DEF Mem, Dirty, Clearing, Buffered
<1>4. CASE phase = "up"
  <2>1. faults' \in faults..MaxFaults
    BY <1>1 DEF IInv, TypeInv
  <2> QED BY <1>1, <1>3, <1>4, <2>1, Quiet
<1>5. CASE phase = "recovering"
  <2>1. TypeInv' /\ SeqInv' /\ HeaderCoversSlots'
    BY <1>1, <1>3 DEF IInv, TypeInv, SeqInv, HeaderCoversSlots, LoadSucceeds, Calls
  <2>2. FileInv'
    BY <1>1, <1>5 DEF IInv, FileInv, First, Loadable
  <2>3. RecInv'
    BY <1>1, <1>3, <1>5 DEF IInv, RecInv, First, Loadable
  <2> QED BY <1>1, <1>5, <2>1, <2>2, <2>3 DEF IInv
<1> QED BY <1>2, <1>4, <1>5

LEMMA FirstUnique == ASSUME NEW k, NEW i, NEW j, First(k, i), First(k, j) PROVE i = j
<1>1. i \in Loadable(k) /\ j \in Loadable(k) /\ i <= j /\ j <= i
  BY DEF First
<1>2. i \in Nat /\ j \in Nat
  BY <1>1, Numbers DEF Loadable
<1> QED BY <1>1, <1>2

\* During recovery the image load_pages takes is the one in memory.
LEMMA RecPage ==
    ASSUME IInv, phase = "recovering", NEW k \in Pages, NEW i \in Slot, First(k, i)
    PROVE  /\ k \in Buffered /\ k \in DOMAIN Mem /\ Mem = dblwr_pages /\ Mem[k].slot = i
           /\ slots[i] = Image(k, Mem[k]) /\ slots[i].valid = Mem[k].valid /\ slots[i].ver = Mem[k].ver
<1>1. RecInv /\ Mem = dblwr_pages /\ Buffered = DOMAIN Mem
  BY DEF IInv, RecInv, Mem, Clearing, Buffered
<1>2. k \in Buffered
  BY <1>1 DEF RecInv, First
<1>3. First(k, dblwr_pages[k].slot) /\ slots[dblwr_pages[k].slot] = Image(k, dblwr_pages[k])
  BY <1>1, <1>2 DEF RecInv
<1>4. dblwr_pages[k].slot = i
  BY <1>3, FirstUnique
<1>5. Mem[k] \in MemPage
  BY <1>1, <1>2, MemFields DEF IInv
<1> QED BY <1>1, <1>2, <1>3, <1>4, <1>5, ImageFields

LEMMA FlushPageInv == ASSUME IInv, NEW k \in Pages, FlushPage(k) PROVE IInv'
<1>1. /\ pc = "flush" /\ pc' = "invalidate" /\ k \in todo /\ cur' = k
      /\ IF dblwr_pages[k].valid THEN PutData(k, dblwr_pages[k].ver) ELSE UNCHANGED <<slots, header, data>>
      /\ UNCHANGED <<phase, dblwr_pages, spec_pages, todo, page_cnt, adds, added, excused, faults>>
  BY DEF FlushPage, files, counts
<1>2. phase \in {"up", "recovering"} /\ Mem = dblwr_pages /\ Mem' = Mem /\ Buffered' = Buffered /\ TypeInv
  BY <1>1 DEF IInv, TypeInv, Mem, Clearing, Buffered
<1>3. CASE phase = "up"
  <2>1. Mem[k].valid
    BY <1>1, <1>3 DEF IInv, UpInv, ImageInv, Dirty
  <2> QED BY <1>1, <1>2, <1>3, <2>1, WritePage
<1>4. CASE phase = "recovering"
  <2>1. k \in Buffered /\ k \in DOMAIN Mem /\ RecInv /\ FileInv
    BY <1>1, <1>2, <1>4 DEF IInv, RecInv, Buffered
  <2>2. PICK v \in Nat : v = Mem[k].ver
    BY <1>2, <2>1, MemFields
  <2>i. PICK i \in Slot : i = Mem[k].slot
    BY <1>2, <2>1, MemFields
  <2>3. /\ data' \in [Pages -> {Torn} \cup Nat] /\ \A j \in Pages \ {k} : data'[j] = data[j]
        /\ data'[k] = IF Mem[k].valid THEN v ELSE data[k]
        /\ UNCHANGED <<slots, header>>
    <3>1. CASE Mem[k].valid
      BY <1>1, <1>2, <2>2, <3>1, PutDataIs
    <3>2. CASE ~Mem[k].valid
      BY <1>1, <1>2, <3>2 DEF TypeInv
    <3> QED BY <3>1, <3>2
  <2>4. /\ \A j \in Pages : Loadable(j)' = Loadable(j)
        /\ \A j \in Pages, l \in Slot : First(j, l)' <=> First(j, l)
    BY <2>3 DEF Loadable, First
  <2>5. /\ First(k, i) /\ slots[i] = Image(k, Mem[k]) /\ slots[i].valid = Mem[k].valid /\ slots[i].ver = v
    BY <1>2, <1>4, <2>1, <2>2, <2>i, RecPage DEF RecInv
  <2>6. TypeInv' /\ HeaderCoversSlots'
    BY <1>1, <1>2, <2>3 DEF IInv, TypeInv, Calls, HeaderCoversSlots, LoadSucceeds
  <2>7. SeqInv'
    BY <1>1, <1>2, <2>1, <2>2, <2>3 DEF IInv, SeqInv
  <2>8. FileInv'
    <3>1. ASSUME NEW j \in Pages, data'[j] = data[j]
          PROVE  /\ data'[j] = Torn => \E l \in Slot : First(j, l)' /\ slots'[l].valid
                 /\ \/ j \in excused'
                    \/ data'[j] >= added'[j] /\ (\A l \in Loadable(j)' : ~slots'[l].valid)
                    \/ \E l \in Slot :
                         /\ First(j, l)' /\ slots'[l].valid
                         /\ slots'[l].ver >= added'[j] /\ slots'[l].ver >= data'[j]
                         /\ \A m \in Loadable(j)' \ {l} : ~slots'[m].valid
      BY <1>1, <2>1, <2>3, <2>4, <3>1 DEF FileInv
    <3>2. CASE ~Mem[k].valid
      BY <2>3, <3>1, <3>2 DEF FileInv
    <3>3. CASE Mem[k].valid
      <4>1. data'[k] = v /\ data'[k] # Torn
        BY <2>2, <2>3, <3>3, Numbers
      <4>2. ASSUME k \notin excused'
            PROVE  /\ First(k, i)' /\ slots'[i].valid /\ slots'[i].ver >= added'[k] /\ slots'[i].ver >= data'[k]
                   /\ \A m \in Loadable(k)' \ {i} : ~slots'[m].valid
        <5>1. i \in Loadable(k) /\ slots[i].valid
          BY <2>5, <3>3 DEF First
        <5>2. PICK l \in Slot : /\ First(k, l) /\ slots[l].valid
                                /\ slots[l].ver >= added[k] /\ slots[l].ver >= data[k]
                                /\ \A m \in Loadable(k) \ {l} : ~slots[m].valid
          BY <1>1, <2>1, <4>2, <5>1 DEF FileInv
        <5>3. l = i
          BY <5>1, <5>2
        <5>4. v >= v
          BY <2>2
        <5> QED BY <1>1, <2>3, <2>4, <2>5, <4>1, <5>1, <5>2, <5>3, <5>4
      <4> QED BY <2>3, <3>1, <4>1, <4>2 DEF FileInv
    <3> QED BY <3>2, <3>3
  <2>9. RecInv'
    <3>1. \A j \in Buffered : First(j, dblwr_pages[j].slot)'
      <4>1. \A j \in Buffered : j \in Pages /\ dblwr_pages[j].slot \in Slot
        BY <1>2, MemFields DEF Buffered
      <4> QED BY <1>1, <2>1, <2>3, <4>1 DEF RecInv, First, Loadable
    <3>2. dblwr_pages[k].valid => data'[k] = dblwr_pages[k].ver
      BY <1>2, <2>2, <2>3
    <3> QED BY <1>1, <1>2, <2>1, <2>3, <2>4, <3>1, <3>2 DEF RecInv
  <2> QED BY <1>1, <1>4, <2>6, <2>7, <2>8, <2>9 DEF IInv
<1> QED BY <1>2, <1>3, <1>4

LEMMA InvalidateInv == ASSUME IInv, Invalidate PROVE IInv'
<1>1. /\ pc = "invalidate" /\ pc' = "flush" /\ todo' = todo \ {cur}
      /\ dblwr_pages' = [dblwr_pages EXCEPT ![cur].valid = FALSE]
      /\ PutSlot(dblwr_pages[cur].slot, Image(cur, dblwr_pages'[cur]))
      /\ UNCHANGED <<phase, spec_pages, page_cnt, adds, added, excused, faults>>
  BY DEF Invalidate, counts
<1>2. /\ phase \in {"up", "recovering"} /\ Mem = dblwr_pages /\ Mem' = dblwr_pages' /\ TypeInv /\ ~Clearing'
      /\ Buffered = DOMAIN Mem /\ Buffered' = DOMAIN Mem'
  BY <1>1 DEF IInv, TypeInv, Mem, Clearing, Buffered
<1>3. cur \in DOMAIN Mem /\ cur \in todo
  <2>1. CASE phase = "up"
    BY <1>1, <2>1 DEF IInv, UpInv, CurInv, PlacedInv, Dirty
  <2>2. CASE phase = "recovering"
    BY <1>1, <1>2, <2>2 DEF IInv, RecInv
  <2> QED BY <1>2, <2>1, <2>2
<1>4. /\ DOMAIN Mem' = DOMAIN Mem /\ Mem' \in [DOMAIN Mem' -> MemPage]
      /\ Mem'[cur].slot = Mem[cur].slot /\ Mem'[cur].ver = Mem[cur].ver /\ Mem'[cur].valid = FALSE
      /\ \A k \in DOMAIN Mem \ {cur} : Mem'[k] = Mem[k]
  <2>1. Mem \in [DOMAIN Mem -> MemPage] /\ Mem' = [Mem EXCEPT ![cur].valid = FALSE]
    BY <1>1, <1>2 DEF TypeInv
  <2>2. PICK f, g, k : f = Mem /\ g = Mem' /\ k = cur
    OBVIOUS
  <2>3. f \in [DOMAIN f -> MemPage] /\ k \in DOMAIN f /\ g = [f EXCEPT ![k] = [f[k] EXCEPT !.valid = FALSE]]
    BY <1>3, <2>1, <2>2
  <2>4. PICK p : p = [f[k] EXCEPT !.valid = FALSE]
    OBVIOUS
  <2>5. f[k] \in MemPage
    BY <2>3
  <2>6. p \in MemPage /\ p.slot = f[k].slot /\ p.ver = f[k].ver /\ p.valid = FALSE
    BY <2>4, <2>5 DEF MemPage
  <2>7. g = [f EXCEPT ![k] = p]
    BY <2>3, <2>4
  <2>8. /\ DOMAIN g = DOMAIN f /\ g \in [DOMAIN g -> MemPage] /\ g[k] = p
        /\ \A j \in DOMAIN f \ {k} : g[j] = f[j]
    BY <2>3, <2>6, <2>7
  <2> QED BY <2>2, <2>6, <2>8
<1>5. cur \in Pages /\ Mem'[cur] \in MemPage /\ Mem[cur].ver \in Nat
  BY <1>2, <1>3, <1>4, MemFields
<1>g. PICK g : g = Image(cur, Mem'[cur])
  OBVIOUS
<1>6. g \in SlotImage /\ g # Blank /\ g.key = cur /\ g.ver = Mem[cur].ver /\ g.valid = FALSE
  BY <1>4, <1>5, <1>g, ImageFields
<1>7. PutSlot(Mem[cur].slot, g)
  BY <1>1, <1>2, <1>g
<1>8. CASE phase = "up"
  BY <1>1, <1>2, <1>4, <1>6, <1>7, <1>8, <1>g, MakeInvalid
<1>9. CASE phase = "recovering"
  <2>1. RecInv /\ FileInv
    BY <1>9 DEF IInv
  <2>i. PICK i \in Slot : i = Mem[cur].slot
    BY <1>2, <1>3, MemFields
  <2>2. /\ slots' \in [Slot -> SlotImage] /\ slots'[i] = g
        /\ \A j \in Slot \ {i} : slots'[j] = slots[j]
        /\ UNCHANGED <<header, data>>
    BY <1>2, <1>6, <1>7, <2>i, PutSlotIs
  <2>3. First(cur, i) /\ slots[i].key = cur /\ slots[i].valid = Mem[cur].valid /\ slots[i].ver = Mem[cur].ver
    <3>1. First(cur, i)
      BY <1>2, <1>3, <2>1, <2>i DEF RecInv
    <3> QED BY <1>5, <1>9, <3>1, RecPage DEF First, Loadable
  <2>4. \A k \in Pages : Loadable(k)' = Loadable(k)
    BY <1>6, <2>2, <2>3 DEF Loadable
  <2>5. \A k \in Pages, l \in Slot : First(k, l)' <=> First(k, l)
    BY <2>4 DEF First
  <2>6. \A k \in Pages \ {cur} : \A l \in Loadable(k) : l \in Slot /\ l # i /\ slots'[l] = slots[l]
    BY <2>2, <2>3 DEF Loadable
  <2>7. TypeInv'
    BY <1>1, <1>2, <1>4, <2>2 DEF TypeInv, Calls
  <2>8. SeqInv'
    BY <1>1, <1>3, <1>4, <1>6, <2>2 DEF IInv, SeqInv
  <2>9. HeaderCoversSlots'
    BY <1>6, <2>2 DEF IInv, HeaderCoversSlots, LoadSucceeds
  <2>10. data[cur] # Torn
    <3>1. CASE Mem[cur].valid
      BY <1>1, <1>2, <1>5, <2>1, <3>1, Numbers DEF RecInv
    <3>2. CASE ~Mem[cur].valid
      BY <1>5, <2>1, <2>3, <3>2, FirstUnique DEF FileInv
    <3> QED BY <3>1, <3>2
  <2>11. ASSUME cur \notin excused
         PROVE  data[cur] >= added[cur] /\ \A l \in Loadable(cur) : ~slots'[l].valid
    <3>1. CASE Mem[cur].valid
      <4>1. i \in Loadable(cur) /\ data[cur] = Mem[cur].ver
        BY <1>1, <1>2, <2>1, <2>3, <3>1 DEF First, RecInv
      <4>2. PICK l \in Slot : /\ First(cur, l) /\ slots[l].valid /\ slots[l].ver >= added[cur]
                              /\ \A m \in Loadable(cur) \ {l} : ~slots[m].valid
        BY <1>5, <2>1, <2>3, <2>11, <3>1, <4>1 DEF FileInv
      <4>3. l = i
        BY <2>3, <4>2, FirstUnique
      <4>4. \A m \in Loadable(cur) : m \in Slot
        BY DEF Loadable
      <4> QED BY <1>6, <2>2, <2>3, <4>1, <4>2, <4>3, <4>4
    <3>2. CASE ~Mem[cur].valid
      <4>1. data[cur] >= added[cur] /\ \A l \in Loadable(cur) : ~slots[l].valid
        BY <1>5, <2>1, <2>3, <2>11, <3>2, FirstUnique DEF FileInv
      <4>2. \A m \in Loadable(cur) : m \in Slot
        BY DEF Loadable
      <4> QED BY <1>6, <2>2, <4>1, <4>2
    <3> QED BY <3>1, <3>2
  <2>12. FileInv'
    <3>1. ASSUME NEW k \in Pages \ {cur}
          PROVE  /\ data'[k] = Torn => \E l \in Slot : First(k, l)' /\ slots'[l].valid
                 /\ \/ k \in excused'
                    \/ data'[k] >= added'[k] /\ (\A l \in Loadable(k)' : ~slots'[l].valid)
                    \/ \E l \in Slot :
                         /\ First(k, l)' /\ slots'[l].valid
                         /\ slots'[l].ver >= added'[k] /\ slots'[l].ver >= data'[k]
                         /\ \A m \in Loadable(k)' \ {l} : ~slots'[m].valid
      <4>1. \A l \in Slot : First(k, l) => First(k, l)' /\ slots'[l] = slots[l]
        BY <2>5, <2>6 DEF First
      <4>2. \A l \in Loadable(k)' : l \in Loadable(k) /\ slots'[l] = slots[l]
        BY <2>4, <2>6
      <4>3. /\ data[k] = Torn => \E l \in Slot : First(k, l) /\ slots[l].valid
            /\ \/ k \in excused
               \/ data[k] >= added[k] /\ (\A l \in Loadable(k) : ~slots[l].valid)
               \/ \E l \in Slot :
                    /\ First(k, l) /\ slots[l].valid
                    /\ slots[l].ver >= added[k] /\ slots[l].ver >= data[k]
                    /\ \A m \in Loadable(k) \ {l} : ~slots[m].valid
        BY <2>1 DEF FileInv
      <4> QED BY <1>1, <2>2, <4>1, <4>2, <4>3
    <3> QED BY <1>1, <2>2, <2>4, <2>10, <2>11, <3>1 DEF FileInv
  <2>13. RecInv'
    <3>1. \A k \in Pages : k \in Buffered' <=> Loadable(k)' # {}
      BY <1>2, <1>4, <2>1, <2>4 DEF RecInv
    <3>2. ASSUME NEW k \in Buffered'
          PROVE  First(k, dblwr_pages[k].slot)' /\ slots'[dblwr_pages'[k].slot] = Image(k, dblwr_pages'[k])
      <4>1. k \in DOMAIN Mem /\ k \in Pages /\ Mem'[k].slot = Mem[k].slot /\ Mem[k].slot \in Slot
        BY <1>2, <1>4, MemFields
      <4>2. First(k, Mem[k].slot) /\ slots[Mem[k].slot] = Image(k, Mem[k])
        BY <1>2, <2>1, <4>1 DEF RecInv
      <4>3. PICK l \in Slot : l = Mem[k].slot
        BY <4>1
      <4>4. First(k, l)'
        BY <2>5, <4>1, <4>2, <4>3
      <4>5. l \in Loadable(k)' /\ \A m \in Loadable(k)' : l <= m
        BY <4>4 DEF First
      <4>6. First(k, dblwr_pages[k].slot)'
        BY <1>2, <4>1, <4>3, <4>5 DEF First
      <4>7. slots'[l] = Image(k, Mem'[k])
        <5>1. CASE k = cur
          BY <1>g, <2>i, <2>2, <4>3, <5>1
        <5>2. CASE k # cur
          BY <1>4, <2>6, <4>1, <4>2, <4>3, <5>2 DEF First
        <5> QED BY <5>1, <5>2
      <4> QED BY <1>2, <4>1, <4>3, <4>6, <4>7
    <3>3. todo' \subseteq Buffered' /\ \A k \in Buffered' \ todo' : ~dblwr_pages'[k].valid
      BY <1>1, <1>2, <1>4, <2>1 DEF RecInv
    <3> QED BY <1>1, <3>1, <3>2, <3>3 DEF RecInv
  <2> QED BY <1>1, <1>9, <2>7, <2>8, <2>9, <2>12, <2>13 DEF IInv
<1> QED BY <1>2, <1>8, <1>9

LEMMA FlushEndInv == ASSUME IInv, FlushEnd PROVE IInv'
<1>1. /\ pc = "flush" /\ todo = {} /\ dblwr_pages' = NoPages /\ page_cnt' = 0 /\ phase' = "up" /\ pc' = "idle"
      /\ UNCHANGED <<slots, header, data, adds, added, excused, faults>>
  BY DEF FlushEnd, files, counts
<1>2. phase \in {"up", "recovering"} /\ Buffered' = {}
  BY <1>1 DEF IInv, TypeInv, Buffered, NoPages
<1>3. page_cnt' \in Nat /\ page_cnt' <= header
  BY <1>1 DEF IInv, TypeInv
<1>4. CASE phase = "up"
  <2>1. Dirty = {}
    BY <1>1 DEF Dirty
  <2>2. /\ \A k \in Pages : data[k] # Torn
        /\ \A k \in Pages \ excused : data[k] >= added[k] /\ \A i \in Loadable(k) : ~slots[i].valid
    BY <1>4, <2>1 DEF IInv, UpInv, StaleInv, NewestInv
  <2> QED BY <1>1, <1>2, <1>3, <2>2, Emptied
<1>5. CASE phase = "recovering"
  <2>1. ASSUME NEW k \in Pages, NEW i \in Slot, First(k, i) PROVE ~slots[i].valid
    <3>1. k \in Buffered /\ Mem = dblwr_pages /\ slots[i].valid = Mem[k].valid
      BY <1>5, <2>1, RecPage
    <3>2. ~dblwr_pages[k].valid
      BY <1>1, <1>5, <3>1 DEF IInv, RecInv
    <3> QED BY <3>1, <3>2
  <2>2. /\ \A k \in Pages : data[k] # Torn
        /\ \A k \in Pages \ excused : data[k] >= added[k] /\ \A i \in Loadable(k) : ~slots[i].valid
    BY <1>5, <2>1 DEF IInv, FileInv
  <2> QED BY <1>1, <1>2, <1>3, <2>2, Emptied
<1> QED BY <1>2, <1>4, <1>5

LEMMA FlushFailsInv == ASSUME IInv, NEW k \in Pages, FlushFails(k) PROVE IInv'
<1>1. /\ pc = "flush" /\ faults < MaxFaults /\ faults' = faults + 1
      /\ UNCHANGED <<slots, header, data, adds, added, excused>> /\ UNCHANGED files
  BY DEF FlushFails, files
<1>2. phase \in {"up", "recovering"} /\ faults \in Nat /\ faults' \in 0..MaxFaults /\ faults' \in faults..MaxFaults
  BY <1>1, DwbAssumption DEF IInv, TypeInv
<1>3. CASE todo # Buffered
  <2>1. phase' = "undefined" /\ pc' = "idle" /\ UNCHANGED <<dblwr_pages, page_cnt>>
    BY <1>3 DEF FlushFails
  <2>2. Mem' = Mem
    BY <1>1, <2>1 DEF Mem, Clearing
  <2>3. TypeInv' /\ SeqInv' /\ HeaderCoversSlots'
    BY <1>1, <1>2, <2>1, <2>2 DEF IInv, TypeInv, SeqInv, HeaderCoversSlots, LoadSucceeds, Calls
  <2> QED BY <2>1, <2>3 DEF IInv
<1>4. CASE todo = Buffered /\ phase = "up"
  <2>1. phase' = "up" /\ pc' = "idle" /\ UNCHANGED <<dblwr_pages, page_cnt>>
    BY <1>4 DEF FlushFails
  <2>2. Mem' = Mem /\ Dirty = DOMAIN Mem /\ Dirty' = DOMAIN Mem
    BY <1>1, <1>4, <2>1 DEF Mem, Clearing, Dirty, Buffered
  <2>3. Count < MaxPages + faults'
    <3>1. Count \in Nat /\ Count <= MaxPages + faults /\ MaxPages \in Nat
      BY <1>4, CountNat, DwbAssumption DEF IInv, UpInv, PlacedInv
    <3> QED BY <1>1, <1>2, <3>1
  <2> QED BY <1>1, <1>2, <1>4, <2>1, <2>2, <2>3, Quiet
<1>5. CASE todo = Buffered /\ phase = "recovering"
  <2>1. LoseMemory
    BY <1>5 DEF FlushFails
  <2> QED BY <1>1, <1>2, <2>1, StopsBetweenWrites
<1> QED BY <1>2, <1>3, <1>4, <1>5

-----------------------------------------------------------------------------
LEMMA InitInv == ASSUME Init PROVE IInv
<1>1. /\ phase = "down" /\ pc = "idle" /\ dblwr_pages = NoPages /\ page_cnt = 0 /\ header = 0
      /\ slots = [i \in Slot |-> Blank] /\ data = [k \in Pages |-> 0] /\ adds = 0
      /\ added = [k \in Pages |-> 0] /\ excused = {} /\ faults = 0
  BY DEF Init
<1>2. Mem = NoPages /\ DOMAIN Mem = {} /\ Mem \in [DOMAIN Mem -> MemPage]
  BY <1>1 DEF Mem, Clearing, NoPages
<1>3. \A i \in Slot : slots[i] = Blank /\ slots[i].ver = 0 /\ Blank \in SlotImage /\ ~(i < header)
  BY <1>1, Numbers DEF Blank, SlotImage
<1>4. TypeInv
  <2>1. slots \in [Slot -> SlotImage] /\ faults \in 0..MaxFaults
    BY <1>1, <1>3, DwbAssumption
  <2> QED BY <1>1, <1>2, <2>1 DEF TypeInv, Calls
<1>5. SeqInv /\ HeaderCoversSlots
  BY <1>1, <1>2, <1>3 DEF SeqInv, HeaderCoversSlots, LoadSucceeds
<1>6. FileInv
  <2>1. \A k \in Pages : Loadable(k) = {} /\ data[k] = 0 /\ added[k] = 0
    BY <1>1, <1>3 DEF Loadable
  <2> QED BY <2>1, Numbers DEF FileInv
<1> QED BY <1>1, <1>4, <1>5, <1>6 DEF IInv

LEMMA NextInv == ASSUME CloseShared = FALSE, IInv, [Next]_vars PROVE IInv'
<1>1. CASE UNCHANGED vars
  <2>1. UNCHANGED <<phase, dblwr_pages, spec_pages, page_cnt, pc, cur, todo, slots, header, data, adds, added, excused, faults>>
    BY <1>1 DEF vars, memory, files, counts
  <2>2. TypeInv' /\ SeqInv' /\ HeaderCoversSlots' /\ FileInv' = FileInv /\ RecInv' = RecInv /\ UpInv' = UpInv
    BY <2>1 DEF IInv, TypeInv, SeqInv, HeaderCoversSlots, LoadSucceeds, FileInv, RecInv, UpInv, PlacedInv, CurInv,
                CountInv, ImageInv, StaleInv, NewestInv, Mem, Dirty, Fresh, Count, Clearing, Buffered, First, Loadable
  <2> QED BY <2>1, <2>2 DEF IInv
<1>2. CASE Next
  <2>1. ASSUME NEW k \in Pages, AddPage(k) PROVE IInv'
    BY <2>1, AddHit, AddNew
  <2>2. ASSUME NEW k \in Pages, FlushPage(k) \/ FlushFails(k) \/ ClearPage(k) \/ CrashTearsPage(k) PROVE IInv'
    BY <2>2, FlushPageInv, FlushFailsInv, ClearPageInv, CrashTearsPageInv
  <2>3. ASSUME NEW p \in Pools, ClearPages(p) \/ OpenPool(p) PROVE IInv'
    BY <2>3, ClearPagesInv, SnapshotInv
  <2>4. CASE WriteHit \/ WriteSlot \/ WriteHeader
    BY <2>4, WriteImageInv, WriteHeaderInv
  <2>5. CASE Undefined
    BY <1>1, <2>5 DEF Undefined
  <2>6. CASE Snapshot \/ SyncFiles \/ Invalidate \/ FlushEnd
    BY <2>6, SnapshotInv, SyncFilesInv, InvalidateInv, FlushEndInv
  <2>7. CASE ClearSlot \/ ClearFails \/ ClearEnd
    BY <2>7, ClearSlotInv, ClearFailsInv, ClearEndInv
  <2>8. CASE Restart \/ Shutdown \/ Crash \/ CrashTearsSlot
    BY <2>8, RestartInv, CrashInv, CrashTearsSlotInv
  <2> QED BY <1>2, <2>1, <2>2, <2>3, <2>4, <2>5, <2>6, <2>7, <2>8 DEF Next
<1> QED BY <1>1, <1>2

LEMMA Invariance == CloseShared = FALSE => (Spec => []IInv)
<1> SUFFICES ASSUME CloseShared = FALSE PROVE Spec => []IInv
  OBVIOUS
<1>1. Init => IInv
  BY InitInv
<1>2. IInv /\ [Next]_vars => IInv'
  BY NextInv
<1> QED BY <1>1, <1>2, PTL DEF Spec

-----------------------------------------------------------------------------
(***************************************************************************)
(* The theorems.                                                           *)
(***************************************************************************)

\* load_pages never meets a slot that is not in the file: the header never counts a slot that was not
\* written, whatever flushes, failures, crashes and restarts did to the count.
THEOREM HeaderAlwaysCovers == CloseShared = FALSE => (Spec => []HeaderCoversSlots)
<1>1. IInv => HeaderCoversSlots
  BY DEF IInv
<1> QED BY <1>1, Invariance, PTL

\* Once recovery is over no data page is torn, wherever the process died and however often, during
\* recovery too.
THEOREM AlwaysRecovered == CloseShared = FALSE => (Spec => []RecoveredIntact)
<1>1. IInv => RecoveredIntact
  BY DEF IInv, UpInv, RecoveredIntact
<1> QED BY <1>1, Invariance, PTL

\* Between the calls and while it flushes, the file has every buffered page as memory has it.
THEOREM FileAlwaysNewest == CloseShared = FALSE => (Spec => []FileHoldsNewest)
<1>1. IInv => FileHoldsNewest
  <2> SUFFICES ASSUME IInv, phase = "up", pc \in {"idle", "sync", "flush", "clear"}, NEW k \in Buffered
               PROVE  slots[dblwr_pages[k].slot] = Image(k, dblwr_pages[k])
    BY DEF FileHoldsNewest
  <2>1. UpInv
    BY DEF IInv
  <2>2. ~Clearing
    BY <2>1 DEF UpInv, PlacedInv, NoPages, Buffered
  <2>3. Mem = dblwr_pages /\ k \in DOMAIN Mem
    BY <2>2 DEF Mem, Buffered
  <2> QED BY <2>1, <2>2, <2>3 DEF UpInv, ImageInv
<1> QED BY <1>1, Invariance, PTL

\* What add_page has written is read back, also after a crash and a restart.
THEOREM NewestAlwaysSurvives == CloseShared = FALSE => (Spec => []NewestSurvives)
<1>1. IInv => NewestSurvives
  <2> SUFFICES ASSUME IInv, phase = "up", pc = "idle", NEW k \in Pages \ excused
               PROVE  Current(k) >= added[k]
    BY DEF NewestSurvives
  <2>1. UpInv /\ Mem = dblwr_pages /\ Dirty = Buffered
    BY DEF IInv, Mem, Dirty, Clearing
  <2> QED BY <2>1 DEF UpInv, NewestInv, Current
<1> QED BY <1>1, Invariance, PTL

LEMMA StepKeeps ==
    ASSUME CloseShared = FALSE, IInv, [Next]_vars, NEW k \in Pages \ excused, data'[k] # Torn
    PROVE  data'[k] >= data[k]
<1>t. TypeInv /\ data[k] \in Int
  BY Numbers DEF IInv, TypeInv
<1>1. CASE UNCHANGED data
  BY <1>t, <1>1
<1>2. ASSUME NEW j \in Pages, FlushPage(j) PROVE data'[k] >= data[k]
  <2>1. /\ pc = "flush" /\ j \in todo
        /\ PutData(j, dblwr_pages[j].ver) \/ UNCHANGED data
        /\ dblwr_pages[j].valid \/ UNCHANGED data
    BY <1>2 DEF FlushPage, files
  <2>2. CASE j # k \/ UNCHANGED data
    BY <1>t, <2>1, <2>2 DEF PutData, TypeInv
  <2>3. CASE j = k /\ PutData(j, dblwr_pages[j].ver) /\ dblwr_pages[j].valid
    <3>1. phase \in {"up", "recovering"} /\ Mem = dblwr_pages
      BY <2>1 DEF IInv, TypeInv, Mem, Clearing
    <3>2. data'[k] = Mem[k].ver
      BY <1>t, <2>3, <3>1 DEF PutData, TypeInv
    <3>3. CASE phase = "up"
      BY <2>1, <2>3, <3>2, <3>3 DEF IInv, UpInv, NewestInv, Dirty
    <3>4. CASE phase = "recovering"
      <4>1. k \in Buffered /\ RecInv /\ FileInv
        BY <2>1, <2>3, <3>4 DEF IInv, RecInv
      <4>2. PICK i \in Slot : i = Mem[k].slot
        BY <1>t, <3>1, <4>1, MemFields DEF Buffered
      <4>3. First(k, i)
        BY <3>1, <4>1, <4>2 DEF RecInv
      <4>4. slots[i].valid /\ slots[i].ver = Mem[k].ver /\ i \in Loadable(k)
        BY <2>3, <3>1, <3>4, <4>3, RecPage DEF First
      <4>5. slots[i].ver >= data[k]
        BY <4>1, <4>3, <4>4, FirstUnique DEF FileInv
      <4> QED BY <3>2, <4>4, <4>5
    <3> QED BY <3>1, <3>3, <3>4
  <2> QED BY <2>1, <2>2, <2>3
<1>3. ASSUME NEW j \in Pages, ClearPage(j) PROVE data'[k] >= data[k]
  <2>1. pc = "clear" /\ j \in todo /\ PutData(j, spec_pages[j].ver)
    BY <1>3 DEF ClearPage, FirstPage
  <2>2. CASE j # k
    BY <1>t, <2>1, <2>2 DEF PutData, TypeInv
  <2>3. CASE j = k
    <3>1. phase = "up" /\ Mem = spec_pages /\ Dirty = todo
      BY <2>1 DEF IInv, TypeInv, RecInv, Mem, Dirty, Clearing
    <3>2. data'[k] = Mem[k].ver
      BY <1>t, <2>1, <2>3, <3>1 DEF PutData, TypeInv
    <3> QED BY <2>1, <2>3, <3>1, <3>2 DEF IInv, UpInv, NewestInv
  <2> QED BY <2>2, <2>3
<1>4. ASSUME NEW j \in Pages, CrashTearsPage(j) PROVE data'[k] >= data[k]
  BY <1>4, <1>t DEF CrashTearsPage, PutData, TypeInv
<1>5. CASE UNCHANGED vars \/ Undefined
  BY <1>1, <1>5 DEF vars, files, Undefined
<1>6. ASSUME NEW j \in Pages, AddPage(j) \/ FlushFails(j) PROVE UNCHANGED data
  BY <1>6 DEF AddPage, FlushFails, files
<1>7. ASSUME NEW p \in Pools, ClearPages(p) \/ OpenPool(p) PROVE UNCHANGED data
  BY <1>7 DEF ClearPages, OpenPool, files
<1>8. CASE WriteHit \/ WriteSlot \/ WriteHeader
  BY <1>1, <1>8 DEF WriteHit, WriteSlot, WriteHeader, PutSlot, PutHeader, files
<1>9. CASE Snapshot \/ SyncFiles \/ Invalidate \/ FlushEnd \/ ClearSlot \/ ClearFails \/ ClearEnd
  BY <1>1, <1>9 DEF Snapshot, SyncFiles, Invalidate, FlushEnd, ClearSlot, ClearFails, ClearEnd, PutSlot, files
<1>10. CASE Restart \/ Shutdown \/ Crash \/ CrashTearsSlot
  BY <1>1, <1>10 DEF Restart, Shutdown, Crash, CrashTearsSlot, PutSlot, files
<1> QED BY <1>1, <1>2, <1>3, <1>4, <1>5, <1>6, <1>7, <1>8, <1>9, <1>10 DEF Next

\* A data file is never overwritten with older content, by recovery either.
THEOREM NeverRegresses == CloseShared = FALSE => (Spec => NeverRegress)
<1> SUFFICES ASSUME CloseShared = FALSE PROVE Spec => NeverRegress
  OBVIOUS
<1>1. IInv /\ [Next]_vars => [\A k \in Pages \ excused : data'[k] # Torn => data'[k] >= data[k]]_vars
  BY StepKeeps
<1>2. Spec => []IInv
  BY Invariance
<1> QED BY <1>1, <1>2, PTL DEF Spec, NeverRegress

-----------------------------------------------------------------------------
(***************************************************************************)
(* The store the buffer pools see.  What recovery makes of a page is, in   *)
(* a running process, the content in memory while the page is dirty, and   *)
(* the data file otherwise (UpRecov), which is what load_page reads as     *)
(* well (Settled), except for the page add_page is writing.                *)
(***************************************************************************)

\* What the next start makes of page k.
Recov(k)  == IF k \in DOMAIN Loaded /\ Loaded[k].valid THEN Loaded[k].ver ELSE data[k]
View(k)   == IF k[1] \in Usable THEN Current(k) ELSE Recov(k)
Usual     == phase \in {"down", "recovering", "up"}
ValidOf(k) == {i \in Loadable(k) : slots[i].valid}

\* What the calls rely on: a flushed page is in its data file, add_page is called with an open pool,
\* recovery opens all of them, and clear_pages works on pages of the pool that is closed.
FlushedInv == phase = "up" /\ pc \in {"flush", "invalidate"} => \A k \in Buffered \ todo : data[k] = dblwr_pages[k].ver
OpenInv    == /\ pc \in {"hit", "slot", "header"} => cur[1] \in open
              /\ phase = "recovering" => open = Pools
              /\ phase = "down" => open = {}
CloseInv   == /\ pc = "clear" => \A k \in todo : k[1] = cur
              /\ pc = "clear_slot" => \A k \in todo : k[1] = cur[1]
CallInv    == FlushedInv /\ OpenInv /\ CloseInv

RecovIs == Usual => \A k \in Intact : /\ \A i \in ValidOf(k) : Recov(k) = slots[i].ver
                                      /\ ValidOf(k) = {} => Recov(k) = data[k]
UpRecov == phase = "up" => \A k \in Intact \ Writing : Recov(k) = IF k \in Dirty THEN Mem[k].ver ELSE data[k]
RecRecov ==
    phase = "recovering" =>
      \A k \in Intact : Recov(k) = IF k \in Buffered /\ dblwr_pages[k].valid THEN dblwr_pages[k].ver ELSE data[k]
Settled == phase = "up" => \A k \in Intact \ Writing : View(k) = Recov(k)
StoreInv == IInv /\ CallInv /\ RecovIs /\ UpRecov /\ RecRecov /\ Settled

LEMMA LoadedIs ==
    ASSUME NEW k \in Pages
    PROVE  /\ k \in DOMAIN Loaded <=> Loadable(k) # {}
           /\ Loadable(k) # {} => Loaded[k].ver = slots[Least(Loadable(k))].ver
                                  /\ Loaded[k].valid = slots[Least(Loadable(k))].valid
  BY DEF Loaded

LEMMA RecovOne ==
    ASSUME TypeInv, FileInv, NEW k \in Intact
    PROVE  /\ \A i \in ValidOf(k) : Recov(k) = slots[i].ver
           /\ ValidOf(k) = {} => Recov(k) = data[k]
<1>1. k \in Pages /\ k \notin excused
  BY DEF Intact
<1>2. CASE Loadable(k) = {}
  BY <1>1, <1>2, LoadedIs DEF Recov, ValidOf
<1>3. CASE Loadable(k) # {}
  <2>1. Loadable(k) \in SUBSET Slot
    BY DEF Loadable
  <2>2. PICK l \in Slot : l = Least(Loadable(k)) /\ First(k, l)
    BY <1>3, <2>1, LeastIs DEF First
  <2>3. Recov(k) = IF slots[l].valid THEN slots[l].ver ELSE data[k]
    BY <1>1, <1>3, <2>2, LoadedIs DEF Recov
  <2>4. ASSUME NEW i \in ValidOf(k) PROVE Recov(k) = slots[i].ver
    <3>1. i \in Loadable(k) /\ slots[i].valid
      BY <2>4 DEF ValidOf
    <3>2. PICK m \in Slot : First(k, m) /\ \A j \in Loadable(k) \ {m} : ~slots[j].valid
      BY <1>1, <3>1 DEF FileInv
    <3>3. m = l /\ m = i
      BY <2>2, <3>1, <3>2, FirstUnique
    <3> QED BY <2>3, <3>1, <3>3
  <2>5. ASSUME ValidOf(k) = {} PROVE Recov(k) = data[k]
    <3>1. ~slots[l].valid
      BY <2>2, <2>5 DEF ValidOf, First
    <3> QED BY <2>3, <3>1
  <2> QED BY <2>4, <2>5
<1> QED BY <1>2, <1>3

LEMMA RecovIsOK == ASSUME IInv PROVE RecovIs
<1>1. Usual => TypeInv /\ FileInv
  BY FilesOK DEF IInv, Usual
<1> QED BY <1>1, RecovOne DEF RecovIs

LEMMA UpRecovOK == ASSUME IInv, RecovIs PROVE UpRecov
<1> SUFFICES ASSUME phase = "up", NEW k \in Intact, k \notin Writing
             PROVE  Recov(k) = IF k \in Dirty THEN Mem[k].ver ELSE data[k]
  BY DEF UpRecov
<1>1. TypeInv /\ UpInv /\ k \in Pages /\ k \notin excused /\ Usual
  BY DEF IInv, Intact, Usual
<1>2. CASE k \in Dirty
  <2>1. k \in DOMAIN Mem /\ k \notin Fresh /\ ~(pc = "slot" /\ k = cur) /\ ~(pc = "hit" /\ k = cur)
    BY <1>1, <1>2 DEF UpInv, PlacedInv, Fresh, Writing
  <2>2. PICK i \in Slot : i = Mem[k].slot
    BY <1>1, <2>1, MemFields
  <2>3. i < header /\ slots[i] = Image(k, Mem[k]) /\ slots[i].valid /\ Mem[k] \in MemPage
    BY <1>1, <1>2, <2>1, <2>2, Counted, MemFields DEF UpInv, ImageInv
  <2>4. slots[i].key = k /\ slots[i].ver = Mem[k].ver
    BY <1>1, <2>3, ImageFields
  <2>5. i \in ValidOf(k)
    BY <2>2, <2>3, <2>4 DEF ValidOf, Loadable
  <2> QED BY <1>1, <1>2, <2>4, <2>5 DEF RecovIs
<1>3. CASE k \notin Dirty
  <2>1. ValidOf(k) = {}
    BY <1>1, <1>3 DEF UpInv, StaleInv, ValidOf
  <2> QED BY <1>1, <1>3, <2>1 DEF RecovIs
<1> QED BY <1>2, <1>3

LEMMA RecRecovOK == ASSUME IInv, RecovIs PROVE RecRecov
<1> SUFFICES ASSUME phase = "recovering", NEW k \in Intact
             PROVE  Recov(k) = IF k \in Buffered /\ dblwr_pages[k].valid THEN dblwr_pages[k].ver ELSE data[k]
  BY DEF RecRecov
<1>1. TypeInv /\ RecInv /\ FileInv /\ k \in Pages /\ k \notin excused /\ Usual
  BY DEF IInv, Intact, Usual
<1>2. CASE ValidOf(k) = {}
  <2>1. ASSUME k \in Buffered, dblwr_pages[k].valid PROVE FALSE
    <3>1. First(k, dblwr_pages[k].slot)
      BY <1>1, <2>1 DEF RecInv
    <3>2. PICK i \in Slot : i = dblwr_pages[k].slot
      BY <3>1 DEF First, Loadable
    <3>3. slots[i].valid = dblwr_pages[k].valid /\ i \in Loadable(k)
      BY <1>1, <3>1, <3>2, RecPage DEF First
    <3> QED BY <1>2, <2>1, <3>3 DEF ValidOf
  <2> QED BY <1>1, <1>2, <2>1 DEF RecovIs
<1>3. CASE ValidOf(k) # {}
  <2>1. PICK i \in ValidOf(k) : TRUE
    BY <1>3
  <2>2. i \in Loadable(k) /\ slots[i].valid /\ i \in Slot
    BY <2>1 DEF ValidOf, Loadable
  <2>3. First(k, i)
    <3>1. PICK m \in Slot : First(k, m) /\ \A j \in Loadable(k) \ {m} : ~slots[j].valid
      BY <1>1, <2>2 DEF FileInv
    <3> QED BY <2>2, <3>1
  <2>4. k \in Buffered /\ dblwr_pages[k].valid /\ slots[i].ver = dblwr_pages[k].ver
    BY <1>1, <2>2, <2>3, RecPage
  <2> QED BY <1>1, <2>1, <2>4 DEF RecovIs
<1> QED BY <1>2, <1>3

LEMMA SettledOK == ASSUME IInv, CallInv, UpRecov PROVE Settled
<1> SUFFICES ASSUME phase = "up", NEW k \in Intact, k \notin Writing, k[1] \in Usable
             PROVE  Current(k) = Recov(k)
  BY DEF Settled, View
<1>1. UpInv /\ TypeInv /\ Recov(k) = IF k \in Dirty THEN Mem[k].ver ELSE data[k]
  BY DEF IInv, UpRecov
<1>2. CASE Clearing
  <2>1. Buffered = {}
    BY <1>1, <1>2 DEF UpInv, PlacedInv, Buffered, NoPages
  <2>2. k \notin todo
    BY <1>2 DEF Clearing, Usable, Closing, CallInv, CloseInv
  <2> QED BY <1>1, <1>2, <2>1, <2>2 DEF Current, Dirty
<1>3. CASE ~Clearing
  <2>1. Mem = dblwr_pages /\ Buffered = DOMAIN Mem
    BY <1>3 DEF Mem, Buffered
  <2>2. CASE k \in Dirty
    BY <1>1, <2>1, <2>2 DEF UpInv, PlacedInv, Current
  <2>3. CASE k \in Buffered /\ k \notin Dirty
    <3>1. pc \in {"flush", "invalidate"} /\ k \notin todo
      BY <1>3, <2>3 DEF Dirty
    <3> QED BY <1>1, <2>3, <3>1 DEF Current, CallInv, FlushedInv
  <2>4. CASE k \notin Buffered /\ k \notin Dirty
    BY <1>1, <2>4 DEF Current
  <2> QED BY <2>2, <2>3, <2>4
<1> QED BY <1>2, <1>3

LEMMA StoreInvOK == ASSUME IInv, CallInv PROVE StoreInv
  BY RecovIsOK, UpRecovOK, RecRecovOK, SettledOK DEF StoreInv

LEMMA CallFlush ==
    ASSUME IInv, CallInv, (\E k \in Pages : FlushPage(k)) \/ Invalidate
    PROVE  CallInv'
<1>1. /\ pc \in {"flush", "invalidate"} /\ pc' \in {"flush", "invalidate"} /\ UNCHANGED <<phase, open>>
  BY DEF FlushPage, Invalidate
<1>2. OpenInv' /\ CloseInv'
  BY <1>1 DEF CallInv, OpenInv, CloseInv
<1>3. ASSUME NEW k \in Pages, FlushPage(k) PROVE FlushedInv'
  <2>1. /\ k \in todo /\ UNCHANGED <<phase, dblwr_pages, todo>> /\ pc = "flush"
        /\ data' = data \/ PutData(k, dblwr_pages[k].ver)
    BY <1>3 DEF FlushPage, files
  <2>2. \A j \in Pages \ {k} : data'[j] = data[j]
    BY <2>1 DEF PutData, IInv, TypeInv
  <2>3. phase = "up" => Buffered \subseteq Pages
    BY <2>1 DEF IInv, TypeInv, Mem, Clearing, Buffered
  <2> QED BY <1>1, <2>1, <2>2, <2>3 DEF CallInv, FlushedInv, Buffered
<1>4. ASSUME Invalidate PROVE FlushedInv'
  <2> SUFFICES ASSUME phase' = "up", NEW k \in (Buffered \ todo)'
               PROVE  data'[k] = dblwr_pages'[k].ver
    BY DEF FlushedInv
  <2>0. phase = "up" /\ k \in Buffered' /\ k \notin todo'
    BY <1>1
  <2>1. /\ pc = "invalidate" /\ dblwr_pages' = [dblwr_pages EXCEPT ![cur].valid = FALSE]
        /\ todo' = todo \ {cur} /\ UNCHANGED data
    BY <1>4 DEF Invalidate, PutSlot
  <2>2. k \in Buffered /\ Mem = dblwr_pages /\ cur \in todo /\ data[cur] = Mem[cur].ver
    BY <2>0, <2>1 DEF Buffered, IInv, UpInv, CurInv, Mem, Clearing
  <2>3. dblwr_pages'[k].ver = dblwr_pages[k].ver
    <3>1. Mem[k] \in MemPage
      BY <2>2, MemFields DEF IInv, Buffered
    <3>2. CASE k # cur
      BY <2>1, <2>2, <3>2 DEF Buffered
    <3>3. CASE k = cur
      <4>1. dblwr_pages'[k] = [dblwr_pages[k] EXCEPT !.valid = FALSE]
        BY <2>1, <2>2, <3>3 DEF Buffered
      <4> QED BY <2>2, <3>1, <4>1 DEF MemPage
    <3> QED BY <3>2, <3>3
  <2>4. CASE k = cur
    BY <2>1, <2>2, <2>3, <2>4
  <2>5. CASE k # cur
    BY <2>0, <2>1, <2>2, <2>3, <2>5 DEF CallInv, FlushedInv
  <2> QED BY <2>4, <2>5
<1> QED BY <1>2, <1>3, <1>4 DEF CallInv

LEMMA CallNext == ASSUME IInv, CallInv, [Next]_vars PROVE CallInv'
<1>1. CASE UNCHANGED vars \/ Undefined
  BY <1>1 DEF vars, memory, files, Undefined, CallInv, FlushedInv, OpenInv, CloseInv, Buffered
<1>2. ASSUME NEW k \in Pages, AddPage(k) PROVE CallInv'
  BY <1>2 DEF AddPage, CallInv, FlushedInv, OpenInv, CloseInv
<1>3. ASSUME NEW k \in Pages, FlushFails(k) PROVE CallInv'
  <2>1. phase' # "recovering" /\ pc' = "idle" /\ (phase' = "down" => open' = {})
    <3>1. phase \in {"up", "recovering"}
      BY <1>3 DEF FlushFails, IInv, TypeInv
    <3> QED BY <1>3, <3>1 DEF FlushFails, LoseMemory
  <2> QED BY <2>1 DEF CallInv, FlushedInv, OpenInv, CloseInv
<1>4. ASSUME NEW k \in Pages, ClearPage(k) PROVE CallInv'
  <2>1. pc = "clear" /\ pc' = "clear_slot" /\ k \in todo /\ cur' = k /\ UNCHANGED <<todo, phase, open>>
    BY <1>4 DEF ClearPage, FirstPage
  <2>2. phase = "up"
    BY <2>1 DEF IInv, TypeInv, RecInv
  <2> QED BY <2>1, <2>2 DEF CallInv, FlushedInv, OpenInv, CloseInv
<1>5. ASSUME NEW k \in Pages, CrashTearsPage(k) PROVE CallInv'
  BY <1>5 DEF CrashTearsPage, LoseMemory, CallInv, FlushedInv, OpenInv, CloseInv
<1>6. CASE Crash \/ Shutdown \/ CrashTearsSlot
  BY <1>6 DEF Crash, Shutdown, CrashTearsSlot, LoseMemory, CallInv, FlushedInv, OpenInv, CloseInv
<1>7. ASSUME NEW p \in Pools, ClearPages(p) \/ OpenPool(p) PROVE CallInv'
  BY <1>7 DEF ClearPages, OpenPool, Of, CallInv, FlushedInv, OpenInv, CloseInv
<1>8. CASE WriteHit \/ WriteSlot \/ WriteHeader
  <2>1. phase = "up"
    BY <1>8 DEF WriteHit, WriteSlot, WriteHeader, IInv, TypeInv, RecInv
  <2>2. phase' = "up" /\ pc' \in {"idle", "header", "sync"} /\ open' = open /\ (pc' = "header" => cur' = cur /\ pc = "slot")
    BY <1>8, <2>1 DEF WriteHit, WriteSlot, WriteHeader
  <2> QED BY <2>2 DEF CallInv, FlushedInv, OpenInv, CloseInv
<1>9. CASE Snapshot \/ SyncFiles
  BY <1>9 DEF Snapshot, SyncFiles, CallInv, FlushedInv, OpenInv, CloseInv, Buffered
<1>10. CASE FlushEnd
  BY <1>10 DEF FlushEnd, CallInv, FlushedInv, OpenInv, CloseInv
<1>11. CASE ClearSlot \/ ClearFails \/ ClearEnd
  <2>1. phase = "up"
    BY <1>11 DEF ClearSlot, ClearFails, ClearEnd, IInv, TypeInv, RecInv
  <2> QED BY <1>11, <2>1 DEF ClearSlot, ClearFails, ClearEnd, CallInv, FlushedInv, OpenInv, CloseInv
<1>12. CASE Restart
  BY <1>12 DEF Restart, CallInv, FlushedInv, OpenInv, CloseInv
<1>13. CASE (\E k \in Pages : FlushPage(k)) \/ Invalidate
  BY <1>13, CallFlush
<1> QED BY <1>1, <1>2, <1>3, <1>4, <1>5, <1>6, <1>7, <1>8, <1>9, <1>10, <1>11, <1>12, <1>13 DEF Next

LEMMA RecovSame ==
    ASSUME NEW k \in Pages, UNCHANGED <<slots, header>>, data'[k] = data[k]
    PROVE  Recov(k)' = Recov(k) /\ ValidOf(k)' = ValidOf(k)
<1>1. \A j \in Pages : Loadable(j)' = Loadable(j)
  BY DEF Loadable
<1>2. Loaded' = Loaded
  BY <1>1 DEF Loaded, Least
<1> QED BY <1>1, <1>2 DEF Recov, ValidOf

LEMMA UpStep ==
    ASSUME UpRecov, UpRecov', phase = "up", phase' = "up", NEW k \in Intact \ Writing, k \in Intact', k \notin Writing',
           \/ k \in Dirty /\ k \in Dirty' /\ Mem'[k].ver = Mem[k].ver
           \/ k \in Dirty /\ k \notin Dirty' /\ data'[k] = Mem[k].ver
           \/ k \notin Dirty /\ k \notin Dirty' /\ data'[k] = data[k]
    PROVE  Recov(k)' = Recov(k)
<1>1. Recov(k) = IF k \in Dirty THEN Mem[k].ver ELSE data[k]
  BY DEF UpRecov
<1>2. Recov(k)' = IF k \in Dirty' THEN Mem'[k].ver ELSE data'[k]
  BY DEF UpRecov
<1> QED BY <1>1, <1>2

LEMMA RecStep ==
    ASSUME RecRecov, RecRecov', phase = "recovering", phase' = "recovering", NEW k \in Intact, k \in Intact',
           Buffered' = Buffered,
           \/ (k \in Buffered => dblwr_pages'[k] = dblwr_pages[k]) /\ data'[k] = data[k]
           \/ k \in Buffered /\ dblwr_pages'[k] = dblwr_pages[k] /\ dblwr_pages[k].valid
           \/ k \in Buffered /\ ~dblwr_pages'[k].valid /\ data'[k] = data[k]
              /\ (dblwr_pages[k].valid => data[k] = dblwr_pages[k].ver)
    PROVE  Recov(k)' = Recov(k)
<1>1. Recov(k) = IF k \in Buffered /\ dblwr_pages[k].valid THEN dblwr_pages[k].ver ELSE data[k]
  BY DEF RecRecov
<1>2. Recov(k)' = IF k \in Buffered' /\ dblwr_pages'[k].valid THEN dblwr_pages'[k].ver ELSE data'[k]
  BY DEF RecRecov
<1> QED BY <1>1, <1>2

LEMMA FlushKeeps ==
    ASSUME StoreInv, StoreInv', NEW j \in Pages, FlushPage(j) \/ ClearPage(j), NEW k \in Intact, k \in Intact'
    PROVE  Recov(k)' = Recov(k)
<1>1. IInv /\ UpRecov /\ UpRecov' /\ RecRecov /\ RecRecov' /\ TypeInv
  BY DEF StoreInv, IInv
<1>2. /\ \/ pc = "flush" /\ pc' = "invalidate" /\ (PutData(j, dblwr_pages[j].ver) \/ UNCHANGED data)
            /\ (dblwr_pages[j].valid \/ UNCHANGED data)
         \/ pc = "clear" /\ pc' = "clear_slot" /\ PutData(j, spec_pages[j].ver)
      /\ j \in todo /\ UNCHANGED <<phase, dblwr_pages, spec_pages, todo>>
  BY DEF FlushPage, ClearPage, FirstPage, files
<1>3. phase \in {"up", "recovering"} /\ (pc = "clear" => phase = "up")
  BY <1>1, <1>2 DEF IInv, TypeInv, RecInv
<1>4. k \notin Writing /\ k \notin Writing' /\ Mem' = Mem /\ Dirty = todo /\ Dirty' = todo
  BY <1>2 DEF Writing, Mem, Dirty, Clearing
<1>5. k # j => data'[k] = data[k]
  BY <1>1, <1>2 DEF PutData, TypeInv, Intact
<1>6. CASE phase = "up"
  BY <1>1, <1>2, <1>4, <1>5, <1>6, UpStep
<1>7. CASE phase = "recovering"
  <2>1. pc = "flush" /\ j \in Buffered /\ Buffered' = Buffered
    BY <1>1, <1>2, <1>3, <1>7 DEF IInv, RecInv, Buffered
  <2>2. \/ dblwr_pages'[k] = dblwr_pages[k] /\ data'[k] = data[k]
        \/ k \in Buffered /\ dblwr_pages'[k] = dblwr_pages[k] /\ dblwr_pages[k].valid
    BY <1>2, <1>5, <2>1
  <2> QED BY <1>1, <1>2, <1>7, <2>1, <2>2, RecStep
<1> QED BY <1>3, <1>6, <1>7

LEMMA InvalidKeeps ==
    ASSUME StoreInv, StoreInv', Invalidate \/ ClearSlot, NEW k \in Intact, k \in Intact'
    PROVE  Recov(k)' = Recov(k)
<1>1. IInv /\ UpRecov /\ UpRecov' /\ RecRecov /\ RecRecov' /\ TypeInv
  BY DEF StoreInv, IInv
<1>2. /\ \/ pc = "invalidate" /\ pc' = "flush" /\ dblwr_pages' = [dblwr_pages EXCEPT ![cur].valid = FALSE]
         \/ pc = "clear_slot" /\ pc' = "clear" /\ UNCHANGED dblwr_pages
      /\ todo' = todo \ {cur} /\ UNCHANGED <<phase, spec_pages, data>>
  BY DEF Invalidate, ClearSlot, PutSlot
<1>3. phase \in {"up", "recovering"} /\ (pc = "clear_slot" => phase = "up")
  BY <1>1, <1>2 DEF IInv, TypeInv, RecInv
<1>4. k \notin Writing /\ k \notin Writing' /\ Dirty = todo /\ Dirty' = todo \ {cur}
  BY <1>2 DEF Writing, Dirty, Clearing
<1>5. k # cur /\ k \in DOMAIN Mem => Mem'[k] = Mem[k]
  BY <1>2 DEF Mem, Clearing
<1>6. CASE phase = "up"
  <2>1. cur \in todo /\ data[cur] = Mem[cur].ver
    BY <1>1, <1>2, <1>6 DEF IInv, UpInv, CurInv
  <2>2. k \in Dirty => k \in DOMAIN Mem
    BY <1>1, <1>6 DEF IInv, UpInv, PlacedInv
  <2> QED BY <1>1, <1>2, <1>4, <1>5, <1>6, <2>1, <2>2, UpStep
<1>7. CASE phase = "recovering"
  <2>1. pc = "invalidate" /\ cur \in Buffered /\ (dblwr_pages[cur].valid => data[cur] = dblwr_pages[cur].ver)
    BY <1>1, <1>2, <1>3, <1>7 DEF IInv, RecInv
  <2>2. Buffered' = Buffered /\ dblwr_pages'[cur] = [dblwr_pages[cur] EXCEPT !.valid = FALSE]
        /\ (k # cur /\ k \in Buffered => dblwr_pages'[k] = dblwr_pages[k])
    BY <1>2, <2>1 DEF Buffered
  <2>3. dblwr_pages'[cur].valid = FALSE
    <3>1. dblwr_pages[cur] \in MemPage
      BY <1>1, <2>1, MemFields DEF Mem, Clearing, Buffered
    <3> QED BY <2>2, <3>1 DEF MemPage
  <2>4. \/ (k \in Buffered => dblwr_pages'[k] = dblwr_pages[k]) /\ data'[k] = data[k]
        \/ k \in Buffered /\ ~dblwr_pages'[k].valid /\ data'[k] = data[k]
           /\ (dblwr_pages[k].valid => data[k] = dblwr_pages[k].ver)
    BY <1>2, <2>1, <2>2, <2>3
  <2> QED BY <1>1, <1>2, <1>7, <2>2, <2>4, RecStep
<1> QED BY <1>3, <1>6, <1>7

LEMMA WriteKeeps ==
    ASSUME StoreInv, StoreInv', WriteHit \/ WriteSlot \/ WriteHeader, NEW k \in Intact \ Writing, k \in Intact'
    PROVE  Recov(k)' = Recov(k)
<1>1. IInv /\ UpRecov /\ UpRecov'
  BY DEF StoreInv
<1>2. /\ pc \in {"hit", "slot", "header"} /\ ((pc' = "header" /\ cur' = cur) \/ pc' \in {"idle", "sync"})
      /\ UNCHANGED <<phase, dblwr_pages, spec_pages, todo, data>>
  BY DEF WriteHit, WriteSlot, WriteHeader, PutSlot, PutHeader, files
<1>3. phase = "up" /\ phase' = "up"
  BY <1>1, <1>2 DEF IInv, TypeInv, RecInv
<1>4. k \notin Writing' /\ Mem' = Mem /\ Dirty = Buffered /\ Dirty' = Buffered
  BY <1>2 DEF Writing, Mem, Dirty, Clearing, Buffered
<1> QED BY <1>1, <1>2, <1>3, <1>4, UpStep

LEMMA TearKeeps ==
    ASSUME StoreInv, StoreInv', NEW j \in Pages, CrashTearsPage(j), NEW k \in Intact, k \in Intact'
    PROVE  Recov(k)' = Recov(k)
<1>1. IInv /\ IInv' /\ RecovIs /\ RecovIs' /\ TypeInv
  BY DEF StoreInv, IInv
<1>2. phase \in {"up", "recovering"} /\ phase' = "down" /\ PutData(j, Torn) /\ UNCHANGED <<slots, header>>
  BY DEF CrashTearsPage, Dies, LoseMemory, PutData
<1>3. k \in Pages /\ Usual /\ Usual' /\ data'[j] = Torn
  BY <1>1, <1>2 DEF Intact, Usual, PutData, TypeInv
<1>4. CASE k # j
  <2>1. data'[k] = data[k]
    BY <1>1, <1>2, <1>3, <1>4 DEF PutData, TypeInv
  <2> QED BY <1>2, <1>3, <2>1, RecovSame
<1>5. CASE k = j
  <2>1. PICK i \in Slot : First(k, i)' /\ slots'[i].valid
    BY <1>1, <1>2, <1>3, <1>5 DEF IInv, FileInv
  <2>2. i \in ValidOf(k)'
    BY <2>1 DEF First, ValidOf
  <2>3. ValidOf(k)' = ValidOf(k)
    BY <1>2 DEF ValidOf, Loadable
  <2>4. Recov(k)' = slots'[i].ver
    BY <1>1, <1>3, <2>2 DEF RecovIs
  <2>5. Recov(k) = slots[i].ver
    BY <1>1, <1>3, <2>2, <2>3 DEF RecovIs
  <2> QED BY <1>2, <2>4, <2>5
<1> QED BY <1>4, <1>5

LEMMA TearSlotKeeps ==
    ASSUME StoreInv, StoreInv', CrashTearsSlot, NEW k \in Intact \ Writing, k \in Intact'
    PROVE  Recov(k)' = Recov(k)
<1>1. IInv /\ RecovIs /\ RecovIs' /\ TypeInv
  BY DEF StoreInv, IInv
<1>2. /\ phase \in {"up", "recovering"} /\ phase' = "down" /\ pc \in {"hit", "slot"}
      /\ PutSlot(dblwr_pages[cur].slot, TornSlot)
  BY DEF CrashTearsSlot, Dies, LoseMemory
<1>3. UpInv /\ Usual /\ Usual' /\ k \in Pages /\ k \notin excused /\ k # cur
  BY <1>1, <1>2 DEF IInv, RecInv, Intact, Writing, Usual
<1>4. cur \in DOMAIN Mem /\ Mem = dblwr_pages
  BY <1>2, <1>3 DEF UpInv, CurInv, Mem, Clearing, Buffered
<1>5. PICK i \in Slot : i = Mem[cur].slot
  BY <1>1, <1>4, MemFields
<1>6. /\ slots'[i] = TornSlot /\ \A j \in Slot \ {i} : slots'[j] = slots[j]
      /\ UNCHANGED <<header, data>>
  <2>1. TornSlot \in SlotImage
    BY DEF SlotImage
  <2> QED BY <1>1, <1>2, <1>4, <1>5, <2>1, PutSlotIs
<1>7. TornSlot.key = Nobody /\ TornSlot.valid = FALSE
  BY DEF TornSlot
<1>8. i \notin ValidOf(k)
  <2> SUFFICES ASSUME i \in ValidOf(k) PROVE FALSE
    OBVIOUS
  <2>1. k \in Dirty /\ Mem[k].slot = i
    BY <1>3 DEF UpInv, StaleInv, ValidOf
  <2> QED BY <1>3, <1>4, <1>5, <2>1 DEF UpInv, PlacedInv
<1>9. \A j \in Slot : j \in ValidOf(k)' <=> j \in ValidOf(k)
  BY <1>6, <1>7, <1>8 DEF ValidOf, Loadable
<1>10. CASE ValidOf(k) = {}
  <2>1. ValidOf(k)' = {}
    BY <1>9, <1>10 DEF ValidOf, Loadable
  <2> QED BY <1>1, <1>3, <1>6, <1>10, <2>1 DEF RecovIs
<1>11. CASE ValidOf(k) # {}
  <2>1. PICK j \in Slot : j \in ValidOf(k) /\ j \in ValidOf(k)' /\ j # i
    BY <1>8, <1>9, <1>11 DEF ValidOf, Loadable
  <2>2. Recov(k) = slots[j].ver
    BY <1>1, <1>3, <2>1 DEF RecovIs
  <2>3. Recov(k)' = slots'[j].ver
    BY <1>1, <1>3, <2>1 DEF RecovIs
  <2> QED BY <1>6, <2>1, <2>2, <2>3
<1> QED BY <1>10, <1>11

\* No step but the write of a page changes what recovery makes of the page.
LEMMA RecovStep ==
    ASSUME StoreInv, StoreInv', [Next]_vars, NEW k \in Intact \ Writing, k \in Intact'
    PROVE  Recov(k)' = Recov(k)
<1>1. CASE UNCHANGED <<slots, header, data>>
  BY <1>1, RecovSame DEF Intact
<1>2. ASSUME NEW j \in Pages, AddPage(j) \/ FlushFails(j) PROVE UNCHANGED <<slots, header, data>>
  BY <1>2 DEF AddPage, FlushFails, files
<1>3. ASSUME NEW j \in Pages, FlushPage(j) \/ ClearPage(j) PROVE Recov(k)' = Recov(k)
  BY <1>3, FlushKeeps
<1>4. ASSUME NEW j \in Pages, CrashTearsPage(j) PROVE Recov(k)' = Recov(k)
  BY <1>4, TearKeeps
<1>5. ASSUME NEW p \in Pools, ClearPages(p) \/ OpenPool(p) PROVE UNCHANGED <<slots, header, data>>
  BY <1>5 DEF ClearPages, OpenPool, files
<1>6. CASE WriteHit \/ WriteSlot \/ WriteHeader
  BY <1>6, WriteKeeps
<1>7. CASE Invalidate \/ ClearSlot
  BY <1>7, InvalidKeeps
<1>8. CASE CrashTearsSlot
  BY <1>8, TearSlotKeeps
<1>9. CASE UNCHANGED vars \/ Undefined \/ Snapshot \/ SyncFiles \/ FlushEnd \/ ClearFails \/ ClearEnd \/ Restart \/ Shutdown \/ Crash
  <2>1. UNCHANGED <<slots, header, data>>
    BY <1>9 DEF vars, files, Undefined, Snapshot, SyncFiles, FlushEnd, ClearFails, ClearEnd, Restart, Shutdown, Crash
  <2> QED BY <1>1, <2>1
<1> QED BY <1>1, <1>2, <1>3, <1>4, <1>5, <1>6, <1>7, <1>8, <1>9 DEF Next

-----------------------------------------------------------------------------
(***************************************************************************)
(* Each step of the code is a step of the store, or none.                  *)
(***************************************************************************)
LEMMA KeptIs == Kept = [k \in Intact |-> Recov(k)]
  BY DEF Kept, Recov

LEMMA SeenIs == Seen = [k \in Intact |-> View(k)]
<1>1. \A k \in Intact : Kept[k] = Recov(k)
  BY KeptIs
<1> QED BY <1>1 DEF Seen, View

\* What the two functions are, in every state.
Mapped ==
    /\ Kept = [k \in Intact |-> Recov(k)] /\ Seen = [k \in Intact |-> View(k)]
    /\ phase # "up" => Usable = {} /\ Writing = {} /\ Closing = {}

LEMMA MappedOK == ASSUME IInv PROVE Mapped
<1>1. phase # "up" => pc \notin {"hit", "slot", "header", "clear", "clear_slot"}
  BY DEF IInv, TypeInv, RecInv
<1>2. phase # "up" => Usable = {} /\ Writing = {} /\ Closing = {}
  BY <1>1 DEF Usable, Writing, Closing
<1> QED BY <1>2, KeptIs, SeenIs DEF Mapped

\* Steps that bring no content and lose none.
LEMMA NothingNew ==
    ASSUME StoreInv, StoreInv', Mapped, Mapped', [Next]_vars, UNCHANGED excused, Writing = {}, Writing' = {}
    PROVE  Kept' = Kept /\ Seen' = Seen
<1>1. Intact' = Intact
  BY DEF Intact
<1>2. \A k \in Intact : Recov(k)' = Recov(k)
  BY <1>1, RecovStep
<1>3. Kept' = Kept
  BY <1>1, <1>2 DEF Mapped
<1>4. ASSUME NEW k \in Intact PROVE View(k) = Recov(k)
  <2>1. CASE phase = "up"
    BY <1>4, <2>1 DEF StoreInv, Settled
  <2>2. CASE phase # "up"
    BY <2>2 DEF View, Usable
  <2> QED BY <2>1, <2>2
<1>5. ASSUME NEW k \in Intact PROVE View(k)' = Recov(k)'
  <2>1. CASE phase' = "up"
    BY <1>1, <1>5, <2>1 DEF StoreInv, Settled
  <2>2. CASE phase' # "up"
    BY <2>2 DEF View, Usable
  <2> QED BY <2>1, <2>2
<1>6. Seen' = Seen
  BY <1>1, <1>2, <1>4, <1>5 DEF Mapped
<1> QED BY <1>3, <1>6

LEMMA StutterStep ==
    ASSUME StoreInv, StoreInv', Mapped, Mapped', [Next]_vars, UNCHANGED excused, Writing = {}, Writing' = {},
           phase' = "up" <=> phase = "up", Usable' = Usable, Closing' = Closing
    PROVE  UNCHANGED Store!vars
<1>1. Kept' = Kept /\ Seen' = Seen
  BY NothingNew
<1>2. (phase = "up")' = (phase = "up")
  OBVIOUS
<1> QED BY <1>1, <1>2 DEF Store!vars

LEMMA BeginStep ==
    ASSUME StoreInv, StoreInv', Mapped, Mapped', [Next]_vars, NEW k \in Pages, AddPage(k)
    PROVE  Store!Next
<1>1. /\ phase = "up" /\ phase' = "up" /\ pc = "idle" /\ pc' \in {"hit", "slot"} /\ cur' = k /\ k[1] \in open
      /\ adds' = adds + 1 /\ adds < MaxAdds /\ UNCHANGED <<open, files, excused>>
  BY DEF AddPage
<1>2. /\ Writing = {} /\ Closing = {} /\ Usable = open
      /\ Writing' = {k} /\ Closing' = {} /\ Usable' = open
  BY <1>1 DEF Writing, Closing, Usable
<1>3. Intact' = Intact /\ UNCHANGED <<slots, header, data>>
  BY <1>1 DEF Intact, files
<1>4. \A j \in Intact : Recov(j)' = Recov(j)
  BY <1>3, RecovSame DEF Intact
<1>5. Kept' = Kept
  BY <1>3, <1>4 DEF Mapped
<1>6. PICK c \in 0..MaxAdds : c = adds + 1
  BY <1>1, DwbAssumption DEF StoreInv, IInv, TypeInv
<1>7. k \in Intact => View(k)' = c
  <2>1. k \in Buffered' /\ dblwr_pages'[k].ver = c
    <3>1. CASE k \in Buffered
      <4>1. dblwr_pages' = [dblwr_pages EXCEPT ![k].ver = c]
        BY <1>1, <1>6, <3>1 DEF AddPage
      <4>2. Mem = dblwr_pages
        BY <1>1 DEF Mem, Clearing
      <4>3. dblwr_pages[k] \in MemPage
        BY <3>1, <4>2, MemFields DEF StoreInv, IInv, Buffered
      <4>4. k \in Buffered' /\ dblwr_pages'[k] = [dblwr_pages[k] EXCEPT !.ver = c]
        BY <3>1, <4>1 DEF Buffered
      <4> QED BY <4>3, <4>4 DEF MemPage
    <3>2. CASE k \notin Buffered
      BY <1>6, <3>2 DEF AddPage, Buffered
    <3> QED BY <3>1, <3>2
  <2> QED BY <1>1, <1>2, <2>1 DEF View, Current
<1>8. ASSUME NEW j \in Intact, j # k PROVE View(j)' = View(j)
  <2>1. View(j) = Recov(j)
    BY <1>1, <1>2, <1>8 DEF StoreInv, Settled
  <2>2. View(j)' = Recov(j)'
    BY <1>1, <1>2, <1>3, <1>8 DEF StoreInv, Settled
  <2> QED BY <1>4, <1>8, <2>1, <2>2
<1>9. Seen' = [Seen EXCEPT ![k] = c]
  BY <1>3, <1>7, <1>8 DEF Mapped
<1>10. (phase = "up")' = (phase = "up")
  BY <1>1
<1>11. Store!BeginWrite(k)
  BY <1>1, <1>2, <1>5, <1>6, <1>9, <1>10 DEF Store!BeginWrite, Store!Quiet
<1>12. k \in Store!PagesOf(Usable)
  BY <1>1, <1>2 DEF Store!PagesOf, Pages
<1> QED BY <1>11, <1>12 DEF Store!Next

\* The image of a new page counts from the write of the slot on, if the header counts the slot
\* already, and from the write of the header on otherwise.
LEMMA SlotWritten ==
    ASSUME StoreInv, StoreInv', WriteSlot, NEW w \in Intact, w = cur
    PROVE  Recov(w)' = Recov(w) \/ Recov(w)' = dblwr_pages[w].ver
<1>1. /\ pc = "slot" /\ pc' = "header" /\ cur' = cur /\ PutSlot(dblwr_pages[cur].slot, Image(cur, dblwr_pages[cur]))
      /\ UNCHANGED <<phase, dblwr_pages, spec_pages, todo, excused>>
  BY DEF WriteSlot
<1>2. UpInv /\ UpInv' /\ TypeInv /\ Usual /\ Usual' /\ RecovIs /\ RecovIs'
  BY <1>1 DEF StoreInv, IInv, TypeInv, RecInv, Usual
<1>3. w \in Pages /\ w \notin excused /\ w \in Intact'
  BY <1>1 DEF Intact
<1>4. Mem = dblwr_pages /\ Mem' = Mem /\ Dirty = Buffered /\ Buffered = DOMAIN Mem /\ w \in DOMAIN Mem
  BY <1>1, <1>2 DEF Mem, Dirty, Clearing, Buffered, UpInv, CurInv
<1>5. PICK i \in Slot : i = Mem[w].slot
  BY <1>2, <1>4, MemFields
<1>6. Mem[w] \in MemPage /\ Mem[w].valid
  BY <1>2, <1>4, MemFields DEF UpInv, ImageInv
<1>7. /\ slots'[i] = Image(w, Mem[w]) /\ UNCHANGED <<header, data>>
      /\ slots'[i].key = w /\ slots'[i].valid /\ slots'[i].ver = Mem[w].ver
  <2>1. Image(w, Mem[w]) \in SlotImage
    BY <1>3, <1>6, ImageFields
  <2>2. slots'[i] = Image(w, Mem[w]) /\ UNCHANGED <<header, data>>
    BY <1>1, <1>2, <1>4, <1>5, <2>1, PutSlotIs
  <2> QED BY <1>3, <1>6, <2>2, ImageFields
<1>8. CASE i < header
  <2>1. i \in ValidOf(w)'
    BY <1>7, <1>8 DEF ValidOf, Loadable
  <2> QED BY <1>2, <1>3, <1>4, <1>7, <2>1 DEF RecovIs
<1>9. CASE ~(i < header)
  <2>1. ValidOf(w) = {}
    BY <1>1, <1>2, <1>3 DEF UpInv, StaleInv, ValidOf
  <2>2. ASSUME NEW j \in ValidOf(w)' PROVE FALSE
    <3>1. j \in Loadable(w)' /\ slots'[j].valid /\ j < header'
      BY <2>2 DEF ValidOf, Loadable
    <3>2. Mem'[w].slot = j
      BY <1>1, <1>2, <1>3, <3>1 DEF UpInv, StaleInv
    <3> QED BY <1>4, <1>5, <1>7, <1>9, <3>1, <3>2
  <2>3. Recov(w) = data[w]
    BY <1>2, <2>1 DEF RecovIs
  <2>4. Recov(w)' = data'[w]
    BY <1>2, <1>3, <2>2 DEF RecovIs
  <2> QED BY <1>7, <2>3, <2>4
<1> QED BY <1>8, <1>9

LEMMA WriteStep ==
    ASSUME StoreInv, StoreInv', Mapped, Mapped', [Next]_vars, WriteHit \/ WriteSlot \/ WriteHeader
    PROVE  Store!Next \/ UNCHANGED Store!vars
<1>1. /\ pc \in {"hit", "slot", "header"} /\ ((pc' = "header" /\ cur' = cur /\ WriteSlot) \/ pc' \in {"idle", "sync"})
      /\ UNCHANGED <<phase, open, dblwr_pages, spec_pages, todo, data, excused>>
  BY DEF WriteHit, WriteSlot, WriteHeader, PutSlot, PutHeader, files
<1>2. phase = "up" /\ phase' = "up" /\ UpInv /\ TypeInv
  BY <1>1 DEF StoreInv, IInv, TypeInv, RecInv
<1>3. cur \in Buffered /\ cur \in Pages /\ cur[1] \in open
  <2>1. cur \in Buffered /\ Mem = dblwr_pages
    BY <1>1, <1>2 DEF UpInv, CurInv, Mem, Clearing
  <2> QED BY <1>1, <1>2, <2>1, MemFields DEF Buffered, StoreInv, CallInv, OpenInv
<1>4. PICK w \in Pages : w = cur
  BY <1>3
<1>5. /\ Writing = {w} /\ Closing = {} /\ Usable = open /\ Closing' = {} /\ Usable' = open
      /\ Writing' = (IF pc' = "header" THEN {w} ELSE {}) /\ Intact' = Intact
  BY <1>1, <1>2, <1>4 DEF Writing, Closing, Usable, Intact
<1>6. ASSUME NEW k \in Intact, k # w PROVE Recov(k)' = Recov(k) /\ View(k) = Recov(k) /\ View(k)' = Recov(k)'
  <2>1. k \in Intact' /\ k \notin Writing /\ k \notin Writing'
    BY <1>5, <1>6
  <2>2. Recov(k)' = Recov(k)
    BY <2>1, RecovStep
  <2> QED BY <1>2, <2>1, <2>2 DEF StoreInv, Settled
<1>7. View(w)' = View(w) /\ View(w) = dblwr_pages[w].ver
  BY <1>1, <1>3, <1>4, <1>5 DEF View, Current, Buffered
<1>8. Seen' = Seen
  BY <1>5, <1>6, <1>7 DEF Mapped
<1>9. (phase = "up")' = (phase = "up")
  BY <1>2
<1>10. ASSUME w \in Intact => Recov(w)' = View(w) PROVE Kept' = Seen
  BY <1>5, <1>6, <1>10 DEF Mapped
<1>11. CASE pc' # "header"
  <2>1. w \in Intact => Recov(w)' = View(w)
    BY <1>2, <1>5, <1>7, <1>11 DEF StoreInv, Settled
  <2>2. Store!EndWrite
    BY <1>5, <1>8, <1>9, <1>10, <1>11, <2>1 DEF Store!EndWrite
  <2> QED BY <2>2 DEF Store!Next
<1>12. CASE pc' = "header"
  <2>1. w \in Intact => Recov(w)' = Recov(w) \/ Recov(w)' = View(w)
    BY <1>1, <1>4, <1>7, <1>12, SlotWritten
  <2>2. CASE w \in Intact => Recov(w)' = View(w)
    <3>1. Store!Persist
      BY <1>5, <1>8, <1>9, <1>10, <1>12, <2>2 DEF Store!Persist
    <3> QED BY <3>1 DEF Store!Next
  <2>3. CASE w \in Intact => Recov(w)' = Recov(w)
    <3>1. Kept' = Kept
      BY <1>5, <1>6, <2>3 DEF Mapped
    <3> QED BY <1>5, <1>8, <1>9, <1>12, <3>1 DEF Store!vars
  <2> QED BY <2>1, <2>2, <2>3
<1> QED BY <1>11, <1>12

LEMMA StopStep ==
    ASSUME StoreInv, StoreInv', Mapped, Mapped', phase = "up", phase' # "up", NEW ks \in SUBSET Writing,
           excused' = excused \cup ks, \A k \in Intact' : Recov(k)' = Recov(k)
    PROVE  Store!Next
<1>1. Intact' = Intact \ ks
  BY DEF Intact
<1>2. Usable' = {} /\ Writing' = {} /\ Closing' = {}
  BY DEF Mapped
<1>3. Kept' = Store!Without(Kept, ks)
  <2>1. Store!Without(Kept, ks) = [k \in Intact \ ks |-> Recov(k)]
    BY DEF Mapped, Store!Without
  <2> QED BY <1>1, <2>1 DEF Mapped
<1>4. Seen' = Kept'
  <2>1. \A k \in Intact' : View(k)' = Recov(k)'
    BY <1>2 DEF View
  <2> QED BY <2>1 DEF Mapped
<1>5. (phase = "up") /\ (phase = "up")' = FALSE
  OBVIOUS
<1>6. Store!Stop(ks)
  BY <1>2, <1>3, <1>4, <1>5 DEF Store!Stop
<1> QED BY <1>6 DEF Store!Next

\* kill -9, a torn write, a failed flush that leaves dangling pointers, the end of the process.
LEMMA EndStep ==
    ASSUME StoreInv, StoreInv', Mapped, Mapped', [Next]_vars,
           \/ Crash \/ Shutdown \/ CrashTearsSlot
           \/ \E k \in Pages : CrashTearsPage(k) \/ FlushFails(k)
    PROVE  Store!Next \/ UNCHANGED Store!vars
<1>1. CASE phase # "up"
  <2>1. phase' # "up" /\ UNCHANGED excused
    <3>1. ~CrashTearsSlot
      BY <1>1 DEF CrashTearsSlot, Dies, StoreInv, IInv, RecInv
    <3>2. ASSUME NEW k \in Pages, FlushFails(k) PROVE phase' # "up"
      <4>1. phase = "recovering"
        BY <1>1, <3>2 DEF FlushFails, StoreInv, IInv, TypeInv
      <4> QED BY <3>2, <4>1 DEF FlushFails, LoseMemory
    <3> QED BY <3>1, <3>2 DEF Crash, Shutdown, CrashTearsPage, FlushFails, LoseMemory
  <2> QED BY <1>1, <2>1, StutterStep DEF Mapped
<1>2. CASE phase = "up" /\ phase' = "up"
  <2>1. PICK k \in Pages : FlushFails(k)
    BY <1>2 DEF Crash, Shutdown, CrashTearsSlot, CrashTearsPage, LoseMemory
  <2>2. pc = "flush" /\ pc' = "idle" /\ UNCHANGED <<open, excused>>
    BY <1>2, <2>1 DEF FlushFails, LoseMemory
  <2>3. Writing = {} /\ Writing' = {} /\ Usable' = Usable /\ Closing' = Closing
    BY <1>2, <2>2 DEF Writing, Usable, Closing
  <2> QED BY <1>2, <2>2, <2>3, StutterStep
<1>3. CASE phase = "up" /\ phase' # "up"
  <2>1. CASE CrashTearsSlot
    <3>1. Writing = {cur} /\ excused' = excused \cup Writing
      BY <2>1 DEF CrashTearsSlot, Writing
    <3>2. \A k \in Intact' : k \in Intact /\ k \notin Writing
      BY <3>1 DEF Intact
    <3>3. \A k \in Intact' : Recov(k)' = Recov(k)
      BY <3>2, RecovStep
    <3> QED BY <1>3, <3>1, <3>3, StopStep
  <2>2. ASSUME NEW k \in Pages, CrashTearsPage(k) PROVE Store!Next
    <3>1. Writing = {} /\ UNCHANGED excused
      BY <2>2 DEF CrashTearsPage, Writing
    <3>2. \A j \in Intact' : Recov(j)' = Recov(j)
      BY <3>1, RecovStep DEF Intact
    <3>3. PICK ks \in SUBSET Writing : excused' = excused \cup ks
      BY <3>1
    <3> QED BY <1>3, <3>2, <3>3, StopStep
  <2>3. CASE Crash \/ Shutdown \/ \E k \in Pages : FlushFails(k)
    <3>1. UNCHANGED <<files, excused>>
      BY <2>3 DEF Crash, Shutdown, FlushFails
    <3>2. \A j \in Intact' : Recov(j)' = Recov(j)
      BY <3>1, RecovSame DEF Intact, files
    <3>3. PICK ks \in SUBSET Writing : ks = {}
      OBVIOUS
    <3>4. excused' = excused \cup ks
      BY <3>1, <3>3
    <3> QED BY <1>3, <3>2, <3>4, StopStep
  <2> QED BY <2>1, <2>2, <2>3
<1> QED BY <1>1, <1>2, <1>3

\* close_file and open_file.
LEMMA CloseStep ==
    ASSUME CloseShared = FALSE, StoreInv, StoreInv', Mapped, Mapped', [Next]_vars,
           \/ ClearFails \/ ClearEnd
           \/ \E p \in Pools : ClearPages(p) \/ OpenPool(p)
    PROVE  Store!Next
<1>1. phase = "up" /\ phase' = "up" /\ (phase = "up")' = (phase = "up")
  BY DEF ClearFails, ClearEnd, ClearPages, OpenPool, StoreInv, IInv, TypeInv, RecInv
<1>2. ASSUME NEW p \in Pools, ClearPages(p) PROVE Store!Next
  <2>1. pc = "idle" /\ pc' = "clear" /\ cur' = p /\ p \in open /\ UNCHANGED <<open, excused>>
    BY <1>2 DEF ClearPages
  <2>2. Writing = {} /\ Writing' = {} /\ Usable = open /\ Usable' = open \ {p} /\ Closing = {} /\ Closing' = {p}
    BY <1>1, <2>1 DEF Writing, Usable, Closing
  <2>3. Kept' = Kept /\ Seen' = Seen
    BY <2>1, <2>2, NothingNew
  <2>4. Store!BeginClose(p)
    BY <1>1, <2>1, <2>2, <2>3 DEF Store!BeginClose, Store!Quiet
  <2> QED BY <2>4 DEF Store!Next
<1>3. ASSUME NEW p \in Pools, OpenPool(p) PROVE Store!Next
  <2>1. pc = "idle" /\ pc' = "idle" /\ p \notin open /\ open' = open \cup {p} /\ UNCHANGED excused
    BY <1>3 DEF OpenPool
  <2>2. Writing = {} /\ Writing' = {} /\ Usable = open /\ Usable' = open \cup {p} /\ Closing = {} /\ Closing' = {}
    BY <1>1, <2>1 DEF Writing, Usable, Closing
  <2>3. Kept' = Kept /\ Seen' = Seen
    BY <2>1, <2>2, NothingNew
  <2>4. Store!Open(p)
    BY <1>1, <2>1, <2>2, <2>3 DEF Store!Open, Store!Quiet
  <2> QED BY <2>4 DEF Store!Next
<1>4. CASE ClearEnd
  <2>1. pc = "clear" /\ pc' = "idle" /\ open' = open \ {cur} /\ UNCHANGED excused
    BY <1>4 DEF ClearEnd
  <2>2. Writing = {} /\ Writing' = {} /\ Usable = open \ {cur} /\ Usable' = open \ {cur} /\ Closing = {cur} /\ Closing' = {}
    BY <1>1, <2>1 DEF Writing, Usable, Closing
  <2>3. Kept' = Kept /\ Seen' = Seen
    BY <2>1, <2>2, NothingNew
  <2>4. Store!EndClose
    BY <1>1, <2>2, <2>3 DEF Store!EndClose
  <2> QED BY <2>4 DEF Store!Next
<1>5. CASE ClearFails
  <2>1. pc = "clear" /\ UNCHANGED <<pc, cur, open, files>> /\ excused' = excused \cup todo
    BY <1>5 DEF ClearFails
  <2>2. Writing = {} /\ Writing' = {} /\ Usable' = Usable /\ Closing = {cur} /\ Closing' = Closing
    BY <1>1, <2>1 DEF Writing, Usable, Closing
  <2>3. Intact' = Intact \ todo
    BY <2>1 DEF Intact
  <2>4. \A k \in Intact' : Recov(k)' = Recov(k) /\ View(k) = Recov(k) /\ View(k)' = Recov(k)'
    <3>1. \A k \in Intact' : Recov(k)' = Recov(k)
      BY <2>1, RecovSame DEF Intact, files
    <3>2. \A k \in Intact' : View(k) = Recov(k)
      BY <1>1, <2>2, <2>3 DEF StoreInv, Settled
    <3>3. \A k \in Intact' : View(k)' = Recov(k)'
      BY <1>1, <2>2 DEF StoreInv, Settled
    <3> QED BY <3>1, <3>2, <3>3
  <2>5. Kept' = Store!Without(Kept, todo) /\ Seen' = Store!Without(Seen, todo)
    <3>1. Store!Without(Kept, todo) = [k \in Intact \ todo |-> Recov(k)]
      BY DEF Mapped, Store!Without
    <3>2. Store!Without(Seen, todo) = [k \in Intact \ todo |-> View(k)]
      BY DEF Mapped, Store!Without
    <3> QED BY <2>3, <2>4, <3>1, <3>2 DEF Mapped
  <2>6. todo \in SUBSET Store!PagesOf(Closing)
    <3>1. todo \subseteq Pages /\ \A k \in todo : k[1] = cur
      <4>1. todo \subseteq DOMAIN Mem
        BY <1>1, <2>1 DEF StoreInv, IInv, UpInv, PlacedInv, Dirty, Clearing
      <4> QED BY <2>1, <4>1, MemFields DEF StoreInv, IInv, CallInv, CloseInv
    <3> QED BY <2>2, <3>1 DEF Pages, Store!PagesOf
  <2>7. Store!CloseLoses(todo)
    BY <1>1, <2>2, <2>5 DEF Store!CloseLoses
  <2> QED BY <2>6, <2>7 DEF Store!Next
<1> QED BY <1>2, <1>3, <1>4, <1>5

LEMMA StoreStep ==
    ASSUME CloseShared = FALSE, StoreInv, StoreInv', Mapped, Mapped', [Next]_vars
    PROVE  Store!Next \/ UNCHANGED Store!vars
<1>1. ASSUME NEW k \in Pages, AddPage(k) PROVE Store!Next
  BY <1>1, BeginStep
<1>2. CASE WriteHit \/ WriteSlot \/ WriteHeader
  BY <1>2, WriteStep
<1>3. CASE \/ Crash \/ Shutdown \/ CrashTearsSlot
           \/ \E k \in Pages : CrashTearsPage(k) \/ FlushFails(k)
  BY <1>3, EndStep
<1>4. CASE \/ ClearFails \/ ClearEnd
           \/ \E p \in Pools : ClearPages(p) \/ OpenPool(p)
  BY <1>4, CloseStep
<1>5. CASE UNCHANGED vars \/ Undefined
  <2>1. Kept' = Kept /\ Seen' = Seen
    <3>1. UNCHANGED <<phase, open, dblwr_pages, pc, cur, slots, header, data, excused>>
      BY <1>5 DEF Undefined, vars, memory, files
    <3>2. Intact' = Intact /\ Usable' = Usable /\ \A k \in Intact : Recov(k)' = Recov(k)
      BY <3>1, RecovSame DEF Intact, Usable, Closing
    <3>3. \A k \in Intact : View(k)' = View(k)
      BY <3>1, <3>2 DEF View, Current, Buffered
    <3> QED BY <3>2, <3>3 DEF Mapped
  <2> QED BY <1>5, <2>1 DEF Undefined, vars, memory, Store!vars, Usable, Closing, Writing
<1>6. ASSUME NEW k \in Pages, FlushPage(k) \/ ClearPage(k) PROVE UNCHANGED Store!vars
  <2>1. /\ \/ pc = "flush" /\ pc' = "invalidate"
           \/ pc = "clear" /\ pc' = "clear_slot" /\ cur' = k /\ k \in todo
        /\ UNCHANGED <<phase, open, excused>>
    BY <1>6 DEF FlushPage, ClearPage, FirstPage
  <2>2. pc = "clear" => k[1] = cur
    BY <2>1 DEF StoreInv, CallInv, CloseInv
  <2>3. Writing = {} /\ Writing' = {} /\ Closing' = Closing
    BY <2>1, <2>2 DEF Writing, Closing
  <2> QED BY <2>1, <2>3, StutterStep DEF Usable
<1>7. CASE Invalidate \/ ClearSlot \/ Snapshot \/ SyncFiles
  <2>1. /\ \/ pc \notin {"hit", "slot", "header", "clear", "clear_slot"} /\ pc' \notin {"hit", "slot", "header", "clear", "clear_slot"}
           \/ pc = "clear_slot" /\ pc' = "clear" /\ cur' = cur[1]
        /\ UNCHANGED <<phase, open, excused>>
    BY <1>7 DEF Invalidate, ClearSlot, Snapshot, SyncFiles
  <2>2. Writing = {} /\ Writing' = {} /\ Closing' = Closing
    BY <2>1 DEF Writing, Closing
  <2> QED BY <2>1, <2>2, StutterStep DEF Usable
<1>8. CASE Restart
  <2>1. phase = "down" /\ phase' = "recovering" /\ UNCHANGED excused
    BY <1>8 DEF Restart
  <2> QED BY <2>1, StutterStep DEF Mapped
<1>9. CASE FlushEnd
  <2>1. pc = "flush" /\ pc' = "idle" /\ phase' = "up" /\ UNCHANGED <<open, excused>>
    BY <1>9 DEF FlushEnd
  <2>2. Writing = {} /\ Writing' = {} /\ Closing = {} /\ Closing' = {} /\ Usable' = open
    BY <2>1 DEF Writing, Closing, Usable
  <2>3. CASE phase = "up"
    BY <2>1, <2>2, <2>3, StutterStep DEF Usable
  <2>4. CASE phase # "up"
    <3>1. phase = "recovering"
      BY <2>1, <2>4 DEF StoreInv, IInv, TypeInv
    <3>2. Usable' = Pools
      BY <2>2, <3>1 DEF StoreInv, CallInv, OpenInv
    <3>3. Kept' = Kept /\ Seen' = Seen
      BY <2>1, <2>2, NothingNew
    <3>4. (phase = "up") = FALSE /\ (phase = "up")' = TRUE
      BY <2>1, <2>4
    <3>5. Store!Start
      BY <2>2, <3>2, <3>3, <3>4 DEF Store!Start
    <3> QED BY <3>5 DEF Store!Next
  <2> QED BY <2>3, <2>4
<1> QED BY <1>1, <1>2, <1>3, <1>4, <1>5, <1>6, <1>7, <1>8, <1>9 DEF Next

LEMMA StoreInit == ASSUME Init, Mapped PROVE Store!Init
<1>1. phase = "down" /\ Usable = {} /\ Writing = {} /\ Closing = {} /\ (phase = "up") = FALSE
  BY DEF Init, Mapped
<1>2. Intact = Pages
  BY DEF Init, Intact
<1>3. \A k \in Pages : Recov(k) = 0 /\ View(k) = 0
  <2>1. \A k \in Pages : Loadable(k) = {}
    <3>1. header = 0 /\ \A i \in Slot : i \in Nat /\ ~(i < 0)
      BY Numbers DEF Init
    <3> QED BY <3>1 DEF Loadable
  <2>2. \A k \in Pages : Recov(k) = 0
    BY <2>1, LoadedIs DEF Recov, Init
  <2> QED BY <1>1, <2>2 DEF View
<1>4. Seen \in [Pages -> 0..MaxAdds] /\ Kept = Seen
  BY <1>2, <1>3, DwbAssumption DEF Mapped
<1> QED BY <1>1, <1>4 DEF Store!Init, Pages

\* For its callers the double write buffer is the abstract store of pages.
THEOREM IsPageStore == CloseShared = FALSE => (Spec => ImplementsStore)
<1> SUFFICES ASSUME CloseShared = FALSE PROVE Spec => ImplementsStore
  OBVIOUS
<1>1. Init => CallInv
  BY DEF Init, CallInv, FlushedInv, OpenInv, CloseInv
<1>2. IInv /\ CallInv /\ [Next]_vars => CallInv'
  BY CallNext
<1>3. Spec => [](IInv /\ CallInv)
  BY <1>1, <1>2, Invariance, PTL DEF Spec
<1>4. IInv /\ CallInv => StoreInv /\ Mapped
  BY StoreInvOK, MappedOK
<1>5. Init /\ Mapped => Store!Init
  BY StoreInit
<1>6. StoreInv /\ StoreInv' /\ Mapped /\ Mapped' /\ [Next]_vars => [Store!Next]_(Store!vars)
  BY StoreStep
<1> QED BY <1>3, <1>4, <1>5, <1>6, PTL DEF Spec, ImplementsStore, Store!Spec
=============================================================================
