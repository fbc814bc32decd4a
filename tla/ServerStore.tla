---------------------------- MODULE ServerStore ----------------------------
(***************************************************************************)
(* The settings a page keeps on the server (useServerStore.ts): one blob   *)
(* read once, edited by key and written back half a second later; with the *)
(* lists of a compose box (useComposeBox.ts), which are arrays shared by   *)
(* reference, the registry of remote machines (useRemotePeers.ts), which   *)
(* is replaced at every change, and a compose box's text and draft.        *)
(*                                                                         *)
(* An array is a name and what it holds now.  The order of a list and its  *)
(* cap, the fields of a machine and its address are left out, and so are   *)
(* the pages of other devices.  The server merges what it gets by key.     *)
(***************************************************************************)
EXTENDS Naturals, Sequences, FiniteSets

CONSTANTS
  Boxes,         \* compose boxes: one by surface
  Entries,       \* what a list may hold
  Peers,         \* remote machines
  Registered,    \* those of them that the server has
  Texts, Empty,  \* what a box's text may be
  Absent,        \* no such key
  MaxArrays, MaxSaves, MaxFailures

VARIABLES
  server,        \* the blob stored: list and peers, or Absent
  data,          \* the page's copy: an array's name, and peers
  arrays,        \* what each array made so far holds
  hydrated, loading,   \* of useServerStore
  saveTimer, saves,    \* the write to come, and those under way
  box,           \* by box: whether it is there, has read, and its array
  peers, peersRead,    \* useRemotePeers: its registry, hydrated
  deleted,       \* what the user ever deleted of the list, or has deleted of the machines
  trouble,       \* loads failed, a write failed or overtook another, the lists parted,
                 \* or the registry was written before it was read
  draft          \* a compose box: whether it is open, its text, what is stored of it, the undo,
                 \* the host's prompt, and whether the text was put there by a list or the host

storeVars == <<server, data, arrays, hydrated, loading, saveTimer, saves, box,
               peers, peersRead, deleted, trouble, draft>>

NoArray == 0
Box0 == [there |-> FALSE, waits |-> FALSE, list |-> NoArray]
Calm == [load |-> 0, save |-> FALSE, parted |-> FALSE, blind |-> FALSE]
Draft0 == [open |-> FALSE, text |-> Empty, stored |-> Empty, undo |-> Empty, host |-> Empty, inserted |-> FALSE]

StoreInit ==
  /\ server \in [list : {Absent} \cup SUBSET Entries, peers : {Registered}]
  /\ data = [list |-> NoArray, peers |-> Absent] /\ arrays = <<>>
  /\ hydrated = FALSE /\ loading = FALSE /\ saveTimer = FALSE /\ saves = {}
  /\ box = [b \in Boxes |-> Box0] /\ peers = {} /\ peersRead = "no"
  /\ deleted = {} /\ trouble = Calm /\ draft = Draft0

----------------------------------------------------------------------------
(* useServerStore                                                          *)

More(n) == Len(arrays) + n <= MaxArrays
   \* bound: arrays made
Held(id) == IF id = NoArray THEN Absent ELSE arrays[id]
(* What a write sends: all of the page's copy, as it is then.              *)
Blob(d, as) == [list |-> IF d.list = NoArray THEN Absent ELSE as[d.list], peers |-> d.peers]

(* set: nothing is written before the blob was read; the edit starts the   *)
(* reading instead.                                                        *)
(* mutant: it is written all the same                                      *)
SetAlways == saveTimer' = TRUE /\ UNCHANGED <<hydrated, loading>>
Set ==
  IF hydrated THEN saveTimer' = TRUE /\ UNCHANGED <<hydrated, loading>>
  ELSE loading' = TRUE /\ UNCHANGED <<hydrated, saveTimer>>
(* The 500 ms are over; several writes may be under way.                   *)
SaveTimer ==
  /\ saveTimer /\ Cardinality(saves) < MaxSaves
  /\ saveTimer' = FALSE /\ saves' = saves \cup {Blob(data, arrays)}
  /\ trouble' = [trouble EXCEPT !.save = @ \/ saves # {}]
  /\ UNCHANGED <<server, data, arrays, hydrated, loading, box, peers, peersRead, deleted, draft>>
Merge(s, d) == [k \in DOMAIN s |-> IF d[k] = Absent THEN s[k] ELSE d[k]]
SaveEnds(d, ok) ==
  /\ d \in saves /\ saves' = saves \ {d}
  /\ server' = IF ok THEN Merge(server, d) ELSE server
  /\ trouble' = [trouble EXCEPT !.save = @ \/ ~ok]
  /\ UNCHANGED <<data, arrays, hydrated, loading, saveTimer, box, peers, peersRead, deleted, draft>>

----------------------------------------------------------------------------
Reads(id, own) == IF id = NoArray THEN own ELSE id

Readers == {b \in Boxes : box[b].there /\ box[b].waits}
(* The arrays a set of boxes gets that finds no list: one each.            *)
Own(R, n) == CHOOSE f \in [R -> n + 1 .. n + Cardinality(R)] : \A a, b \in R : a # b => f[a] # f[b]
LoadEnds(ok) ==
  /\ loading /\ loading' = FALSE /\ (ok \/ trouble.load < MaxFailures)
  /\ More(1 + Cardinality(Readers))
  /\ trouble' = [trouble EXCEPT !.load = IF ok THEN @ ELSE @ + 1,
                                !.parted = @ \/ ~ok \/ server.list = Absent]
  /\ LET got == IF ok /\ server.list # Absent THEN Append(arrays, server.list) ELSE arrays
         d == IF ~ok THEN data
              ELSE [list |-> IF server.list = Absent THEN NoArray ELSE Len(got), peers |-> server.peers]
         own == Own(Readers, Len(got))
     IN /\ data' = d /\ hydrated' = (hydrated \/ ok)
        /\ box' = [b \in Boxes |-> IF b \in Readers
                                   THEN [box[b] EXCEPT !.waits = FALSE, !.list = Reads(d.list, own[b])] ELSE box[b]]
        /\ arrays' = got \o [i \in 1 .. Cardinality(Readers) |-> IF d.list = NoArray THEN {} ELSE got[d.list]]
        /\ IF peersRead # "asked" THEN UNCHANGED <<peers, peersRead>>
           ELSE IF hydrated' THEN peers' = (IF d.peers = Absent THEN {} ELSE d.peers) /\ peersRead' = "yes"
           ELSE peersRead' = "no" /\ UNCHANGED peers
  /\ UNCHANGED <<server, saveTimer, saves, deleted, draft>>

(* onMounted, onUnmounted of a compose box                                 *)
Mount(b) ==
  /\ ~box[b].there
  /\ IF hydrated
     THEN /\ More(1) /\ arrays' = Append(arrays, IF data.list = NoArray THEN {} ELSE arrays[data.list])
          /\ box' = [box EXCEPT ![b] = [there |-> TRUE, waits |-> FALSE, list |-> Reads(data.list, Len(arrays'))]]
          /\ UNCHANGED loading
     ELSE /\ box' = [box EXCEPT ![b] = [there |-> TRUE, waits |-> TRUE, list |-> NoArray]]
          /\ loading' = TRUE /\ UNCHANGED arrays
  /\ UNCHANGED <<server, data, hydrated, saveTimer, saves, peers, peersRead, deleted, trouble, draft>>
Unmount(b) ==
  /\ box[b].there /\ box' = [box EXCEPT ![b] = Box0]
  /\ UNCHANGED <<server, data, arrays, hydrated, loading, saveTimer, saves, peers, peersRead, deleted, trouble, draft>>
(* pushHistory, saveSnippet: the array itself is changed                   *)
Push(b, e) ==
  /\ box[b].list # NoArray
  /\ arrays' = [arrays EXCEPT ![box[b].list] = @ \cup {e}]
  /\ data' = [data EXCEPT !.list = box[b].list] /\ Set
  /\ UNCHANGED <<server, saves, box, peers, peersRead, deleted, trouble, draft>>
Delete(b, e) ==
  /\ box[b].list # NoArray /\ e \in arrays[box[b].list]
  /\ arrays' = [arrays EXCEPT ![box[b].list] = @ \ {e}]
  /\ data' = [data EXCEPT !.list = box[b].list] /\ deleted' = deleted \cup {e} /\ Set
  /\ UNCHANGED <<server, saves, box, peers, peersRead, trouble, draft>>
(* clearHistory: one new array for the box, another for the page           *)
Clear(b) ==
  /\ box[b].list # NoArray /\ arrays[box[b].list] # {} /\ More(2)
  /\ arrays' = arrays \o <<{}, {}>> /\ box' = [box EXCEPT ![b].list = Len(arrays) + 1]
  /\ data' = [data EXCEPT !.list = Len(arrays) + 2]
  /\ deleted' = deleted \cup Entries /\ trouble' = [trouble EXCEPT !.parted = TRUE] /\ Set
  /\ UNCHANGED <<server, saves, peers, peersRead, draft>>

----------------------------------------------------------------------------
(* useRemotePeers                                                          *)

(* loadPeers, once, when the page has begun                                *)
LoadPeers ==
  /\ peersRead = "no" /\ trouble.load = 0
  /\ IF hydrated THEN peers' = (IF data.peers = Absent THEN {} ELSE data.peers) /\ peersRead' = "yes" /\ UNCHANGED loading
     ELSE peersRead' = "asked" /\ loading' = TRUE /\ UNCHANGED peers
  /\ UNCHANGED <<server, data, arrays, hydrated, saveTimer, saves, box, deleted, trouble, draft>>
(* What the page knows of the registry replaces what is stored of it,      *)
(* whether or not the page has read it.                                    *)
Persist(ps) ==
  /\ peers' = ps /\ data' = [data EXCEPT !.peers = ps] /\ Set
  /\ trouble' = [trouble EXCEPT !.blind = @ \/ peersRead # "yes"]
(* A machine added gets an id of its own.                                  *)
AddPeer(p) ==
  /\ p \notin peers \cup server.peers /\ Persist(peers \cup {p}) /\ deleted' = deleted \ {p}
  /\ UNCHANGED <<server, arrays, saves, box, peersRead, draft>>
RemovePeer(p) ==
  /\ p \in peers /\ Persist(peers \ {p}) /\ deleted' = deleted \cup {p}
  /\ UNCHANGED <<server, arrays, saves, box, peersRead, draft>>
Resolved(p) == IF p \in peers THEN "found" ELSE IF peersRead # "yes" THEN "connecting" ELSE "deleted"

----------------------------------------------------------------------------
(* A compose box's text: the draft is stored with every change, except by  *)
(* what is taken from a list, or is the host's when the box opens.         *)

DraftStep(d) == draft' = d /\ UNCHANGED <<server, data, arrays, hydrated, loading, saveTimer, saves, box, peers,
                                          peersRead, deleted, trouble>>
Entered(t) == [draft EXCEPT !.text = t, !.stored = t, !.inserted = FALSE]
(* onInput, insertAtCursor, beginTyped, adoptCommitted                     *)
Typed(t) == draft.open /\ DraftStep(Entered(t))
InsertFromList(t) == draft.open /\ DraftStep([draft EXCEPT !.text = t, !.inserted = TRUE])
Send == draft.open /\ draft.text # Empty /\ DraftStep(Entered(Empty))
ClearAll == draft.open /\ DraftStep([Entered(Empty) EXCEPT !.undo = draft.text])
UndoClear == draft.undo # Empty /\ DraftStep([Entered(draft.undo) EXCEPT !.undo = Empty])
UndoTimer == draft.undo # Empty /\ DraftStep([draft EXCEPT !.undo = Empty])
(* onMounted: the host's prompt goes before what is stored, and stays.     *)
Opened(h) == [draft EXCEPT !.open = TRUE, !.host = h, !.inserted = h # Empty,
                           !.text = IF h = Empty THEN draft.stored ELSE h]
Opens == ~draft.open /\ DraftStep(Opened(draft.host))
(* A prompt to be sent again: put in the open box (applyDraft), or opens it *)
Resend(t) == DraftStep(IF draft.open THEN [Entered(t) EXCEPT !.host = t] ELSE Opened(t))
(* onUnmounted stores the text; a reload of the page does not.             *)
Closes == draft.open /\ DraftStep([Draft0 EXCEPT !.stored = draft.text, !.host = draft.host])
Reloaded == DraftStep([Draft0 EXCEPT !.stored = draft.stored])

(* What both the lists and the registry of machines use.                   *)
SharedNext ==
  \/ SaveTimer \/ (\E d \in saves, ok \in BOOLEAN : SaveEnds(d, ok)) \/ (\E ok \in BOOLEAN : LoadEnds(ok))
  \/ (\E b \in Boxes : Mount(b) \/ Unmount(b)) \/ LoadPeers
ListsNext ==
  \/ SharedNext
  \/ \E b \in Boxes : Clear(b) \/ (\E e \in Entries : Push(b, e) \/ Delete(b, e))
MachinesNext == SharedNext \/ (\E p \in Peers : AddPeer(p) \/ RemovePeer(p))
StoreNext == ListsNext \/ MachinesNext
DraftNext ==
  \/ (\E t \in Texts \cup {Empty} : Typed(t)) \/ (\E t \in Texts : InsertFromList(t) \/ Resend(t))
  \/ Send \/ ClearAll \/ UndoClear \/ UndoTimer \/ Opens \/ Closes \/ Reloaded
StoreSpec == StoreInit /\ [][StoreNext]_storeVars

----------------------------------------------------------------------------
(* At rest, with no write lost or overtaken, the server has what the page  *)
(* has (useServerStore.ts).                                                *)
RestIsStored ==
  (hydrated /\ ~saveTimer /\ saves = {} /\ ~trouble.save) =>
     Merge(server, Blob(data, arrays)) = server

(* The compose boxes of a page show one list: it is one array, as long as  *)
(* the load found it and nobody replaced it (useComposeBox.ts).            *)
ListsAreShared ==
  (hydrated /\ ~trouble.parted) =>
     \A b \in Boxes : box[b].list # NoArray => arrays[box[b].list] = Held(data.list)

(* A machine is said to be deleted only when it is, however the load went, *)
(* unless the registry was edited before it was read: what the page then   *)
(* writes has none of the machines it had not read (useRemotePeers.ts).    *)
DeletedMeansGone ==
  ~trouble.blind =>
     \A p \in Peers : Resolved(p) = "deleted" => p \in deleted \/ p \notin server.peers

(* A reload of the page loses no text of an open box but what a list put   *)
(* there, or the host when it opened.                                      *)
DraftFollows == draft.open /\ ~draft.inserted => draft.stored = draft.text
StoreHolds == RestIsStored /\ ListsAreShared /\ DeletedMeansGone /\ DraftFollows

(* Nothing stored goes away unless the user deleted it                     *)
(* (useServerStore.ts:32, "a partial/empty data must never overwrite the   *)
(* server's real data").                                                   *)
StoredIsKept ==
  [][server.list # Absent => \A e \in server.list : e \in server'.list \/ e \in deleted]_storeVars
=============================================================================
