---------------------------- MODULE FilePreviews ----------------------------
(***************************************************************************)
(* The documents open in the file panel (FilesPanel.vue): tabs that load,  *)
(* are refreshed, closed and evicted while their requests are in flight,   *)
(* and the search for a path that a link of the terminal named.            *)
(*                                                                         *)
(* A preview is named by its key, here a file.  An image is held by an     *)
(* object URL, which the browser keeps until it is revoked; it is named by *)
(* the request that brought it.  An aborted request may still answer, its  *)
(* body having arrived.  Which of several tabs is evicted (the least       *)
(* recently used) is left open.                                            *)
(***************************************************************************)
EXTENDS Naturals, Sequences, FiniteSets

CONSTANTS
  Files,      \* files that are opened
  Images,     \* those that are images
  NoKey,      \* no document is shown
  MaxOpen,    \* MAX_OPEN_PREVIEWS
  MaxAsked    \* bound: requests made

VARIABLES
  previews,   \* the tabs, in order
  active,     \* activePreviewKey
  requests,   \* previewRequests: the request a key waits for
  flying,     \* every request not answered
  path,       \* pathResolution
  converting, \* the source of the conversion under way, markdownConvertBusy
  urls,       \* object URLs created and not revoked
  retired,    \* URLs to be revoked at the next tick
  asked

fpVars == <<previews, active, requests, flying, path, converting, urls, retired, asked>>

NoPath == [on |-> FALSE, back |-> NoKey]
Generated(f) == <<f, "generated-docx">>

FpInit ==
  /\ previews = <<>> /\ active = NoKey /\ requests = {} /\ flying = {} /\ path = NoPath
  /\ converting = NoKey /\ urls = {} /\ retired = {} /\ asked = 0

Keys(ts) == {ts[i].key : i \in DOMAIN ts}
At(ts, k) == CHOOSE i \in DOMAIN ts : ts[i].key = k
Without(ts, ks) == SelectSeq(ts, LAMBDA p : p.key \notin ks)
Waiting(k) == {r \in requests : r.key = k}

(* revokePreviewUrl: the URLs that the tabs ks of ts hold                  *)
Revoked(ts, ks) == {ts[i].url : i \in {j \in DOMAIN ts : ts[j].key \in ks}}

(* evictPreviewOverflow: tabs that are neither shown nor loading           *)
Evicts(ts, a, live) ==
  LET spare == {ts[i].key : i \in {j \in DOMAIN ts : ts[j].key # a /\ ~ts[j].loading}}
      over == IF Len(ts) > MaxOpen THEN Len(ts) - MaxOpen ELSE 0
      n == IF over < Cardinality(spare) THEN over ELSE Cardinality(spare)
  IN \E ks \in {x \in SUBSET spare : Cardinality(x) = n} :
       previews' = Without(ts, ks) /\ urls' = live \ Revoked(ts, ks)

(* loadPreview, up to its await                                            *)
Load(k, fallback) ==
  LET r == [key |-> k, id |-> asked + 1, fallback |-> fallback,
            back |-> IF fallback THEN active ELSE NoKey]
  IN /\ asked < MaxAsked /\ asked' = asked + 1
     /\ requests' = (requests \ Waiting(k)) \union {r} /\ flying' = flying \union {r}

NewTab(k) == [key |-> k, url |-> 0, loaded |-> FALSE, loading |-> TRUE]

(* previewRel: the tab there is, read again, or a new one                  *)
PreviewRel(k, fallback) ==
  /\ Load(k, fallback) /\ active' = k
  /\ IF k \in Keys(previews)
     THEN previews' = [previews EXCEPT ![At(previews, k)].loading = TRUE] /\ UNCHANGED urls
     ELSE Evicts(Append(previews, NewTab(k)), k, urls)

(* previewPath, previewTreeFile, onSearchHit                               *)
Open(k, fallback) ==
  /\ PreviewRel(k, fallback) /\ path' = NoPath /\ UNCHANGED <<converting, retired>>

(* activatePreview, from the row of tabs                                   *)
Activated(k) == active' = IF k \in Keys(previews) THEN k ELSE active
Activate(k) ==
  /\ ~path.on /\ k \in Keys(previews) /\ Activated(k)
  /\ UNCHANGED <<previews, requests, flying, path, converting, urls, retired, asked>>

(* browseFiles                                                             *)
BrowseFiles ==
  /\ ~path.on /\ active' = NoKey
  /\ UNCHANGED <<previews, requests, flying, path, converting, urls, retired, asked>>

(* refreshPreview                                                          *)
RefreshPreview ==
  /\ active \in Files /\ ~previews[At(previews, active)].loading
  /\ Load(active, FALSE) /\ previews' = [previews EXCEPT ![At(previews, active)].loading = TRUE]
  /\ UNCHANGED <<active, path, converting, urls, retired>>

(* closePreviewTab                                                         *)
ClosePreviewTab(k) ==
  /\ k \in Keys(previews) /\ previews' = Without(previews, {k})
  /\ urls' = urls \ Revoked(previews, {k}) /\ requests' = requests \ Waiting(k)
  /\ active' = IF active # k THEN active
               ELSE IF previews' = <<>> THEN NoKey
               ELSE LET i == At(previews, k) IN previews'[IF i > Len(previews') THEN i - 1 ELSE i].key
  /\ UNCHANGED <<flying, path, converting, retired, asked>>

(* clearPreviews: the panel is somewhere else, or gone                     *)
ClearPreviews ==
  /\ previews # <<>> /\ previews' = <<>> /\ active' = NoKey /\ path' = NoPath
  /\ urls' = urls \ Revoked(previews, Keys(previews)) /\ requests' = requests \ UNION {Waiting(k) : k \in Keys(previews)}
  /\ converting' = NoKey /\ UNCHANGED <<flying, retired, asked>>

-----------------------------------------------------------------------------
(* What loadPreview does with its answer.                                  *)
Answers == {"content", "error", "directory", "missing"}
Superseded(r) == r \notin requests
Finally(r) == flying' = flying \ {r} /\ requests' = requests \ {r}
Quiet == UNCHANGED <<converting, asked>>

(* The URL of an answer nobody waits for is revoked where it arrives.      *)
LateAnswer(r) ==
  /\ r \in flying /\ Superseded(r) /\ flying' = flying \ {r}
  /\ UNCHANGED <<previews, active, requests, path, urls, retired>> /\ Quiet

Shows(r, i, answer) ==
  LET url == IF answer = "content" /\ r.key \in Images THEN r.id ELSE 0
      ts == [previews EXCEPT ![i].url = url, ![i].loaded = (answer = "content"), ![i].loading = FALSE]
  IN /\ Evicts(ts, active, urls \union ({url} \ {0}))
     /\ retired' = retired \union ({previews[i].url} \ {0}) /\ UNCHANGED <<active, path>>

Answer(r, answer) ==
  /\ r \in flying /\ ~Superseded(r) /\ Finally(r) /\ Quiet
  /\ LET i == At(previews, r.key)
         leaves == active = r.key /\ (answer = "directory" \/ (answer = "missing" /\ r.fallback))
     IN IF answer # "content" /\ previews[i].loaded
        THEN /\ Evicts([previews EXCEPT ![i].loading = FALSE], active, urls)
             /\ UNCHANGED <<active, path, retired>>
        ELSE IF leaves
        THEN /\ previews' = Without(previews, {r.key}) /\ active' = NoKey
             /\ path' = IF answer = "missing" THEN [on |-> TRUE, back |-> r.back] ELSE NoPath
             /\ UNCHANGED <<urls, retired>>
        ELSE Shows(r, i, answer)

(* nextTick: the image replaced is let go                                  *)
NextTick ==
  /\ retired # {} /\ urls' = urls \ retired /\ retired' = {}
  /\ UNCHANGED <<previews, active, requests, flying, path, converting, asked>>

-----------------------------------------------------------------------------
(* searchTerminalPath, retryPathResolution, changePathSearchDirectory      *)
SearchTerminalPath ==
  /\ path' = [on |-> TRUE, back |-> IF path.on THEN path.back ELSE active]
  /\ active' = NoKey
  /\ UNCHANGED <<previews, requests, flying, converting, urls, retired, asked>>

(* one exact candidate, or choosePathCandidate                             *)
PathChosen(k) ==
  /\ path.on /\ path' = NoPath /\ PreviewRel(k, FALSE) /\ UNCHANGED <<converting, retired>>

(* cancelPathResolution: back to the document that was shown               *)
CancelPathResolution ==
  /\ path.on /\ path' = NoPath /\ Activated(path.back)
  /\ UNCHANGED <<previews, requests, flying, converting, urls, retired, asked>>

(* convertMarkdownToDocx: a document made from the one shown               *)
Convert ==
  /\ converting = NoKey /\ active \in Files \ Images /\ converting' = active
  /\ UNCHANGED <<previews, active, requests, flying, path, urls, retired, asked>>
Converted ==
  /\ converting # NoKey /\ converting' = NoKey
  /\ LET k == Generated(converting)
     IN \/ UNCHANGED <<previews, active, urls>>
        \/ converting \in Keys(previews) /\ k \in Keys(previews) /\ active' = k /\ UNCHANGED <<previews, urls>>
        \/ /\ converting \in Keys(previews) /\ k \notin Keys(previews)
           /\ active' = IF active = converting THEN k ELSE active
           /\ Evicts(Append(previews, [NewTab(k) EXCEPT !.loaded = TRUE, !.loading = FALSE]), active', urls)
  /\ UNCHANGED <<requests, flying, path, retired, asked>>

FpNext ==
  \/ \E k \in Files, fallback \in BOOLEAN : Open(k, fallback)
  \/ \E k \in Files : PathChosen(k)
  \/ \E k \in Keys(previews) : Activate(k) \/ ClosePreviewTab(k)
  \/ \E r \in flying : LateAnswer(r) \/ \E answer \in Answers : Answer(r, answer)
  \/ BrowseFiles \/ RefreshPreview \/ ClearPreviews \/ NextTick \/ SearchTerminalPath
  \/ CancelPathResolution \/ Convert \/ Converted
FpSpec == FpInit /\ [][FpNext]_fpVars

-----------------------------------------------------------------------------
(* However loads, refreshes, closings and evictions cross: an image's URL  *)
(* lives exactly as long as one open tab holds it (up to the next tick), a *)
(* tab says that it loads exactly while a request for it is out, the shown *)
(* document is an open one, and only tabs that load exceed the limit.      *)
PreviewsAreHeld ==
  /\ urls = {u \in {previews[i].url : i \in DOMAIN previews} \union retired : u # 0}
  /\ \A i, j \in DOMAIN previews : i # j => previews[i].key # previews[j].key
  /\ \A i \in DOMAIN previews : previews[i].loading <=> Waiting(previews[i].key) # {}
  /\ active \in Keys(previews) \union {NoKey}
  /\ Cardinality({i \in DOMAIN previews : ~previews[i].loading}) <= MaxOpen
=============================================================================
