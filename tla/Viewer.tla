------------------------------- MODULE Viewer -------------------------------
(***************************************************************************)
(* The image viewer (tui/viewer.rs), the cache of decoded images (media.rs)  *)
(* and the requests the main loop serves: links posted in conversations,     *)
(* images received over the mesh, opening and stepping, fetches that end     *)
(* late or fail, and eviction of the image used least recently.              *)
(***************************************************************************)
EXTENDS Integers, Sequences, FiniteSets, SequencesExt

CONSTANTS
  Urls,        \* images linked to
  MeshKeys,    \* images received over the mesh
  Talks,       \* conversations; mesh images are offered in #public
  Capacity,    \* CACHE_CAPACITY
  MaxFetches,  \* bound: fetches of one image under way
  MaxSteps,    \* bound: keys in the viewer
  None

Public == "#public"
Images == Urls \cup MeshKeys

VARIABLES
  talk,      \* active_conversation
  links,     \* <<[url, talk]>>, oldest first
  index, open, load, pending,
  cache,     \* order: the images in the cache, the one used last at the end
  fetching,  \* image -> fetches under way
  steps,
  burst,     \* images that came in since the last frame
  posted     \* what was posted where

viewer == <<index, open, load, pending>>
vars == <<talk, links, viewer, cache, fetching, steps, burst, posted>>
-----------------------------------------------------------------------------
Current == IF index \in DOMAIN links THEN links[index].url ELSE None

\* remember: a url is listed once
Remember(url, in) ==
  IF \E i \in DOMAIN links : links[i].url = url THEN links ELSE Append(links, [url |-> url, talk |-> in])

LinksIn(in) == SelectSeq(links, LAMBDA l : l.talk = in)
IndexOf(url) == CHOOSE i \in DOMAIN links : links[i].url = url

Without(order, url) == SelectSeq(order, LAMBDA u : u # url)

\* The order is that of insertion.
TouchNot(order, url) == IF url \in Range(order) THEN order ELSE Append(order, url)

\* ImageCache::touch
Touch(order, url) == Append(Without(order, url), url)

\* ImageCache::insert
Insert(order, url) ==
  LET after == Touch(order, url) IN IF Len(after) > Capacity THEN Tail(after) ELSE after
-----------------------------------------------------------------------------
\* note_image_link, for a line of a channel or one of ours
Post(url, in) ==
  /\ links' = Remember(url, in) /\ posted' = posted \cup {<<url, in>>}
  /\ UNCHANGED <<talk, viewer, cache, fetching, steps, burst>>

\* The arm for FileReceived, of an image that decodes.
FileReceived(key) ==
  /\ burst + 1 < Capacity /\ burst' = burst + 1
  /\ cache' = Insert(cache, key) /\ links' = Remember(key, Public) /\ posted' = posted \cup {<<key, Public>>}
  /\ UNCHANGED <<talk, viewer, fetching, steps>>

\* open_in: the newest, or one counted from it.
OpenIn(from) ==
  LET here == LinksIn(talk)
      offset == IF from > Len(here) THEN Len(here) ELSE from
  IN /\ ~open /\ here # <<>> /\ steps < MaxSteps /\ steps' = steps + 1
     /\ index' = IndexOf(here[Len(here) + 1 - offset].url)
     /\ open' = TRUE /\ load' = "Loading" /\ pending' = links[index'].url
     /\ UNCHANGED <<talk, links, cache, fetching, burst, posted>>

Step(delta) ==
  LET here == LinksIn(talk)
      at == {i \in DOMAIN here : here[i].url = Current}
      current == IF at = {} THEN 1 ELSE CHOOSE i \in at : TRUE
  IN /\ open /\ here # <<>> /\ steps < MaxSteps /\ steps' = steps + 1
     /\ index' = IndexOf(here[((current - 1 + delta) % Len(here)) + 1].url)
     /\ load' = "Loading" /\ pending' = links[index'].url
     /\ UNCHANGED <<talk, links, open, cache, fetching, burst, posted>>

Close ==
  /\ open /\ open' = FALSE /\ pending' = None
  /\ UNCHANGED <<talk, links, index, load, cache, fetching, steps, burst, posted>>

\* One fetch at a time.
ServeRequestAlone ==
  /\ pending # None /\ pending' = None
  /\ IF pending \in Range(cache)
     THEN cache' = Touch(cache, pending) /\ load' = "Ready" /\ UNCHANGED fetching
     ELSE /\ fetching' = IF \E u \in Images : fetching[u] > 0 THEN fetching ELSE [fetching EXCEPT ![pending] = @ + 1]
          /\ UNCHANGED <<cache, load>>
  /\ UNCHANGED <<talk, links, index, open, steps, burst, posted>>

\* The main loop takes pending_fetch: out of the cache, or by a fetch on a thread of its own.
ServeRequest ==
  /\ pending # None /\ pending' = None
  /\ IF pending \in Range(cache)
     THEN cache' = Touch(cache, pending) /\ load' = "Ready" /\ UNCHANGED fetching
     ELSE /\ fetching[pending] < MaxFetches
          /\ fetching' = [fetching EXCEPT ![pending] = @ + 1] /\ UNCHANGED <<cache, load>>
  /\ UNCHANGED <<talk, links, index, open, steps, burst, posted>>

\* Whatever is on screen takes the outcome.
FinishAny(url, ok) == IF ok THEN "Ready" ELSE "Failed"

\* finish: only the image on screen takes the outcome.
Finish(url, ok) == IF Current # url THEN load ELSE IF ok THEN "Ready" ELSE "Failed"

\* A fetch ends; nothing answers for the key of a mesh image.
FetchEnds(url, ok) ==
  /\ fetching[url] > 0 /\ fetching' = [fetching EXCEPT ![url] = @ - 1]
  /\ ok => url \in Urls /\ burst + 1 < Capacity
  /\ burst' = IF ok THEN burst + 1 ELSE burst
  /\ cache' = IF ok THEN Insert(cache, url) ELSE cache
  /\ load' = Finish(url, ok)
  /\ UNCHANGED <<talk, links, index, open, pending, steps, posted>>

\* image_panel: a frame takes the image on screen out of the cache.
Draw ==
  /\ burst' = 0
  /\ cache' = IF open /\ load = "Ready" /\ Current \in Range(cache) THEN Touch(cache, Current) ELSE cache
  /\ UNCHANGED <<talk, links, viewer, fetching, steps, posted>>

SwitchConversation(in) ==
  /\ ~open /\ talk' = in /\ UNCHANGED <<links, viewer, cache, fetching, steps, burst, posted>>

Init ==
  /\ talk = Public /\ links = <<>> /\ index = 0 /\ open = FALSE /\ load = "Idle" /\ pending = None
  /\ cache = <<>> /\ fetching = [u \in Images |-> 0] /\ steps = 0 /\ burst = 0 /\ posted = {}

Next ==
  \/ \E url \in Urls, in \in Talks : Post(url, in)
  \/ \E key \in MeshKeys : FileReceived(key)
  \/ \E from \in 1..2 : OpenIn(from)
  \/ \E delta \in {-1, 1} : Step(delta)
  \/ Close \/ ServeRequest \/ Draw
  \/ \E url \in Images, ok \in BOOLEAN : FetchEnds(url, ok)
  \/ \E in \in Talks : SwitchConversation(in)

Spec == Init /\ [][Next]_vars

\* The main loop serves requests and draws at every round; a fetch ends by REQUEST_TIMEOUT.
FairSpec ==
  Spec /\ WF_vars(ServeRequest) /\ WF_vars(Draw)
       /\ \A url \in Images : WF_vars(FetchEnds(url, FALSE))
-----------------------------------------------------------------------------
\* An image shown as ready is in the cache, whichever fetch ended last and whatever arrived
\* since: the frames keep the image on screen the one used last.
ReadyIsCached == (open /\ load = "Ready") => Current \in Range(cache)

\* The viewer never says "loading" with nothing under way for the image on screen.
LoadingHasFetch == (open /\ load = "Loading") => pending = Current \/ fetching[Current] > 0

\* What is loading is shown or reported as failed, or the viewer is closed.
LoadingEnds == (open /\ load = "Loading") ~> (~open \/ load # "Loading")

\* An image that is ready is not reported as failed while it stays on screen.
ReadyStays == [][(open /\ open' /\ load = "Ready" /\ index' = index) => load' # "Failed"]_vars

\* An image received over the mesh is never asked of the network.
MeshStaysLocal == \A key \in MeshKeys : fetching[key] = 0

\* A link is offered in every conversation where it was posted.
PostedIsListed == \A p \in posted : \E i \in DOMAIN links : links[i].url = p[1] /\ links[i].talk = p[2]
=============================================================================
