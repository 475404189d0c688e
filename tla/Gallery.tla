------------------------------ MODULE Gallery ------------------------------
(***************************************************************************)
(* The lists of the grid-side theme (main.js): the items of a container    *)
(* are laid out by Masonry when the images are there, again when an image  *)
(* or the window changes, and pages of items are added as the reader       *)
(* scrolls; lightboxes open and close with an animation.                   *)
(*                                                                         *)
(* A page of items is one item with one image.  The window's width is the  *)
(* container's.  An image that settles without a load event (an error, or  *)
(* a video in its place) is broken.                                        *)
(***************************************************************************)
EXTENDS Naturals, Sequences

CONSTANTS
    Widths,         \* widths of the window
    MaxPages,       \* bound: pages added to the first
    MaxResizes,     \* bound: resizes of the window
    MaxClicks       \* bound: clicks that open or close the lightbox

ASSUME GalleryAssumption == MaxPages \in Nat /\ MaxResizes \in Nat /\ MaxClicks \in Nat

VARIABLES
    ready,          \* the ready handler has run
    image,          \* of each page: "none" (not here yet), "unseen" (lazily loaded),
                    \* "loading", "loaded", "broken"
    watch,          \* imagesLoaded for each page: "none", "waiting", "due", "done"
    loader,         \* the loading message of the infinite scroll is in the container
    loaderSeen,     \* and its image has loaded
    instance,       \* of Masonry: "none", or made by a "bare" call or "themed", by the
                    \* call that gives the options
    items,          \* how often each page is among Masonry's items
    loaderItem,     \* the loading message is among them
    options,        \* the instance has the options
    placed,         \* pages that have not changed their size since they got their place
    laid,           \* the width the last layout was made for
    width,          \* the width of the window
    resizing,       \* Masonry looks at the width when its timer ends
    onResize,       \* main.js listens to resizes
    retrieving,     \* the infinite scroll waits for a page
    ended,          \* there are no more pages
    resizes,
    early,          \* history: pages in the container when the instance was made whose
                    \* images were still to be reported
    shown, queue, clicks, lastClick

masonry == <<instance, items, loaderItem, placed, laid, early>>
scrolling == <<loader, loaderSeen, retrieving, ended>>
list == <<ready, image, watch, masonry, options, width, resizing, onResize, resizes, scrolling>>
lightbox == <<shown, queue, clicks, lastClick>>
vars == <<list, lightbox>>

Pages == 0 .. MaxPages
Here == {p \in Pages : image[p] # "none"}

\* The pages whose place is the one they need now.
Fits == IF laid = width THEN placed ELSE {}

-----------------------------------------------------------------------------
(***************************************************************************)
(* Masonry, as a plugin of jQuery.                                         *)
(***************************************************************************)
\* masonry(): the first call makes an instance.  Its items are the children of the
\* container that the selector of its options lets through: all of them if the
\* call is bare.  Later calls may set options, but keep the items.  Each lays out.
Masonry(how) ==
    /\ IF instance = "none"
         THEN /\ instance' = how
              /\ items' = [p \in Pages |-> IF p \in Here THEN 1 ELSE 0]
              /\ loaderItem' = (loader /\ how = "bare")
              /\ early' = {p \in Here : p # 0 /\ watch[p] # "done"}
         ELSE UNCHANGED <<instance, items, loaderItem, early>>
    /\ placed' = {p \in Pages : items'[p] > 0}
    /\ laid' = width'

\* masonry("appended", ...): adds items, known or not, and lays these out with the
\* columns of the last layout; without an instance it only complains.
Appended(p) ==
    /\ IF instance = "none"
         THEN UNCHANGED <<items, placed>>
         ELSE /\ items' = [items EXCEPT ![p] = @ + 1]
              /\ placed' = IF laid = width THEN placed \cup {p} ELSE placed
    /\ UNCHANGED <<instance, loaderItem, laid, early>>

\* imagesLoaded watches the images that are there when it is called.
Watched(how) == IF how = "loading" THEN "waiting" ELSE "due"

-----------------------------------------------------------------------------
Init ==
    /\ ready = FALSE
    /\ \E how \in {"unseen", "loading"} :
         image = [p \in Pages |-> IF p = 0 THEN how ELSE "none"]
    /\ watch = [p \in Pages |-> "none"]
    /\ loader = FALSE /\ loaderSeen = FALSE /\ retrieving = FALSE /\ ended = FALSE
    /\ instance = "none" /\ items = [p \in Pages |-> 0] /\ loaderItem = FALSE
    /\ placed = {} /\ early = {} /\ options = FALSE
    /\ width \in Widths /\ laid = width
    /\ resizing = FALSE /\ onResize = FALSE /\ resizes = 0
    /\ shown = TRUE /\ queue = <<>> /\ clicks = 0 /\ lastClick = "hide"

\* The ready handler: imagesLoaded starts to watch, lightboxes are hidden.
Ready ==
    /\ ~ready /\ ready' = TRUE
    /\ watch' = [watch EXCEPT ![0] = Watched(image[0])]
    /\ shown' = FALSE
    /\ UNCHANGED <<image, masonry, options, width, resizing, onResize, resizes, scrolling,
                   queue, clicks, lastClick>>

\* The item comes into view and what it shows is put in.
Unveil(p) ==
    /\ image[p] = "unseen" /\ image' = [image EXCEPT ![p] = "loading"]
    /\ placed' = placed \ {p}
    /\ UNCHANGED <<ready, watch, instance, items, loaderItem, laid, early, options, width,
                   resizing, onResize, resizes, scrolling, lightbox>>

\* Fault: a load is left to imagesLoaded.
ImageSettlesUnheard(p, how) ==
    /\ image[p] = "loading" /\ image' = [image EXCEPT ![p] = how]
    /\ placed' = placed \ {p}
    /\ UNCHANGED <<ready, watch, instance, items, loaderItem, laid, early, options, width,
                   resizing, onResize, resizes, scrolling, lightbox>>

\* An image loads, or fails to, and its item changes its size.  The listener on the
\* container hears a load only.
ImageSettles(p, how) ==
    /\ image[p] = "loading" /\ image' = [image EXCEPT ![p] = how]
    /\ UNCHANGED <<ready, watch, options, width, resizing, onResize, resizes, scrolling,
                   lightbox>>
    /\ IF how = "loaded" /\ ready
         THEN Masonry("bare")
         ELSE placed' = placed \ {p} /\ UNCHANGED <<instance, items, loaderItem, laid, early>>

\* The image of the loading message loads; inside the container that is heard too.
LoaderLoads ==
    /\ ready /\ ~loaderSeen /\ loaderSeen' = TRUE
    /\ UNCHANGED <<ready, image, watch, options, width, resizing, onResize, resizes, loader,
                   retrieving, ended, lightbox>>
    /\ IF loader THEN Masonry("bare") ELSE UNCHANGED masonry

\* imagesLoaded has seen all the images it watches, broken ones too, in copies of
\* its own, and calls back in a timer.
Confirm(p) ==
    /\ watch[p] = "waiting" /\ watch' = [watch EXCEPT ![p] = "due"]
    /\ UNCHANGED <<ready, image, masonry, options, width, resizing, onResize, resizes,
                   scrolling, lightbox>>

\* The images of the first page are there: Masonry gets its options.
ImagesLoaded ==
    /\ watch[0] = "due" /\ watch' = [watch EXCEPT ![0] = "done"]
    /\ options' = TRUE /\ onResize' = TRUE
    /\ UNCHANGED <<ready, image, width, resizing, resizes, scrolling, lightbox>>
    /\ Masonry("themed")

\* The images of an added page are there.
PageLoaded(p) ==
    /\ p # 0 /\ watch[p] = "due" /\ watch' = [watch EXCEPT ![p] = "done"]
    /\ Appended(p)
    /\ UNCHANGED <<ready, image, options, width, resizing, onResize, resizes, scrolling,
                   lightbox>>

\* The window changes its size: main.js listens once the first images are there,
\* an instance of Masonry waits a moment and lays out if the width is not the one
\* it knows.
Resize(w) ==
    /\ resizes < MaxResizes /\ resizes' = resizes + 1
    /\ width' = w
    /\ resizing' = (instance # "none")
    /\ UNCHANGED <<ready, image, watch, options, onResize, scrolling, lightbox>>
    /\ IF onResize THEN Masonry("bare") ELSE UNCHANGED masonry
ResizeTimer ==
    /\ resizing /\ resizing' = FALSE
    /\ UNCHANGED <<ready, image, watch, options, width, onResize, resizes, scrolling, lightbox>>
    /\ IF laid # width THEN Masonry("bare") ELSE UNCHANGED masonry

\* The reader comes to the end of the list: one page at a time is asked for, and the
\* loading message is put into the container, where it stays.
Scroll ==
    /\ ready /\ ~retrieving /\ ~ended /\ Here # Pages
    /\ retrieving' = TRUE /\ loader' = TRUE
    /\ UNCHANGED <<ready, image, watch, masonry, options, width, resizing, onResize, resizes,
                   loaderSeen, ended, lightbox>>

\* Fault: the new items are left to the next layout.
PageArrivesUnwatched(how) ==
    LET p == CHOOSE q \in Pages \ Here : q - 1 \in Here IN
    /\ retrieving /\ ~ended /\ retrieving' = FALSE
    /\ image' = [image EXCEPT ![p] = how]
    /\ UNCHANGED <<ready, watch, masonry, options, width, resizing, onResize, resizes, loader,
                   loaderSeen, ended, lightbox>>

\* The page is put into the container, and main.js waits for its images.
PageArrives(how) ==
    LET p == CHOOSE q \in Pages \ Here : q - 1 \in Here IN
    /\ retrieving /\ ~ended /\ retrieving' = FALSE
    /\ image' = [image EXCEPT ![p] = how]
    /\ watch' = [watch EXCEPT ![p] = Watched(how)]
    /\ UNCHANGED <<ready, masonry, options, width, resizing, onResize, resizes, loader,
                   loaderSeen, ended, lightbox>>

\* No page comes: the infinite scroll is done, and still takes itself to wait.
PageFails ==
    /\ retrieving /\ ~ended /\ ended' = TRUE
    /\ UNCHANGED <<ready, image, watch, masonry, options, width, resizing, onResize, resizes,
                   loader, loaderSeen, retrieving, lightbox>>

-----------------------------------------------------------------------------
(***************************************************************************)
(* The lightbox: jQuery runs one animation after the other.                *)
(***************************************************************************)
\* Fault: a click changes what is to be seen.
ClickToggling(what) ==
    /\ ready /\ clicks < MaxClicks /\ clicks' = clicks + 1
    /\ what = "hide" => shown
    /\ lastClick' = what
    /\ queue' = Append(queue, IF shown THEN "hide" ELSE "show")
    /\ UNCHANGED <<shown, list>>

\* A click on the element shows the lightbox, one on its button, which is seen
\* with it, hides it.
Click(what) ==
    /\ ready /\ clicks < MaxClicks /\ clicks' = clicks + 1
    /\ what = "hide" => shown
    /\ lastClick' = what
    /\ queue' = Append(queue, what)
    /\ UNCHANGED <<shown, list>>

\* An animation starts: what shows is in sight from its start, what hides to its
\* end.
Animate ==
    /\ queue # <<>> /\ queue' = Tail(queue)
    /\ shown' = (Head(queue) = "show")
    /\ UNCHANGED <<clicks, lastClick, list>>

Images == \E p \in Pages : Confirm(p) \/ \E how \in {"loaded", "broken"} : ImageSettles(p, how)
Next ==
    \/ Ready \/ Images \/ LoaderLoads \/ ImagesLoaded \/ \E p \in Pages : PageLoaded(p)
    \/ (\E w \in Widths : Resize(w)) \/ ResizeTimer \/ Scroll \/ PageFails
    \/ \E how \in {"unseen", "loading"} : PageArrives(how)
    \/ \E p \in Pages : Unveil(p)
    \/ \E what \in {"show", "hide"} : Click(what)
    \/ Animate

\* The browser runs handlers and timers, images load or fail in the end.
Fairness ==
    /\ WF_vars(Ready) /\ WF_vars(Images) /\ WF_vars(ImagesLoaded)
    /\ \A p \in Pages : WF_vars(PageLoaded(p))
    /\ WF_vars(ResizeTimer)
Spec == Init /\ [][Next]_vars /\ Fairness

-----------------------------------------------------------------------------
TypeOK ==
    /\ ready \in BOOLEAN /\ options \in BOOLEAN /\ resizing \in BOOLEAN /\ onResize \in BOOLEAN
    /\ image \in [Pages -> {"none", "unseen", "loading", "loaded", "broken"}]
    /\ watch \in [Pages -> {"none", "waiting", "due", "done"}]
    /\ instance \in {"none", "bare", "themed"} /\ loaderItem \in BOOLEAN
    /\ items \in [Pages -> 0 .. 2] /\ placed \subseteq Here /\ early \subseteq Here
    /\ width \in Widths /\ laid \in Widths
    /\ loader \in BOOLEAN /\ loaderSeen \in BOOLEAN
    /\ retrieving \in BOOLEAN /\ ended \in BOOLEAN /\ resizes \in 0 .. MaxResizes
    /\ shown \in BOOLEAN /\ queue \in Seq({"show", "hide"}) /\ lastClick \in {"show", "hide"}
    /\ clicks \in 0 .. MaxClicks /\ Len(queue) =< clicks

\* Once no image is on its way and no callback due, Masonry has the options of the
\* theme and every page of the container among its items: once, or twice if the
\* page was already there when the instance was made and its images were reported
\* afterwards.  It has no other items, unless a call without options made the
\* instance.  And every page lies where it should with the sizes of now, unless
\* its image broke, which main.js does not hear: whether images came before the
\* ready handler, in the first page or in an added one, and whichever call made
\* the instance.  The variables have their types.
LaidOut ==
    TypeOK /\ ((ready /\ \A p \in Here : image[p] # "loading" /\ watch[p] = "done") =>
        /\ options
        /\ loaderItem => instance = "bare"
        /\ \A p \in Here :
             /\ items[p] = IF p \in early THEN 2 ELSE 1
             /\ p \in Fits \/ image[p] = "broken")

\* Every page that comes into the container becomes one of Masonry's items and is
\* laid out with its size of then, again and again if that changes, unless its
\* image breaks: however the callbacks for its page, the making of the instance
\* and resizes are ordered.
ShownEventually ==
    \A p \in Pages : (image[p] # "none") ~> (items[p] > 0 /\ (p \in Fits \/ image[p] = "broken"))

\* When the animations have run, the lightbox is as the last click wanted it.
LastClickWins == (ready /\ queue = <<>>) => (shown <=> lastClick = "show")
=============================================================================
