--------------------------- MODULE GalleryProofs ---------------------------
(***************************************************************************)
(* Proofs about Gallery, for any number of pages, resizes and clicks.      *)
(***************************************************************************)
EXTENDS Gallery, SequenceTheorems, TLAPS

\* The provers are tried in turn: those a leaf cites, or else Zenon before SMT.
USE ZenonT(30), SMTT(30)

-----------------------------------------------------------------------------
(***************************************************************************)
(* The lightbox: the animation queued last is the one the last click asked *)
(* for; when none is queued, the lightbox is in that state.                *)
(***************************************************************************)
LightboxInv ==
    /\ shown \in BOOLEAN /\ queue \in Seq({"show", "hide"}) /\ lastClick \in {"show", "hide"}
    /\ clicks \in 0 .. MaxClicks /\ Len(queue) =< clicks
    /\ IF ~ready THEN queue = <<>> /\ lastClick = "hide"
       ELSE IF queue = <<>> THEN shown <=> lastClick = "show"
       ELSE queue[Len(queue)] = lastClick

LEMMA LightboxStep == LightboxInv /\ [Next]_vars => LightboxInv'
  <1> SUFFICES ASSUME LightboxInv, [Next]_vars PROVE LightboxInv'
    OBVIOUS
  <1>1. CASE Ready
    BY <1>1, GalleryAssumption DEF Ready, LightboxInv
  <1>2. ASSUME NEW what \in {"show", "hide"}, Click(what) PROVE LightboxInv'
    <2>1. queue' = Append(queue, what) /\ clicks' = clicks + 1 /\ clicks' \in 0 .. MaxClicks
      BY SMTT(30), Z3T(30), <1>2, GalleryAssumption DEF Click, LightboxInv
    <2>2. queue' \in Seq({"show", "hide"}) /\ Len(queue') = Len(queue) + 1
      BY SMTT(30), Z3T(30), <2>1 DEF LightboxInv
    <2>3. queue' # <<>> /\ queue'[Len(queue')] = what
      BY SMTT(30), Z3T(30), <2>1, <2>2 DEF LightboxInv
    <2> QED
      BY SMTT(30), Z3T(30), <1>2, <2>1, <2>2, <2>3 DEF Click, LightboxInv, list
  <1>3. CASE Animate
    <2>1. /\ queue # <<>> /\ queue' = Tail(queue)
          /\ queue' \in Seq({"show", "hide"}) /\ Len(queue') = Len(queue) - 1
          /\ shown' = (queue[1] = "show") /\ ready /\ ready' /\ lastClick' = lastClick
          /\ clicks' = clicks
      BY SMTT(30), Z3T(30), <1>3 DEF Animate, LightboxInv, list
    <2>2. CASE Len(queue) = 1
      <3>1. queue' = <<>> /\ queue[Len(queue)] = lastClick
        BY SMTT(30), Z3T(30), <2>1, <2>2, EmptySeq DEF LightboxInv
      <3>2. (shown' <=> lastClick = "show") /\ shown' \in BOOLEAN
        BY <2>1, <2>2, <3>1
      <3>3. 0 =< clicks /\ Len(queue') = 0
        BY SMTT(30), Z3T(30), <2>1, <2>2 DEF LightboxInv
      <3> QED
        BY <2>1, <3>1, <3>2, <3>3 DEF LightboxInv
    <2>3. CASE Len(queue) # 1
      <3>1. Len(queue) \in Nat /\ Len(queue) > 1
        BY SMTT(30), Z3T(30), <2>1, <2>3, EmptySeq DEF LightboxInv
      <3>2. queue' # <<>> /\ queue'[Len(queue')] = queue[Len(queue)]
        BY SMTT(30), Z3T(30), <2>1, <3>1, HeadTailProperties DEF LightboxInv
      <3> QED
        BY SMTT(30), Z3T(30), <2>1, <3>2 DEF LightboxInv
    <2> QED
      BY <2>2, <2>3
  <1>4. CASE UNCHANGED <<ready, lightbox>>
    BY <1>4 DEF LightboxInv, lightbox
  <1> QED
    BY <1>1, <1>2, <1>3, <1>4
    DEF Next, Images, Confirm, ImageSettles, LoaderLoads, ImagesLoaded, PageLoaded, Resize,
        ResizeTimer, Scroll, PageFails, PageArrives, Unveil, vars, list, lightbox

LEMMA LightboxInit == Init => LightboxInv
  BY SMTT(30), Z3T(30), GalleryAssumption DEF Init, LightboxInv

\* Whatever clicks come while animations run, the lightbox of the theme ends as the
\* last of them asked.
THEOREM LastClickAlwaysWins == Spec => []LastClickWins
  <1>1. LightboxInv => LastClickWins
    BY DEF LightboxInv, LastClickWins
  <1> QED
    BY <1>1, LightboxInit, LightboxStep, PTL DEF Spec

-----------------------------------------------------------------------------
(***************************************************************************)
(* The list.  Pages come one after the other.  A page is among Masonry's   *)
(* items once for being there when the instance was made, and once more    *)
(* for its report after that.  Once the first images are reported, every   *)
(* layout is for the width of now, and an item without a place has an      *)
(* image that is loading or broken.                                        *)
(***************************************************************************)
ListTypeOK ==
    /\ ready \in BOOLEAN /\ options \in BOOLEAN /\ resizing \in BOOLEAN /\ onResize \in BOOLEAN
    /\ image \in [Pages -> {"none", "unseen", "loading", "loaded", "broken"}]
    /\ watch \in [Pages -> {"none", "waiting", "due", "done"}]
    /\ instance \in {"none", "bare", "themed"} /\ loaderItem \in BOOLEAN
    /\ width \in Widths /\ laid \in Widths
    /\ loader \in BOOLEAN /\ loaderSeen \in BOOLEAN
    /\ retrieving \in BOOLEAN /\ ended \in BOOLEAN /\ resizes \in 0 .. MaxResizes

PagesInOrder ==
    /\ \E k \in Pages : Here = 0 .. k
    /\ retrieving => Here # Pages
    /\ \A p \in Pages : watch[p] # "none" => p \in Here
    /\ watch[0] # "none" => ready

Count(p) ==
    (IF p = 0 \/ p \in early THEN 1 ELSE 0) + (IF p # 0 /\ watch[p] = "done" THEN 1 ELSE 0)

ItemsCounted ==
    /\ early \subseteq Here /\ 0 \notin early
    /\ loaderItem => instance = "bare"
    /\ items \in [Pages -> 0 .. 2]
    /\ \A p \in Pages : items[p] = IF instance = "none" THEN 0 ELSE Count(p)

ItemsFit ==
    /\ placed \subseteq Here
    /\ watch[0] = "done" =>
         /\ options /\ onResize /\ instance # "none" /\ laid = width
         /\ \A p \in Pages : items[p] > 0 => p \in placed \/ image[p] \in {"loading", "broken"}

ListInv == ListTypeOK /\ PagesInOrder /\ ItemsCounted /\ ItemsFit

\* The first page is in the container from the start.
LEMMA FirstPageHere == PagesInOrder => 0 \in Here /\ 0 \in Pages
  BY SMTT(30), Z3T(30), GalleryAssumption DEF PagesInOrder, Pages

\* Only pages of the container are items.
LEMMA ItemsAreHere ==
    ASSUME PagesInOrder, ItemsCounted, NEW p \in Pages, items[p] > 0
    PROVE  p \in Here
  <1> SUFFICES ASSUME p \notin Here PROVE FALSE
    OBVIOUS
  <1>1. p # 0 /\ p \notin early /\ watch[p] # "done"
    BY FirstPageHere DEF PagesInOrder, ItemsCounted
  <1>2. Count(p) = 0
    BY SMTT(30), Z3T(30), <1>1 DEF Count
  <1> QED
    BY SMTT(30), Z3T(30), <1>2 DEF ItemsCounted

\* Laying out counts the items anew only when it makes the instance, and gives a
\* place to each.
LEMMA LayoutFits ==
    ASSUME ListInv, NEW how \in {"bare", "themed"}, Masonry(how), Here' = Here,
           width' \in Widths, \A p \in Pages : p # 0 => watch'[p] = watch[p], PagesInOrder'
    PROVE  /\ ItemsCounted' /\ placed' \subseteq Here /\ laid' = width' /\ laid' \in Widths
           /\ instance' # "none" /\ instance' \in {"none", "bare", "themed"}
           /\ loaderItem' \in BOOLEAN
           /\ \A p \in Pages : items'[p] > 0 => p \in placed'
  <1> USE DEF ListInv
  <1>1. /\ laid' = width' /\ placed' = {p \in Pages : items'[p] > 0}
        /\ instance' # "none" /\ instance' \in {"none", "bare", "themed"}
        /\ loaderItem' \in BOOLEAN
    BY DEF Masonry, ListTypeOK
  <1>2. ItemsCounted'
    <2>1. CASE instance # "none"
      <3>1. UNCHANGED <<instance, items, loaderItem, early>>
        BY <2>1 DEF Masonry
      <3>2. \A p \in Pages : Count(p)' = Count(p)
        BY <3>1 DEF Count
      <3> QED
        BY <2>1, <3>1, <3>2 DEF ItemsCounted
    <2>2. CASE instance = "none"
      <3>1. /\ items' = [p \in Pages |-> IF p \in Here THEN 1 ELSE 0]
            /\ early' = {p \in Here : p # 0 /\ watch[p] # "done"}
            /\ loaderItem' => instance' = "bare"
        BY <2>2 DEF Masonry
      <3>2. ASSUME NEW p \in Pages PROVE items'[p] = Count(p)' /\ items'[p] \in 0 .. 2
        <4>1. items'[p] = IF p \in Here THEN 1 ELSE 0
          BY <3>1
        <4>2. CASE p \in Here
          BY SMTT(30), Z3T(30), <3>1, <4>1, <4>2 DEF Count
        <4>3. CASE p \notin Here
          <5>1. p # 0 /\ p \notin early' /\ watch'[p] # "done"
            BY <3>1, <4>3, FirstPageHere DEF PagesInOrder
          <5> QED
            BY SMTT(30), Z3T(30), <4>1, <4>3, <5>1 DEF Count
        <4> QED
          BY <4>2, <4>3
      <3>3. items' \in [Pages -> 0 .. 2]
        BY <3>1, <3>2
      <3> QED
        BY <1>1, <3>1, <3>2, <3>3 DEF ItemsCounted
    <2> QED
      BY <2>1, <2>2
  <1>3. placed' \subseteq Here
    <2>1. ASSUME NEW p \in Pages, items'[p] > 0 PROVE p \in Here
      <3>1. CASE instance # "none"
        BY <2>1, <3>1, ItemsAreHere DEF Masonry
      <3>2. CASE instance = "none"
        <4>1. items'[p] = IF p \in Here THEN 1 ELSE 0
          BY <3>2 DEF Masonry
        <4> QED
          BY SMTT(30), Z3T(30), <2>1, <4>1
      <3> QED
        BY <3>1, <3>2
    <2> QED
      BY <1>1, <2>1
  <1> QED
    BY <1>1, <1>2, <1>3

\* What leaves the items and the container alone and reports no page keeps the
\* count; what also leaves the places alone keeps the fit.
LEMMA CountKept ==
    ASSUME ItemsCounted, UNCHANGED <<instance, items, loaderItem, early>>, Here' = Here,
           \A p \in Pages : p # 0 => (watch'[p] = "done" <=> watch[p] = "done")
    PROVE  ItemsCounted'
  <1>1. \A p \in Pages : Count(p)' = Count(p)
    BY DEF Count
  <1> QED
    BY <1>1 DEF ItemsCounted

LEMMA ListStep == ListInv /\ [Next]_vars => ListInv'
  <1> SUFFICES ASSUME ListInv, [Next]_vars PROVE ListInv'
    OBVIOUS
  <1> USE DEF ListInv
  <1>1. ASSUME UNCHANGED image PROVE Here' = Here
    BY <1>1 DEF Here
  <1>2. CASE UNCHANGED list
    BY <1>1, <1>2, CountKept DEF list, masonry, scrolling, ListTypeOK, PagesInOrder, ItemsFit
  <1>3. CASE Ready
    <2>1. Watched(image[0]) \in {"waiting", "due"} /\ 0 \in Pages
      BY FirstPageHere DEF Watched
    <2>2. /\ watch' = [watch EXCEPT ![0] = Watched(image[0])] /\ ready' = TRUE
          /\ UNCHANGED <<image, masonry, options, width, resizing, onResize, resizes, scrolling>>
      BY <1>3 DEF Ready
    <2>3. ListTypeOK'
      BY <2>1, <2>2 DEF ListTypeOK, masonry, scrolling
    <2>4. PagesInOrder'
      BY <1>1, <2>1, <2>2, FirstPageHere DEF PagesInOrder, ListTypeOK, scrolling
    <2>5. ItemsCounted'
      BY <1>1, <2>2, CountKept DEF masonry, ListTypeOK
    <2>6. ItemsFit'
      BY <1>1, <2>1, <2>2 DEF ItemsFit, ListTypeOK, masonry
    <2> QED
      BY <2>3, <2>4, <2>5, <2>6
  <1>4. ASSUME NEW p \in Pages, Unveil(p) PROVE ListInv'
    <2>1. Here' = Here
      BY <1>4 DEF Here, Unveil, ListTypeOK
    <2>2. ListTypeOK' /\ PagesInOrder'
      BY <1>4, <2>1 DEF Unveil, ListTypeOK, PagesInOrder, scrolling
    <2>3. ItemsCounted'
      BY <1>4, <2>1, CountKept DEF Unveil
    <2>4. ItemsFit'
      BY <1>4, <2>1 DEF Unveil, ItemsFit, ListTypeOK
    <2> QED
      BY <2>2, <2>3, <2>4
  <1>5. ASSUME NEW p \in Pages, NEW how \in {"loaded", "broken"}, ImageSettles(p, how)
        PROVE  ListInv'
    <2>1. Here' = Here
      BY <1>5 DEF Here, ImageSettles, ListTypeOK
    <2>2. PagesInOrder'
      BY <1>5, <2>1 DEF ImageSettles, PagesInOrder, scrolling
    <2>3. CASE how = "loaded" /\ ready
      <3>1. /\ ItemsCounted' /\ placed' \subseteq Here /\ laid' = width' /\ laid' \in Widths
            /\ instance' # "none" /\ instance' \in {"none", "bare", "themed"}
            /\ loaderItem' \in BOOLEAN
            /\ \A q \in Pages : items'[q] > 0 => q \in placed'
        BY <1>5, <2>1, <2>2, <2>3, LayoutFits DEF ImageSettles, ListTypeOK
      <3> QED
        BY <1>5, <2>1, <2>2, <3>1 DEF ImageSettles, ListTypeOK, ItemsFit, scrolling
    <2>4. CASE ~(how = "loaded" /\ ready)
      <3>1. placed' = placed \ {p} /\ UNCHANGED <<instance, items, loaderItem, laid, early>>
        BY <1>5, <2>4 DEF ImageSettles
      <3>2. ItemsCounted'
        BY <1>5, <2>1, <3>1, CountKept DEF ImageSettles
      <3>3. watch[0] = "done" => image'[p] = "broken"
        BY <1>5, <2>4 DEF ImageSettles, ListTypeOK, PagesInOrder
      <3>4. ItemsFit'
        BY <1>5, <2>1, <3>1, <3>3 DEF ImageSettles, ItemsFit, ListTypeOK
      <3> QED
        BY <1>5, <2>2, <3>1, <3>2, <3>4 DEF ImageSettles, ListTypeOK, scrolling
    <2> QED
      BY <2>3, <2>4
  <1>6. ASSUME NEW p \in Pages, Confirm(p) PROVE ListInv'
    <2>1. /\ watch[p] = "waiting" /\ watch' = [watch EXCEPT ![p] = "due"]
          /\ UNCHANGED <<ready, image, masonry, options, width, resizing, onResize, resizes, scrolling>>
      BY <1>6 DEF Confirm
    <2>2. \A q \in Pages : /\ watch'[q] = "done" <=> watch[q] = "done"
                           /\ watch'[q] = "none" <=> watch[q] = "none"
      BY <2>1 DEF ListTypeOK
    <2>3. ListTypeOK' /\ PagesInOrder'
      BY <1>1, <2>1, <2>2, FirstPageHere DEF ListTypeOK, PagesInOrder, masonry, scrolling
    <2>4. ItemsCounted' /\ ItemsFit'
      BY <1>1, <2>1, <2>2, CountKept, FirstPageHere DEF ItemsFit, masonry
    <2> QED
      BY <2>3, <2>4
  <1>7. ASSUME NEW how \in {"bare", "themed"}, Masonry(how), UNCHANGED <<image, ready, retrieving>>,
               width' \in Widths, resizes' \in 0 .. MaxResizes, resizing' \in BOOLEAN,
               UNCHANGED <<loader, ended>>, loaderSeen' \in BOOLEAN,
               \/ UNCHANGED <<watch, options, onResize>>
               \/ watch' = [watch EXCEPT ![0] = "done"] /\ options' /\ onResize' /\ watch[0] = "due"
                    /\ options' \in BOOLEAN /\ onResize' \in BOOLEAN
        PROVE  ListInv'
    <2>1. Here' = Here
      BY <1>1, <1>7
    <2>2. \A p \in Pages : p # 0 => watch'[p] = watch[p]
      BY <1>7 DEF ListTypeOK
    <2>3. watch' \in [Pages -> {"none", "waiting", "due", "done"}]
      BY <1>7 DEF ListTypeOK
    <2>4. PagesInOrder'
      BY <1>7, <2>1, <2>2, FirstPageHere DEF PagesInOrder
    <2>5. /\ ItemsCounted' /\ placed' \subseteq Here /\ laid' = width' /\ laid' \in Widths
          /\ instance' # "none" /\ instance' \in {"none", "bare", "themed"}
          /\ loaderItem' \in BOOLEAN
          /\ \A q \in Pages : items'[q] > 0 => q \in placed'
      BY <1>7, <2>1, <2>2, <2>4, LayoutFits
    <2>6. ListTypeOK'
      BY <1>7, <2>3, <2>5 DEF ListTypeOK
    <2>7. watch'[0] = "done" => options' /\ onResize'
      BY <1>7 DEF ItemsFit
    <2> QED
      BY <2>1, <2>4, <2>5, <2>6, <2>7 DEF ItemsFit
  <1>8. CASE LoaderLoads
    <2>1. CASE loader
      BY <1>7, <1>8, <2>1 DEF LoaderLoads, ListTypeOK
    <2>2. CASE ~loader
      BY <1>1, <1>8, <2>2, CountKept
      DEF LoaderLoads, masonry, ListTypeOK, PagesInOrder, ItemsFit
    <2> QED
      BY <2>1, <2>2
  <1>9. CASE ImagesLoaded
    BY <1>7, <1>9 DEF ImagesLoaded, ListTypeOK, scrolling
  <1>10. ASSUME NEW p \in Pages, PageLoaded(p) PROVE ListInv'
    <2>1. /\ p # 0 /\ watch[p] = "due" /\ watch' = [watch EXCEPT ![p] = "done"] /\ Appended(p)
          /\ UNCHANGED <<ready, image, options, width, resizing, onResize, resizes, scrolling>>
      BY <1>10 DEF PageLoaded
    <2>2. p \in Here
      BY <2>1 DEF PagesInOrder
    <2>3. ListTypeOK' /\ PagesInOrder'
      BY <1>1, <2>1, <2>2 DEF ListTypeOK, PagesInOrder, Appended, scrolling
    <2>4. ItemsCounted'
      <3>1. \A q \in Pages : q # p => Count(q)' = Count(q)
        BY <2>1 DEF Count, Appended, ListTypeOK
      <3>2. Count(p)' = Count(p) + 1 /\ Count(p)' \in 0 .. 2
        BY SMTT(30), Z3T(30), <2>1 DEF Count, Appended, ListTypeOK
      <3>3. CASE instance = "none"
        BY <1>1, <2>1, <3>3 DEF Appended, ItemsCounted
      <3>4. CASE instance # "none"
        <4>1. items' = [items EXCEPT ![p] = @ + 1] /\ items[p] = Count(p)
          BY <2>1, <3>4 DEF Appended, ItemsCounted
        <4>2. items'[p] = Count(p)' /\ \A q \in Pages : q # p => items'[q] = items[q]
          BY <3>2, <4>1 DEF ItemsCounted
        <4>3. items' \in [Pages -> 0 .. 2]
          BY <3>2, <4>1, <4>2 DEF ItemsCounted
        <4> QED
          BY <1>1, <2>1, <3>1, <3>4, <4>2, <4>3 DEF Appended, ItemsCounted
      <3> QED
        BY <3>3, <3>4
    <2>5. ItemsFit'
      <3>1. placed' \subseteq Here
        BY <2>1, <2>2 DEF Appended, ItemsFit
      <3>2. ASSUME watch'[0] = "done"
            PROVE  /\ options' /\ onResize' /\ instance' # "none" /\ laid' = width'
                   /\ \A q \in Pages : items'[q] > 0 => q \in placed' \/ image'[q] \in {"loading", "broken"}
        <4>1. /\ options /\ onResize /\ instance # "none" /\ laid = width
              /\ \A q \in Pages : items[q] > 0 => q \in placed \/ image[q] \in {"loading", "broken"}
          BY <2>1, <3>2 DEF ItemsFit, ListTypeOK
        <4>2. /\ items' = [items EXCEPT ![p] = @ + 1] /\ placed' = placed \cup {p}
              /\ UNCHANGED <<instance, laid>>
          BY <2>1, <4>1 DEF Appended
        <4>3. \A q \in Pages : q # p => items'[q] = items[q]
          BY <4>2 DEF ItemsCounted
        <4> QED
          BY <2>1, <4>1, <4>2, <4>3
      <3> QED
        BY <1>1, <2>1, <3>1, <3>2 DEF ItemsFit
    <2> QED
      BY <2>3, <2>4, <2>5
  <1>11. ASSUME NEW w \in Widths, Resize(w) PROVE ListInv'
    <2>1. resizes' \in 0 .. MaxResizes
      BY SMTT(30), Z3T(30), <1>11, GalleryAssumption DEF Resize, ListTypeOK
    <2>2. CASE onResize
      <3>1. /\ Masonry("bare") /\ width' = w /\ resizing' \in BOOLEAN
            /\ UNCHANGED <<image, ready, retrieving, loader, ended, loaderSeen, watch, options, onResize>>
        BY <1>11, <2>2 DEF Resize, scrolling
      <3>2. loaderSeen' \in BOOLEAN
        BY <3>1 DEF ListTypeOK
      <3> QED
        BY <1>7, <2>1, <3>1, <3>2
    <2>3. CASE ~onResize
      <3>1. watch[0] # "done"
        BY <2>3 DEF ItemsFit
      <3> QED
        BY <1>1, <1>11, <2>1, <2>3, <3>1, CountKept
        DEF Resize, masonry, scrolling, ListTypeOK, PagesInOrder, ItemsFit
    <2> QED
      BY <2>2, <2>3
  <1>12. CASE ResizeTimer
    <2>1. CASE laid # width
      BY <1>7, <1>12, <2>1 DEF ResizeTimer, ListTypeOK, scrolling
    <2>2. CASE laid = width
      BY <1>1, <1>12, <2>2, CountKept
      DEF ResizeTimer, masonry, scrolling, ListTypeOK, PagesInOrder, ItemsFit
    <2> QED
      BY <2>1, <2>2
  <1>13. CASE Scroll \/ PageFails
    BY <1>1, <1>13, CountKept DEF Scroll, PageFails, masonry, ListTypeOK, PagesInOrder, ItemsFit
  <1>14. ASSUME NEW how \in {"unseen", "loading"}, PageArrives(how) PROVE ListInv'
    <2>1. PICK p : p = CHOOSE q \in Pages \ Here : q - 1 \in Here
      OBVIOUS
    <2>2. PICK k \in Pages : Here = 0 .. k
      BY DEF PagesInOrder
    <2>3. p = k + 1 /\ p \in Pages
      <3>1. k + 1 \in Pages \ Here /\ (k + 1) - 1 \in Here
        BY SMTT(30), Z3T(30), <1>14, <2>2, GalleryAssumption DEF PageArrives, PagesInOrder, Pages
      <3>2. \A q \in Pages \ Here : q - 1 \in Here => q = k + 1
        BY SMTT(30), Z3T(30), <2>2, GalleryAssumption DEF Pages
      <3> QED
        BY <2>1, <3>1, <3>2
    <2>4. /\ image' = [image EXCEPT ![p] = how] /\ watch' = [watch EXCEPT ![p] = Watched(how)]
          /\ retrieving' = FALSE
          /\ UNCHANGED <<ready, masonry, options, width, resizing, onResize, resizes, loader,
                         loaderSeen, ended>>
      BY <1>14, <2>1 DEF PageArrives
    <2>5. Watched(how) \in {"waiting", "due"}
      BY DEF Watched
    <2>6. ListTypeOK'
      BY <2>3, <2>4, <2>5 DEF ListTypeOK, masonry
    <2>7. Here' = Here \cup {p} /\ p \notin Here /\ p # 0
      BY SMTT(30), Z3T(30), <2>2, <2>3, <2>4, GalleryAssumption DEF Here, Pages, ListTypeOK
    <2>8. PagesInOrder'
      <3>1. Here' = 0 .. p
        BY SMTT(30), Z3T(30), <2>2, <2>3, <2>7, GalleryAssumption DEF Pages
      <3> QED
        BY <2>3, <2>4, <2>7, <3>1, FirstPageHere DEF PagesInOrder, ListTypeOK
    <2>9. \A q \in Pages : watch'[q] = "done" <=> watch[q] = "done"
      BY <2>3, <2>4, <2>5, <2>7 DEF PagesInOrder, ListTypeOK
    <2>10. ItemsCounted'
      <3>1. \A q \in Pages : Count(q)' = Count(q)
        BY <2>4, <2>9 DEF Count, masonry
      <3> QED
        BY <2>4, <2>7, <3>1 DEF ItemsCounted, masonry
    <2>11. ~(items[p] > 0)
      BY <2>3, <2>7, ItemsAreHere
    <2>12. ItemsFit'
      BY <2>4, <2>7, <2>9, <2>11, FirstPageHere DEF ItemsFit, ListTypeOK, masonry
    <2> QED
      BY <2>6, <2>8, <2>10, <2>12
  <1>15. ASSUME NEW what, Click(what) \/ Animate PROVE ListInv'
    BY <1>2, <1>15 DEF Click, Animate
  <1> QED
    BY <1>2, <1>3, <1>4, <1>5, <1>6, <1>8, <1>9, <1>10, <1>11, <1>12, <1>13, <1>14, <1>15
    DEF Next, Images, vars

LEMMA ListInit == Init => ListInv
  <1> SUFFICES ASSUME Init PROVE ListInv
    OBVIOUS
  <1>1. 0 \in Pages /\ 0 .. 0 = {0} /\ 0 \in 0 .. 2 /\ 0 \in 0 .. MaxResizes
    BY SMTT(30), Z3T(30), GalleryAssumption DEF Pages
  <1>2. Here = 0 .. 0
    BY <1>1 DEF Init, Here
  <1>3. ListTypeOK
    BY <1>1 DEF Init, ListTypeOK
  <1>4. PagesInOrder
    BY <1>1, <1>2 DEF Init, PagesInOrder
  <1>5. ItemsCounted /\ ItemsFit
    BY <1>1 DEF Init, ItemsCounted, ItemsFit
  <1> QED
    BY <1>3, <1>4, <1>5 DEF ListInv

\* When no image is on its way and no callback of imagesLoaded due, Masonry has every
\* page of the container among its items as often as LaidOut says, and has laid out
\* all whose image did not break for the width of now, whichever call of main.js
\* made the instance and in whatever order images, pages and resizes came.
THEOREM ListAlwaysLaidOut == Spec => []LaidOut
  <1>1. ListInv /\ LightboxInv => LaidOut
    <2> SUFFICES ASSUME ListInv, LightboxInv PROVE LaidOut
      OBVIOUS
    <2>1. TypeOK
      BY DEF ListInv, ListTypeOK, ItemsCounted, ItemsFit, LightboxInv, TypeOK
    <2>2. ASSUME \A p \in Here : image[p] # "loading" /\ watch[p] = "done"
          PROVE  /\ options
                 /\ loaderItem => instance = "bare"
                 /\ \A p \in Here :
                      /\ items[p] = IF p \in early THEN 2 ELSE 1
                      /\ p \in Fits \/ image[p] = "broken"
      <3>1. watch[0] = "done"
        BY <2>2, FirstPageHere DEF ListInv
      <3>2. options /\ (loaderItem => instance = "bare") /\ laid = width /\ instance # "none"
        BY <3>1 DEF ListInv, ItemsFit, ItemsCounted
      <3>3. ASSUME NEW p \in Here
            PROVE  items[p] = (IF p \in early THEN 2 ELSE 1) /\ (p \in Fits \/ image[p] = "broken")
        <4>1. p \in Pages /\ items[p] = Count(p)
          BY <3>2 DEF Here, ListInv, ItemsCounted
        <4>2. Count(p) = IF p \in early THEN 2 ELSE 1
          BY SMTT(30), Z3T(30), <2>2 DEF Count, ListInv, ItemsCounted
        <4>3. items[p] > 0
          BY SMTT(30), Z3T(30), <4>1, <4>2
        <4> QED
          BY <2>2, <3>1, <3>2, <4>1, <4>2, <4>3 DEF ListInv, ItemsFit, Fits
      <3> QED
        BY <3>2, <3>3
    <2> QED
      BY <2>1, <2>2 DEF LaidOut
  <1> QED
    BY <1>1, ListInit, ListStep, LightboxInit, LightboxStep, PTL DEF Spec
=============================================================================
