-------------------------- MODULE ResponsiveImages --------------------------
(***************************************************************************)
(* The responsive images of ElementQueries.js on one element: its img      *)
(* children have a least width each, or none; attachResponsiveImage shows  *)
(* one of them, by its check of the width whenever the size sensor         *)
(* reports.  A child that was not shown before is first loaded by another  *)
(* image object, whose onload makes the change later.  Every update of the *)
(* page's element queries attaches once more, with locals of its own.      *)
(*                                                                         *)
(* Children are numbered from 0.  for-in yields the number as a string and *)
(* the default is a number, and the code compares the two by identity: an  *)
(* index is a record of the number and of its type.                        *)
(***************************************************************************)
EXTENDS Naturals, Sequences, FiniteSets, FiniteSetsExt

CONSTANTS
    RuleSets,       \* sequences of least widths, 0 for a child without one
    Widths,         \* of the element, while its sensor can hear it
    MaxAttached,    \* bound: calls of attachResponsiveImage
    MaxChanges      \* bound: changes of the width

ASSUME ImagesAssumption ==
    /\ RuleSets \subseteq Seq(Nat) \ {<<>>} /\ Widths \subseteq Nat
    /\ MaxAttached \in Nat /\ MaxChanges \in Nat

VARIABLES
    minWidths,      \* the children's least widths
    width,
    reporting,      \* a report of the sensor is under way
    page,           \* what is displayed, which children have their src, and the
                    \* locals of each attachment
    raced, failed,  \* history: a check met an image loading; a load failed
    changes

imageVars == <<minWidths, width, reporting, page, raced, failed, changes>>

Children == 0 .. Len(minWidths) - 1
MinWidth(i) == minWidths[i + 1]
Str(i) == [type |-> "string", n |-> i]
Num(i) == [type |-> "number", n |-> i]
Indexes == {Str(i) : i \in Children} \cup {Num(i) : i \in Children}

Plain == {i \in Children : MinWidth(i) = 0}
DefaultImageId == IF Plain = {} THEN 0 ELSE Max(Plain)

\* The child the rules ask for: the last one that is not too wide.
Matching == {i \in Children : MinWidth(i) # 0 /\ width > MinWidth(i)}
ImageToDisplay == IF Matching # {} THEN Str(Max(Matching)) ELSE Num(DefaultImageId)

ImagesInit ==
    /\ minWidths \in RuleSets /\ width \in Widths /\ reporting = FALSE
    /\ page = [display |-> Children, src |-> {}, attached |-> <<>>]
    /\ raced = FALSE /\ failed = FALSE /\ changes = 0

-----------------------------------------------------------------------------
\* What is displayed after the children that were active give way to an image.
\* Fault: they stay.
SwitchKeeping(display, actives, image) == display \cup {image.n}

Switch(display, actives, image) == (display \ {l.n : l \in actives}) \cup {image.n}

\* check, run for the attachments of which, one after the other.  All ask for the
\* same image: some display it already, some have loaded it before and switch, and
\* the others start to load it.  Images that one attachment is loading are counted
\* by their index.
Checked(p, which) ==
    LET image == ImageToDisplay
        active == {a \in which : p.attached[a].lastActiveImage = image}
        switching == {a \in which \ active : image.n \in p.attached[a].loadedImages}
    IN  [display |-> IF switching = {} THEN p.display
                     ELSE Switch(p.display, {p.attached[a].lastActiveImage : a \in switching}, image),
         src |-> p.src \cup {image.n : a \in active},
         attached |-> [a \in DOMAIN p.attached |->
             IF a \in switching THEN [p.attached[a] EXCEPT !.lastActiveImage = image]
             ELSE IF a \in which \ active THEN [p.attached[a] EXCEPT !.loading[image] = @ + 1]
             ELSE p.attached[a]]]

Attachment == [lastActiveImage |-> Num(DefaultImageId), loadedImages |-> {},
               loading |-> [i \in Indexes |-> 0]]

\* attachResponsiveImage: display what has no least width, attach, check.
\* Fault: the first check is left to the sensor.
AttachUnchecked ==
    /\ Len(page.attached) < MaxAttached
    /\ page' = [display |-> Plain, src |-> page.src, attached |-> Append(page.attached, Attachment)]
    /\ UNCHANGED <<minWidths, width, reporting, raced, failed, changes>>

Attach ==
    /\ Len(page.attached) < MaxAttached
    /\ page' = Checked([display |-> Plain, src |-> page.src,
                        attached |-> Append(page.attached, Attachment)], {Len(page.attached) + 1})
    /\ UNCHANGED <<minWidths, width, reporting, raced, failed, changes>>

IsLoading(a, image) == a \in DOMAIN page.attached /\ page.attached[a].loading[image] > 0

\* The sensor has the checks of all attachments run.
ReportWidth ==
    /\ reporting /\ reporting' = FALSE
    /\ page' = Checked(page, DOMAIN page.attached)
    /\ raced' = (raced \/ \E a \in DOMAIN page.attached, image \in Indexes : IsLoading(a, image))
    /\ UNCHANGED <<minWidths, width, failed, changes>>

\* onload of an image object that attachment a has loading.
OnLoad(a, image) ==
    /\ IsLoading(a, image)
    /\ LET l == page.attached[a] IN
       page' = [display |-> Switch(page.display, {l.lastActiveImage}, image),
                src |-> page.src \cup {image.n},
                attached |-> [page.attached EXCEPT ![a] =
                    [lastActiveImage |-> image, loadedImages |-> l.loadedImages \cup {image.n},
                     loading |-> [l.loading EXCEPT ![image] = @ - 1]]]]
    /\ UNCHANGED <<minWidths, width, reporting, raced, failed, changes>>

\* The image cannot be loaded; nobody handles that.
LoadFails(a, image) ==
    /\ IsLoading(a, image)
    /\ page' = [page EXCEPT !.attached[a].loading[image] = @ - 1]
    /\ failed' = TRUE
    /\ UNCHANGED <<minWidths, width, reporting, raced, changes>>

ChangeWidth ==
    /\ changes < MaxChanges /\ changes' = changes + 1
    /\ width' \in Widths \ {width}
    /\ reporting' = (page.attached # <<>>)
    /\ UNCHANGED <<minWidths, page, raced, failed>>

Loads == \E a \in 1 .. MaxAttached, image \in Indexes : OnLoad(a, image) \/ LoadFails(a, image)

ImagesNext == Attach \/ ReportWidth \/ Loads \/ ChangeWidth

\* The sensor reports, and loading an image comes to an end.
ImagesSpec ==
    ImagesInit /\ [][ImagesNext]_imageVars /\ WF_imageVars(ReportWidth) /\ WF_imageVars(Loads)

-----------------------------------------------------------------------------
ImagesTypeOK ==
    /\ minWidths \in RuleSets /\ width \in Widths /\ reporting \in BOOLEAN
    /\ page.display \subseteq Children /\ page.src \subseteq Children
    /\ page.attached \in Seq([lastActiveImage : Indexes, loadedImages : SUBSET Children,
                              loading : [Indexes -> Nat]])
    /\ raced \in BOOLEAN /\ failed \in BOOLEAN /\ changes \in 0 .. MaxChanges

OneDefault == Cardinality(Plain) = 1

\* With one child that has no least width, exactly one child is displayed at
\* any time: a late onload hides the child that is displayed then, not the one
\* that was when its loading began.  "to prevent flash of no content": a child
\* that replaces the default has its source when it is displayed, whichever
\* attachment displays it.  The variables have their types.
OneShown ==
    /\ ImagesTypeOK
    /\ OneDefault /\ Len(page.attached) = 1 => Cardinality(page.display) = 1
    /\ page.attached # <<>> => page.display \ Plain \subseteq page.src

\* An element that keeps its width ends up with the child the rules ask for, if
\* no check met an image loading and every load succeeded.
Follows ==
    \A w \in Widths :
        <>[](width = w /\ OneDefault /\ Len(page.attached) = 1 /\ ~raced /\ ~failed)
            => <>[](page.display = {ImageToDisplay.n})
=============================================================================
