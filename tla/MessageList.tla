---------------------------- MODULE MessageList -----------------------------
(***************************************************************************)
(* The list of messages of a chat follows its growing end until the reader *)
(* leaves it.  Whether he did is guessed from the scroll events, which     *)
(* come a frame late, merge several movements into one, and are caused by  *)
(* the list's own jumps, by content that grows or collapses and by the     *)
(* composer below as well.  Heights are counted in lines of 100 pixels, so *)
(* "near the bottom" (less than 80) is at it and every movement is an      *)
(* intent (more than 4).                                                   *)
(***************************************************************************)
EXTENDS Integers, FiniteSets

CONSTANTS
  Screen,          \* lines of the list's box under the smallest composer
  ClampJump,       \* lines up in one event that mean a collapse (500 pixels)
  Reasserts,       \* delayed snaps of scrollToBottom
  ImagesLoad,      \* content may grow with no change of the document
  MaxHeight,       \* bound: lines of content
  MaxScrollSteps   \* bound: what the reader and the agent do

VARIABLES
  height,       \* scrollHeight
  top,          \* scrollTop
  tallComposer, \* the composer takes a line of the box
  active,       \* the list is on screen
  unread,       \* a scroll event is to be dispatched
  prevTop, prevHeight,   \* prevStRef, prevScrollHeightRef
  stick, escaped,        \* stickRef, escapedRef
  stickBottom,  \* the state the button "back to bottom" is shown by
  grace,        \* the programmatic grace window is open
  rendered,     \* effects of a render of messages, stream or queue are to run
  streaming, wasStreaming,
  pinQueued,    \* the mutation observer has asked for a frame
  bottomSnaps,  \* snaps of scrollToBottom to come
  endSnaps,     \* snaps of the end of a stream to come
  jumping,      \* the line jumpTo scrolls to in the next frame, or -1
  wheeled,      \* history: lines the reader went up since the last scroll event
  left,         \* history: "no" while the reader follows, "yes" after an event that showed
                \* nothing but his movement up, "maybe" in every other case
  placeKept,    \* history: the top line when the list was parked
  scrollSteps

scrollRefs == <<prevTop, prevHeight, stick, escaped, stickBottom, grace>>
scrollTimers == <<rendered, wasStreaming, pinQueued, bottomSnaps, endSnaps, jumping>>
scrollVars == <<height, top, tallComposer, active, unread, scrollRefs, scrollTimers,
                streaming, wheeled, left, placeKept, scrollSteps>>

Lines == 0 .. MaxHeight
ScrollTypeOK ==
  /\ height \in Lines /\ top \in Lines /\ prevTop \in Lines /\ prevHeight \in Lines
  /\ {tallComposer, active, unread, stick, escaped, stickBottom, grace, rendered, streaming,
      wasStreaming, pinQueued} \subseteq BOOLEAN
  /\ left \in {"no", "maybe", "yes"}
  /\ bottomSnaps \in 0 .. Reasserts /\ endSnaps \subseteq {"frames", "timer"}
  /\ jumping \in Lines \cup {-1} /\ wheeled \in -MaxHeight .. 0
  /\ placeKept \in Lines /\ scrollSteps \in 0 .. MaxScrollSteps

ShownBox == IF tallComposer THEN Screen - 1 ELSE Screen
Box == IF active THEN ShownBox ELSE 0
BottomOf(h, b) == IF h > b THEN h - b ELSE 0
Least(a, b) == IF a < b THEN a ELSE b
AtEnd == BottomOf(height, Box) = top
Silent == top' = top /\ unread' = unread

(* The list sets its own scrollTop; a box that is not shown has none.       *)
MovesTo(line) ==
  /\ top' = IF active THEN Least(line, BottomOf(height', Box)) ELSE top
  /\ unread' = (unread \/ top' # top)
SnapsIf(cond) == IF cond THEN MovesTo(height') ELSE Silent

ScrollInit ==
  /\ height \in 1 .. Screen + 1 /\ top = 0 /\ tallComposer = FALSE /\ active = TRUE
  /\ unread = FALSE /\ prevTop = 0 /\ prevHeight = 0 /\ stick = TRUE /\ escaped = FALSE
  /\ stickBottom = TRUE /\ grace = FALSE /\ rendered = TRUE /\ streaming = FALSE
  /\ wasStreaming = FALSE /\ pinQueued = FALSE /\ bottomSnaps = 0 /\ endSnaps = {}
  /\ jumping = -1 /\ wheeled = 0 /\ left = "no" /\ placeKept = 0 /\ scrollSteps = 0

ScrollStep == scrollSteps < MaxScrollSteps /\ scrollSteps' = scrollSteps + 1

-----------------------------------------------------------------------------
(* The reader turns the wheel: by less than a collapse between two events.  *)
Wheel(n) ==
  /\ ScrollStep /\ active /\ n # 0
  /\ top + n \in 0 .. BottomOf(height, Box) /\ wheeled + n > -ClampJump
  /\ top' = top + n /\ unread' = TRUE /\ wheeled' = wheeled + (IF n < 0 THEN n ELSE 0)
  /\ left' = CASE n < 0 -> (IF left = "yes" THEN "yes" ELSE "maybe")
               [] n > 0 -> (IF left = "no" THEN "no" ELSE "maybe")
  /\ UNCHANGED <<height, tallComposer, active, scrollRefs, scrollTimers, streaming, placeKept>>

(* Content grows: messages of the state, a card that is changed in the      *)
(* document, an image.  A collapse clamps the place of the reader.          *)
Grow(n, cause) ==
  /\ ScrollStep /\ height + n \in 1 .. MaxHeight /\ n # 0
  /\ height' = height + n
  /\ rendered' = (rendered \/ cause = "state")
  /\ pinQueued' = (pinQueued \/ cause # "image")
  /\ IF n < 0 THEN MovesTo(top) ELSE Silent
  /\ left' = IF active /\ n < 0 /\ ~(left = "yes" /\ top' # BottomOf(height', Box))
             THEN "maybe" ELSE left
  /\ UNCHANGED <<tallComposer, active, scrollRefs, wasStreaming, bottomSnaps, endSnaps, jumping,
                 streaming, wheeled, placeKept>>

Stream ==
  /\ ScrollStep /\ streaming' = ~streaming /\ rendered' = TRUE
  /\ UNCHANGED <<height, top, tallComposer, active, unread, scrollRefs, wasStreaming, pinQueued,
                 bottomSnaps, endSnaps, jumping, wheeled, left, placeKept>>

(* The composer takes a line of the box, or gives it back, and moves the    *)
(* list by as much: the row above it stays where it is.                     *)
ComposerResizes ==
  /\ ScrollStep /\ active
  /\ tallComposer' = ~tallComposer
  /\ LET grew == IF tallComposer THEN -1 ELSE 1
         low == BottomOf(height, Box - grew)
     IN  /\ top' = IF top + grew < 0 THEN 0 ELSE Least(top + grew, low)
         /\ left' = IF (tallComposer /\ left = "no") \/ (top' = low /\ left = "yes")
                    THEN "maybe" ELSE left
  /\ unread' = (unread \/ top' # top)
  /\ UNCHANGED <<height, active, scrollRefs, scrollTimers, streaming, wheeled, placeKept>>

-----------------------------------------------------------------------------
(* classifyScroll and onScroll.                                             *)
Rises(dSt) == dSt < 0 /\ dSt > -ClampJump
FlipEscape(dSt, dSh) == ~grace /\ Rises(dSt) /\ dSh >= 0
Reassert(dSt, dSh) == ~grace /\ Rises(dSt) /\ dSh < 0 /\ stick /\ ~escaped

EscapedAfter(dSt, dSh) ==
  IF AtEnd /\ dSt >= 0 THEN FALSE ELSE escaped \/ FlipEscape(dSt, dSh)
MutEchoClears(dSt, dSh) ==
  CASE dSt < 0 -> AtEnd /\ ~EscapedAfter(dSt, dSh) [] dSt >= 0 -> AtEnd
StickAfter(dSt, dSh) ==
  CASE grace -> stick
    [] ~grace /\ dSt < 0 -> AtEnd /\ ~EscapedAfter(dSt, dSh)
    [] ~grace /\ dSt >= 0 -> stick \/ AtEnd

OnScroll ==
  /\ unread /\ wheeled' = 0
  /\ LET dSt == top - prevTop
         dSh == height - prevHeight
     IN  IF Box = 0
         THEN unread' = FALSE /\ UNCHANGED <<top, scrollRefs, left>>
         ELSE /\ prevTop' = top /\ prevHeight' = height
              /\ escaped' = EscapedAfter(dSt, dSh)
              /\ stick' = StickAfter(dSt, dSh) /\ stickBottom' = stick'
              /\ IF Reassert(dSt, dSh)
                 THEN /\ grace' = TRUE /\ top' = BottomOf(height, Box) /\ unread' = (top' # top)
                 ELSE /\ grace' = grace /\ top' = top /\ unread' = FALSE
              /\ left' = IF wheeled < 0 /\ ~grace /\ dSt < 0 /\ dSh >= 0 THEN "yes" ELSE left
  /\ UNCHANGED <<height, tallComposer, active, scrollTimers, streaming, placeKept, scrollSteps>>

(* The window lasts 250 ms, an event a frame.                               *)
GraceEnds ==
  /\ grace /\ ~unread /\ grace' = FALSE
  /\ UNCHANGED <<height, top, tallComposer, active, unread, prevTop, prevHeight, stick, escaped,
                 stickBottom, scrollTimers, streaming, wheeled, left, placeKept, scrollSteps>>

-----------------------------------------------------------------------------
(* The effects of a render: the end of a stream asks for two snaps unless   *)
(* the reader has left; whoever sticks to the bottom is put back there.     *)
EndSnapsAfter ==
  LET kept == IF wasStreaming # streaming THEN endSnaps \ {"timer"} ELSE endSnaps
  IN  IF wasStreaming /\ ~streaming /\ ~escaped THEN {"frames", "timer"} ELSE kept
RunEffects ==
  /\ rendered /\ rendered' = FALSE /\ wasStreaming' = streaming
  /\ endSnaps' = EndSnapsAfter /\ height' = height
  /\ SnapsIf(stick)
  /\ UNCHANGED <<tallComposer, active, scrollRefs, pinQueued, bottomSnaps, jumping, streaming,
                 wheeled, left, placeKept, scrollSteps>>

MutEndSnapsAlways == TRUE
EndMay == ~escaped
SnapAtEnd(kind) ==
  /\ kind \in endSnaps /\ endSnaps' = endSnaps \ {kind} /\ height' = height
  /\ IF EndMay THEN /\ MovesTo(height') /\ stick' = TRUE /\ stickBottom' = TRUE
              ELSE Silent /\ UNCHANGED <<stick, stickBottom>>
  /\ UNCHANGED <<tallComposer, active, prevTop, prevHeight, escaped, grace, rendered,
                 wasStreaming, pinQueued, bottomSnaps, jumping, streaming, wheeled, left, placeKept,
                 scrollSteps>>

(* The mutation observer's frame.                                           *)
SnapMay == stick /\ ~escaped
Pin ==
  /\ pinQueued /\ pinQueued' = FALSE /\ height' = height
  /\ IF SnapMay THEN MovesTo(height') /\ stickBottom' = TRUE
              ELSE Silent /\ UNCHANGED stickBottom
  /\ UNCHANGED <<tallComposer, active, prevTop, prevHeight, stick, escaped, grace, rendered,
                 wasStreaming, bottomSnaps, endSnaps, jumping, streaming, wheeled, left, placeKept,
                 scrollSteps>>

(* The button "back to bottom": it snaps at once and again later, as long   *)
(* as nothing has made the reader leave.                                    *)
ScrollToBottom ==
  /\ ScrollStep /\ active /\ ~stickBottom
  /\ stick' = TRUE /\ escaped' = FALSE /\ stickBottom' = TRUE /\ grace' = TRUE
  /\ left' = "no" /\ height' = height /\ MovesTo(height')
  /\ bottomSnaps' = Reasserts
  /\ UNCHANGED <<tallComposer, active, prevTop, prevHeight, rendered, wasStreaming, pinQueued,
                 endSnaps, jumping, streaming, wheeled, placeKept>>

SnapToBottom ==
  /\ bottomSnaps > 0 /\ bottomSnaps' = bottomSnaps - 1 /\ height' = height
  /\ SnapsIf(SnapMay) /\ grace' = (grace \/ SnapMay)
  /\ UNCHANGED <<tallComposer, active, prevTop, prevHeight, stick, escaped, stickBottom, rendered,
                 wasStreaming, pinQueued, endSnaps, jumping, streaming, wheeled, left, placeKept,
                 scrollSteps>>

-----------------------------------------------------------------------------
(* jumpTo: a question, a new summary or a result of the search of sessions; *)
(* the jump is made in the next frame, and leaves the bottom unless it is   *)
(* to the last row.  The search in the chat moves the list at once.         *)
AskJump(line) ==
  /\ ScrollStep /\ active /\ line \in 0 .. height - 1 /\ jumping' = line
  /\ UNCHANGED <<height, top, tallComposer, active, unread, scrollRefs, rendered, wasStreaming,
                 pinQueued, bottomSnaps, endSnaps, streaming, wheeled, left, placeKept>>
Jump ==
  /\ jumping >= 0 /\ jumping' = -1 /\ height' = height /\ MovesTo(jumping)
  /\ escaped' = (escaped \/ jumping < height - 1) /\ left' = "maybe"
  /\ UNCHANGED <<tallComposer, active, prevTop, prevHeight, stick, stickBottom, grace, rendered,
                 wasStreaming, pinQueued, bottomSnaps, endSnaps, streaming, wheeled, placeKept,
                 scrollSteps>>
SearchJump(line) ==
  /\ ScrollStep /\ active /\ line \in 0 .. height - 1 /\ height' = height /\ MovesTo(line)
  /\ escaped' = TRUE /\ stick' = FALSE /\ stickBottom' = FALSE /\ left' = "maybe"
  /\ UNCHANGED <<tallComposer, active, prevTop, prevHeight, grace, scrollTimers, streaming, wheeled,
                 placeKept>>

(* Another chat is shown: a box that is not displayed forgets its offset.   *)
(* A frame has passed since the reader's last movement.                     *)
Park ==
  /\ ScrollStep /\ active /\ ~unread
  /\ active' = FALSE /\ top' = 0 /\ unread' = TRUE /\ placeKept' = top
  /\ UNCHANGED <<height, tallComposer, scrollRefs, scrollTimers, streaming, wheeled, left>>

MutShowsEnd == TRUE
ShowsEnd == stick /\ ~escaped
Unpark ==
  /\ ScrollStep /\ ~active /\ active' = TRUE /\ grace' = TRUE
  /\ LET low == BottomOf(height, ShownBox)
     IN  top' = IF ShowsEnd THEN low ELSE Least(prevTop, low)
  /\ prevTop' = top' /\ prevHeight' = height /\ unread' = (unread \/ top' # top)
  /\ UNCHANGED <<height, tallComposer, stick, escaped, stickBottom, scrollTimers, streaming,
                 wheeled, left, placeKept>>

GrowsBy == IF ImagesLoad THEN {"state", "dom", "image"} ELSE {"state", "dom"}
ScrollNext ==
  \/ \E n \in -MaxHeight .. MaxHeight :
       Wheel(n) \/ (n \in {-2, -1, 1} /\ \E c \in GrowsBy : Grow(n, c))
  \/ \E line \in 0 .. MaxHeight - 1 : AskJump(line) \/ SearchJump(line)
  \/ \E kind \in {"frames", "timer"} : SnapAtEnd(kind)
  \/ Stream \/ ComposerResizes \/ OnScroll \/ GraceEnds \/ RunEffects \/ Pin
  \/ ScrollToBottom \/ SnapToBottom \/ Jump \/ Park \/ Unpark

-----------------------------------------------------------------------------
(* Nothing pulls a reader down who went up by himself: the end of a stream, *)
(* a new message, a mutation or a late snap of an old click (escapedRef,    *)
(* "流式结束 / finalize 塌缩时不再自动吸回").  The composer moves the row it  *)
(* touches, and a list that was parked is put back.                         *)
LeftAlone ==
  [][left = "yes" /\ left' = "yes" /\ active /\ active' /\ tallComposer' = tallComposer
       => top' <= top]_scrollVars

(* A reader at the end stays there: once the events, effects, frames and    *)
(* snaps that are under way are over, the list shows its end and no button, *)
(* as long as he has not moved, jumped or searched since it was opened or   *)
(* since he clicked on "back to bottom", whatever grows below him.          *)
ScrollQuiet ==
  /\ ~unread /\ ~rendered /\ ~pinQueued /\ bottomSnaps = 0 /\ endSnaps = {} /\ jumping = -1
EndInView == ScrollQuiet /\ active /\ left = "no" => AtEnd /\ stickBottom

(* A list that is shown again stands where its reader left it, or as far    *)
(* down as its content still reaches.                                       *)
PlaceReturns ==
  [][~active /\ active' /\ left = "yes" => top' = Least(placeKept, BottomOf(height, ShownBox))]_scrollVars

(* Only the reader leaves: the list stops following its end after the       *)
(* wheel, a jump or the search, never because the layout moved.             *)
OnlyTheReaderLeaves ==
  [][stick /\ ~stick' /\ scrollSteps' = scrollSteps => wheeled < 0 \/ escaped]_scrollVars

-----------------------------------------------------------------------------
(***************************************************************************)
(* A long chat renders only what is near the screen.  Old messages are one *)
(* line each until they are expanded; of the others, the ones outside the  *)
(* margins of the screen are replaced by a placeholder of the height they  *)
(* had, or of an estimate.  A sweep in an animation frame measures what is *)
(* there and plans; the next render swaps, and moves the list by what has  *)
(* grown above the reader.  Heights are counted in lines.                  *)
(***************************************************************************)
CONSTANTS
  MaxMessages,   \* bound: messages of the chat
  Viewport,        \* lines of the screen
  Margin,        \* LAZY_MARGIN
  Budget,        \* ALWAYS_BUDGET: lines at the end that are always rendered
  KeepRecent,    \* KEEP_RECENT
  CollapseMin,   \* COLLAPSE_MIN
  Estimate,      \* estimateMessageHeight
  MaxTall,       \* bound: lines of a message
  WheelReach,    \* bound: lines of one movement of the reader
  MaxWindowSteps \* bound: what the reader and the agent do

VARIABLES
  last,        \* the chat has the messages 1 .. last
  real,        \* lines of the rendered message
  measured,    \* heightMetaRef: what was measured of the present content, or 0
  known,       \* heightsRef: what was measured last, or 0
  hidden,      \* the messages that have a placeholder
  pinned,      \* the ones the reader jumped to
  expanded,    \* old messages that are shown in full
  searchOpen,
  scroll,      \* scrollTop
  sweepQueued, \* a frame was asked for
  plan,        \* what the last sweep wants to be shown and hidden
  afar,        \* history: the list was moved by more than the wheel does in a frame
  cut,         \* history: a message was edited, and what followed is gone
  windowSteps

windowVars == <<last, real, measured, known, hidden, pinned, expanded, searchOpen, scroll,
                sweepQueued, plan, afar, cut, windowSteps>>

Ids == 1 .. MaxMessages
NoPlan == [show |-> {}, hide |-> {}]
WindowTypeOK ==
  /\ last \in 1 .. MaxMessages /\ real \in [Ids -> 1 .. MaxTall]
  /\ measured \in [Ids -> 0 .. MaxTall] /\ known \in [Ids -> 0 .. MaxTall]
  /\ {hidden, pinned, expanded, plan.show, plan.hide} \subseteq SUBSET Ids
  /\ hidden \subseteq 1 .. last
  /\ {searchOpen, sweepQueued, afar, cut} \subseteq BOOLEAN
  /\ scroll \in Nat /\ windowSteps \in 0 .. MaxWindowSteps

WindowStep == windowSteps < MaxWindowSteps /\ windowSteps' = windowSteps + 1

(* recentStartIndex: the first message that is rendered in full.            *)
RecentStart(n) == IF n <= CollapseMin THEN 1 ELSE n - KeepRecent + 1
Managed(n, open) == {m \in 1 .. n : m >= RecentStart(n) \/ m \in open}

(* pickAlways: from the end up to the budget.                               *)
Guess(h, m) == IF h[m] > 0 THEN h[m] ELSE Estimate
Always(n, h) ==
  LET below[i \in 1 .. n + 1] == IF i > n THEN 0 ELSE below[i + 1] + Guess(h, i)
  IN  {m \in 1 .. n : m = n \/ below[m + 1] < Budget}

(* What is rendered, and how high it is.                                    *)
Virtual(n, search) == n > CollapseMin /\ ~search
Shown(always, n, hid, pin, search) ==
  {m \in 1 .. n : ~Virtual(n, search) \/ m \in always \/ m \in pin \/ m \notin hid}
Placeholder(m) == IF measured[m] > 0 THEN measured[m] ELSE Estimate

HeightIf(m, managed, shown) ==
  IF m \notin managed THEN 1 ELSE IF m \in shown THEN real[m] ELSE Placeholder(m)
OffsetIf(m, managed, shown) ==
  LET sum[i \in 0 .. m - 1] == IF i = 0 THEN 0 ELSE sum[i - 1] + HeightIf(i, managed, shown)
  IN  sum[m - 1]
ShownSet == Shown(Always(last, known), last, hidden, pinned, searchOpen)
ManagedSet == Managed(last, expanded)
Offset(m) == OffsetIf(m, ManagedSet, ShownSet)
Height(m) == HeightIf(m, ManagedSet, ShownSet)
Total == Offset(last) + Height(last)
Lowest(total) == IF total > Viewport THEN total - Viewport ELSE 0
Meets(m, above, below) == Offset(m) < scroll + Viewport + below /\ Offset(m) + Height(m) > scroll - above

WindowInit ==
  /\ last = 1 /\ real \in {[m \in Ids |-> 1], [m \in Ids |-> MaxTall]}
  /\ measured = [m \in Ids |-> 0] /\ known = [m \in Ids |-> 0]
  /\ hidden = {} /\ pinned = {} /\ expanded = {} /\ searchOpen = FALSE /\ scroll = 0
  /\ sweepQueued = FALSE /\ plan = NoPlan /\ afar = FALSE /\ cut = FALSE /\ windowSteps = 0

-----------------------------------------------------------------------------
(* The swap: whatever becomes visible is measured, and what is still wholly *)
(* above the reader afterwards pushes the list down by what it grew.        *)
MutMoved(shownNow) == scroll
Moved(shownNow) ==
  LET grown == {m \in ManagedSet : m \in shownNow /\ m \notin ShownSet}
      at[m \in 0 .. last] ==
        IF m = 0 THEN scroll
        ELSE LET end == OffsetIf(m, ManagedSet, shownNow) + real[m]
             IN  IF m \in grown /\ end <= at[m - 1] THEN at[m - 1] + real[m] - Placeholder(m)
                 ELSE at[m - 1]
  IN  at[last]
SwapTo(shownNow) ==
  LET grown == {m \in ManagedSet : m \in shownNow /\ m \notin ShownSet}
  IN  /\ scroll' = Moved(shownNow)
      /\ measured' = [m \in Ids |-> IF m \in grown THEN real[m] ELSE measured[m]]
      /\ known' = [m \in Ids |-> IF m \in grown THEN real[m] ELSE known[m]]

(* planWindow, over what the sweep measures.                                *)
MutPlanKeeps == [show |-> {}, hide |-> {m \in ManagedSet \ hidden :
                              ~Meets(m, Margin, Margin) /\ m \notin Always(last, known)}]
Plan ==
  LET loose == ManagedSet \ Always(last, known)
  IN  [show |-> {m \in loose \cap hidden : Meets(m, Margin, Margin)},
       hide |-> {m \in loose \ hidden : ~Meets(m, Margin, Margin)}]

Sweep ==
  /\ sweepQueued /\ sweepQueued' = FALSE /\ plan = NoPlan
  /\ IF ~Virtual(last, searchOpen)
     THEN hidden' = {} /\ plan' = NoPlan /\ UNCHANGED <<measured, known>>
     ELSE LET seen == ManagedSet \ hidden
          IN  /\ plan' = Plan /\ hidden' = hidden
              /\ measured' = [m \in Ids |-> IF m \in seen THEN Height(m) ELSE measured[m]]
              /\ known' = [m \in Ids |-> IF m \in seen THEN Height(m) ELSE known[m]]
  /\ afar' = (afar /\ plan' # NoPlan)
  /\ UNCHANGED <<last, real, pinned, expanded, searchOpen, scroll, cut, windowSteps>>

(* applyPlan, and the render that follows.                                  *)
Swap ==
  /\ plan # NoPlan /\ plan' = NoPlan /\ afar' = FALSE
  /\ hidden' = (hidden \ plan.show) \cup (plan.hide \cap 1 .. last)
  /\ SwapTo(Shown(Always(last, known), last, hidden', pinned, searchOpen))
  /\ sweepQueued' = (sweepQueued \/ scroll' # scroll)
  /\ UNCHANGED <<last, real, pinned, expanded, searchOpen, cut, windowSteps>>

-----------------------------------------------------------------------------
(* The reader scrolls, which asks for a sweep: WheelReach lines in a frame.  *)
Wheels(n) ==
  /\ WindowStep /\ ~sweepQueued /\ n # 0 /\ scroll + n \in 0 .. Lowest(Total)
  /\ scroll' = scroll + n /\ sweepQueued' = TRUE
  /\ UNCHANGED <<afar, last, real, measured, known, hidden, pinned, expanded, searchOpen, plan, cut>>

(* A message comes; one that sticks to the end follows it.                  *)
Append(tall, follows) ==
  /\ WindowStep /\ last < MaxMessages /\ last' = last + 1
  /\ real' = [real EXCEPT ![last'] = tall]
  /\ afar' = (afar \/ follows)
  /\ UNCHANGED <<measured, known, hidden, pinned, expanded, searchOpen, plan, cut>>
  /\ IF follows THEN /\ scroll = Lowest(Total) /\ scroll' = Lowest(Total') /\ sweepQueued' = TRUE
                ELSE UNCHANGED <<scroll, sweepQueued>>

(* A message is edited: the chat ends before it.  What is gone leaves the   *)
(* sets and the measures.                                                   *)
Truncate(n) ==
  /\ WindowStep /\ n \in 1 .. last - 1 /\ last' = n /\ cut' = TRUE /\ afar' = TRUE
  /\ LET Keep(f) == [m \in Ids |-> IF m <= n THEN f[m] ELSE 0]
     IN  measured' = Keep(measured) /\ known' = Keep(known)
  /\ hidden' = hidden \cap 1 .. n /\ pinned' = pinned \cap 1 .. n
  /\ expanded' = expanded \cap 1 .. n
  /\ plan' = [show |-> plan.show \cap 1 .. n, hide |-> plan.hide \cap 1 .. n]
  /\ UNCHANGED <<real, searchOpen>>
  /\ scroll' = (IF scroll > Lowest(Total') THEN Lowest(Total') ELSE scroll)
  /\ sweepQueued' = (sweepQueued \/ scroll' # scroll)

(* The content of a message changes: its measure no longer counts.          *)
Change(m, tall) ==
  /\ WindowStep /\ plan = NoPlan /\ m \in 1 .. last /\ real[m] # tall
  /\ real' = [real EXCEPT ![m] = tall]
  /\ measured' = [measured EXCEPT ![m] = 0]
  /\ UNCHANGED <<last, known, hidden, pinned, expanded, searchOpen, plan, cut>>
  /\ scroll' = (IF scroll > Lowest(Total') THEN Lowest(Total') ELSE scroll)
  /\ sweepQueued' = (sweepQueued \/ scroll' # scroll) /\ afar' = (afar \/ scroll' # scroll)

(* jumpTo: the message is expanded, is shown for good, and scrolled to.     *)
JumpTo(m) ==
  /\ WindowStep /\ m \in 1 .. last /\ plan = NoPlan /\ afar' = TRUE
  /\ pinned' = pinned \cup {m}
  /\ expanded' = IF m < RecentStart(last) THEN expanded \cup {m} ELSE expanded
  /\ UNCHANGED <<last, real, hidden, searchOpen, plan, cut>>
  /\ LET full == Managed(last, expanded')
         shown == Shown(Always(last, known), last, hidden, pinned', searchOpen)
         place == OffsetIf(m, full, shown)
         total == OffsetIf(last, full, shown) + HeightIf(last, full, shown)
     IN  scroll' = IF place > Lowest(total) THEN Lowest(total) ELSE place
  /\ measured' = [measured EXCEPT ![m] = real[m]] /\ known' = [known EXCEPT ![m] = real[m]]
  /\ sweepQueued' = TRUE

(* The search shows everything; when it is closed the list is swept before  *)
(* it is painted.                                                           *)
OpenSearch ==
  /\ WindowStep /\ ~searchOpen /\ plan = NoPlan /\ searchOpen' = TRUE /\ afar' = TRUE
  /\ SwapTo(1 .. last)
  /\ sweepQueued' = (sweepQueued \/ scroll' # scroll)
  /\ UNCHANGED <<last, real, hidden, pinned, expanded, plan, cut>>
CloseSearch ==
  /\ WindowStep /\ searchOpen /\ plan = NoPlan /\ searchOpen' = FALSE
  /\ sweepQueued' = TRUE /\ afar' = TRUE
  /\ UNCHANGED <<last, real, measured, known, hidden, pinned, expanded, plan, cut>>
  /\ scroll' = (IF scroll > Lowest(Total') THEN Lowest(Total') ELSE scroll)

WindowNext ==
  \/ Sweep \/ Swap \/ OpenSearch \/ CloseSearch
  \/ \E n \in -WheelReach .. WheelReach : Wheels(n)
  \/ \E tall \in 1 .. MaxTall : \E follows \in BOOLEAN : Append(tall, follows)
  \/ \E m \in Ids : Truncate(m) \/ JumpTo(m) \/ \E tall \in 1 .. MaxTall : Change(m, tall)

-----------------------------------------------------------------------------
(* A swap does not move what the reader looks at: what has grown above him  *)
(* moves the list by as much ("在同一帧内补偿 scrollTop 防止跳动").           *)
InView == {m \in 1 .. last : Meets(m, 0, 0)}
ReaderStays ==
  [][windowSteps' = windowSteps /\ ~afar /\ ~cut =>
       \A m \in InView \cap ShownSet : (Offset(m) - scroll)' = Offset(m) - scroll]_windowVars

(* Nothing on screen is a placeholder once the sweep and its render are     *)
(* done, in a chat that was never cut.                                      *)
InViewIsShown ==
  ~sweepQueued /\ plan = NoPlan /\ ~cut => InView \cap ManagedSet \subseteq ShownSet
=============================================================================
