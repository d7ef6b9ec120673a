----------------------------- MODULE RiverProofs ------------------------------
(***************************************************************************)
(* Theorems about River, for any windows, batches of events and motion.    *)
(* What wimy remembers of a window agrees with what river has of it, after *)
(* every event and sequence; so a render sequence that sends only changes  *)
(* leaves every window as the layout places it.                            *)
(***************************************************************************)
EXTENDS River, TLAPS

-----------------------------------------------------------------------------
(* The inductive invariant.                                                *)

WindowRecord ==
  [object : BOOLEAN, New : BOOLEAN, Closed : BOOLEAN,
   Shown : BOOLEAN, Clipped : BOOLEAN, ContentClipped : BOOLEAN,
   FocusSent : BOOLEAN, BarSent : BOOLEAN, BorderSet : BOOLEAN,
   Deco : BOOLEAN, DecoDrawn : BOOLEAN, DecoFocused : BOOLEAN,
   Fullscreen : BOOLEAN, FullscreenReq : BOOLEAN, UnfullscreenReq : BOOLEAN]

ScreenRecord ==
  [displayed : BOOLEAN, fullscreened : BOOLEAN, hidden : BOOLEAN, placed : BOOLEAN,
   clip : BOOLEAN, contentClip : BOOLEAN,
   border : {"none", "set", "old"}, focused : BOOLEAN, top : BOOLEAN,
   bar : {"none", "focused", "normal", "old"}]

Operation == [kind : {"none", "float", "column"}, at : 0..MaxMotion]

SeatRecord ==
  [X : {0, 1}, LastX : {0, 1},
   FocusHovered : WindowID \cup {None}, Interacted : WindowID \cup {None},
   Op : Operation, OpDx : 0..MaxMotion, OpReleased : BOOLEAN]

Model == [place : [WindowID -> Place], focused : WindowID \cup {None}]

\* Every variable has its type.
Typed ==
  /\ running \in BOOLEAN /\ turn \in {"rest", "events", "render"} /\ batch \in 0..MaxEvents
  /\ state \in Models[Windows(state)]
  /\ bars \in BOOLEAN /\ queued \in BOOLEAN /\ travelled \in BOOLEAN /\ layer \in BOOLEAN
  /\ born \subseteq WindowID
  /\ win \in [WindowID -> WindowRecord]
  /\ screen \in [WindowID -> ScreenRecord]
  /\ seat \in SeatRecord /\ motion \in 0..MaxMotion

\* Only a window that has appeared has an object; where there is none, nothing is
\* recorded and river has nothing; and the windows of the model have one.
ObjectsAreBorn ==
  \A w \in WindowID :
    /\ win[w].object => w \in born
    /\ ~win[w].object => /\ ~win[w].Shown /\ ~win[w].BorderSet /\ ~win[w].DecoDrawn
                          /\ screen[w] = Fresh
    /\ w \in Windows(state) => win[w].object

\* What wimy has recorded of a window it has sent to river (r for the screen): whether
\* it shows, its clips, its border, and the picture in its titlebar; on: the config has
\* titlebars.
Recorded(o, r, on) ==
  /\ r.placed => (r.hidden <=> ~o.Shown)
  /\ ~r.placed => ~r.hidden /\ ~o.Shown
  /\ r.clip => o.Clipped
  /\ r.contentClip => o.ContentClipped
  /\ o.BorderSet => r.border = "set" /\ r.focused = o.FocusSent /\ r.top # o.BarSent
  /\ o.DecoDrawn => r.bar = IF o.DecoFocused THEN "focused" ELSE "normal"
  /\ r.bar # "none" => on

AllRecorded == \A w \in WindowID : Recorded(win[w], screen[w], bars)

\* From a manage sequence on, until the next event, every window the layout shows
\* has been given dimensions.
ShownAreDisplayed ==
  turn # "events" =>
    \A w \in Windows(state) : state.place[w] # "hidden" => screen[w].displayed

\* What river displays wimy has shown, or a client has made it fullscreen, or a manage
\* sequence has just given it dimensions to be shown with.
DisplayedAreShown ==
  \A w \in WindowID :
    screen[w].displayed =>
      \/ screen[w].placed
      \/ screen[w].fullscreened
      \/ turn = "render" /\ w \in Visible(state)

\* A release is for the operation under way.
ReleasesEnd == seat.OpReleased => seat.Op # NoOp

\* The pointer only is somewhere else than at the last manage sequence if it moved.
RestsWhereItWas == ~travelled => seat.X = seat.LastX

RiverInv ==
  /\ Typed /\ ObjectsAreBorn /\ AllRecorded /\ ShownAreDisplayed /\ DisplayedAreShown
  /\ ReleasesEnd /\ RestsWhereItWas

-----------------------------------------------------------------------------
(* Models.                                                                 *)

\* What a model of the windows ws consists of.
LEMMA ModelParts ==
  ASSUME NEW ws \in SUBSET WindowID, NEW m \in Models[ws]
  PROVE  /\ m \in Model /\ Windows(m) = ws /\ m \in Models[Windows(m)]
         /\ m.focused # None => m.place[m.focused] \in {"full", "alone"}
<1>1. /\ m \in Model
      /\ \A w \in WindowID : m.place[w] = "out" <=> w \notin ws
      /\ m.focused \in {w \in ws : m.place[w] \in {"full", "alone"}} \cup {None}
  BY DEF Models, Model
<1>2. Windows(m) = ws
  BY <1>1 DEF Windows
<1> QED BY <1>1, <1>2

\* Focusing a window, or none, leaves the windows.
LEMMA FocusKeepsWindows ==
  ASSUME NEW ws \in SUBSET WindowID, NEW m \in Models[ws], NEW w, NEW n \in FocusWindow(m, w)
  PROVE  n \in Models[ws]
BY ModelParts DEF FocusWindow

\* So does a manage sequence, whatever its commands do, unless windows came or went.
LEMMA SyncedModel ==
  ASSUME Typed, ObjectsAreBorn, NEW m \in windowsSynced, NEW n \in focusSynced(m),
         NEW r \in drained(n)
  PROVE  \E ws \in SUBSET WindowID : r \in Models[ws] /\ \A w \in ws : kept[w].object
<1> DEFINE ws == Windows(m)
<1>1. m \in Models[ws] /\ ws \in SUBSET WindowID /\ \A w \in ws : win[w].object /\ ~win[w].Closed
  <2>1. CASE \E w \in WindowID : win[w].New \/ win[w].Closed
    <3>1. m \in Models[Live] /\ Live \in SUBSET WindowID
      BY <2>1 DEF windowsSynced, Live
    <3>2. ws = Live
      BY <3>1, ModelParts
    <3> QED BY <3>1, <3>2 DEF Live
  <2>2. CASE ~ \E w \in WindowID : win[w].New \/ win[w].Closed
    BY <2>2 DEF windowsSynced, Windows, Typed, ObjectsAreBorn
  <2> QED BY <2>1, <2>2
<1>2. n \in Models[ws]
  <2>1. PICK k \in IF followsPointer(m) THEN FocusWindow(m, seat.FocusHovered) ELSE {m} :
          n \in FocusWindow(k, seat.Interacted)
    BY DEF focusSynced
  <2>2. k \in Models[ws]
    BY <1>1, <2>1, FocusKeepsWindows
  <2> QED BY <1>1, <2>1, <2>2, FocusKeepsWindows
<1>3. r \in Models[ws]
  BY <1>1, <1>2, ModelParts DEF drained
<1>4. \A w \in ws : kept[w].object
  BY <1>1 DEF kept, Typed, WindowRecord
<1> QED BY <1>1, <1>3, <1>4

-----------------------------------------------------------------------------
(* The manage sequence.                                                    *)

LEMMA NoObjectType ==
  /\ NewWindow \in WindowRecord /\ NoObject \in WindowRecord /\ Fresh \in ScreenRecord
  /\ ~NoObject.object /\ ~NoObject.Shown /\ ~NoObject.BorderSet /\ ~NoObject.DecoDrawn
  /\ \A on \in BOOLEAN : Recorded(NewWindow, Fresh, on) /\ Recorded(NoObject, Fresh, on)
BY DEF NewWindow, NoObject, Fresh, WindowRecord, ScreenRecord, Recorded

\* What is left of the record of a window after syncModel.
LEMMA KeptRecord ==
  ASSUME Typed, NEW w \in WindowID
  PROVE  /\ kept[w] \in WindowRecord
         /\ kept[w].object => win[w].object
         /\ kept[w].object /\ Recorded(win[w], screen[w], bars) =>
              Recorded(kept[w], screen[w], bars)
<1>1. CASE win[w].Closed
  BY <1>1, NoObjectType DEF kept
<1>2. CASE ~win[w].Closed
  <2> DEFINE o == win[w]
             p == kept[w]
  <2>1. o \in WindowRecord /\ p = [o EXCEPT !.New = FALSE]
    BY <1>2 DEF kept, Typed
  <2> HIDE DEF o, p
  <2>2. p \in WindowRecord
    BY <2>1 DEF WindowRecord
  <2>3. /\ p.object = o.object /\ p.Shown = o.Shown
        /\ p.Clipped = o.Clipped /\ p.ContentClipped = o.ContentClipped
        /\ p.FocusSent = o.FocusSent /\ p.BarSent = o.BarSent /\ p.BorderSet = o.BorderSet
        /\ p.DecoDrawn = o.DecoDrawn /\ p.DecoFocused = o.DecoFocused
    BY <2>1 DEF WindowRecord
  <2>4. Recorded(o, screen[w], bars) => Recorded(p, screen[w], bars)
    BY <2>3 DEF Recorded
  <2> QED BY <2>2, <2>3, <2>4 DEF o, p
<1> QED BY <1>1, <1>2

\* A window of r is as much on the screen as one of s.
SameDisplay(r, s) ==
  /\ r.displayed = s.displayed /\ r.fullscreened = s.fullscreened
  /\ r.placed = s.placed /\ r.hidden = s.hidden

\* Borders of an older config are not recorded as sent.
LEMMA BorderChangeRecorded ==
  ASSUME NEW objects \in [WindowID -> WindowRecord], NEW shown \in [WindowID -> ScreenRecord],
         NEW on \in BOOLEAN, NEW w \in WindowID
  PROVE  /\ BorderChange(objects)[w] \in WindowRecord /\ Borderless(shown)[w] \in ScreenRecord
         /\ BorderChange(objects)[w].object = objects[w].object
         /\ SameDisplay(Borderless(shown)[w], shown[w])
         /\ Recorded(objects[w], shown[w], on) =>
              Recorded(BorderChange(objects)[w], Borderless(shown)[w], on)
<1> DEFINE o == objects[w]
           r == shown[w]
<1>1. o \in WindowRecord /\ r \in ScreenRecord
  OBVIOUS
<1>2. /\ BorderChange(objects)[w] = [o EXCEPT !.BorderSet = FALSE]
      /\ Borderless(shown)[w] = [r EXCEPT !.border = IF r.border = "none" THEN "none" ELSE "old"]
  BY DEF BorderChange, Borderless
<1> HIDE DEF o, r
<1>3. [o EXCEPT !.BorderSet = FALSE] \in WindowRecord
  BY <1>1 DEF WindowRecord
<1>4. [r EXCEPT !.border = IF r.border = "none" THEN "none" ELSE "old"] \in ScreenRecord
  BY <1>1 DEF ScreenRecord
<1>5. /\ [o EXCEPT !.BorderSet = FALSE].object = o.object
      /\ Recorded(o, r, on) =>
           Recorded([o EXCEPT !.BorderSet = FALSE],
                    [r EXCEPT !.border = IF r.border = "none" THEN "none" ELSE "old"], on)
  BY <1>1 DEF WindowRecord, ScreenRecord, Recorded
<1>6. SameDisplay([r EXCEPT !.border = IF r.border = "none" THEN "none" ELSE "old"], r)
  BY <1>1 DEF ScreenRecord, SameDisplay
<1> QED BY <1>2, <1>3, <1>4, <1>5, <1>6 DEF o, r

\* Nor is the picture of a titlebar of an older config.
LEMMA TitlebarChangeRecorded ==
  ASSUME NEW objects \in [WindowID -> WindowRecord], NEW shown \in [WindowID -> ScreenRecord],
         NEW was \in BOOLEAN, NEW on \in BOOLEAN, NEW w \in WindowID
  PROVE  /\ TitlebarChange(objects, on)[w] \in WindowRecord
         /\ Outdated(shown, on)[w] \in ScreenRecord
         /\ TitlebarChange(objects, on)[w].object = objects[w].object
         /\ SameDisplay(Outdated(shown, on)[w], shown[w])
         /\ Recorded(objects[w], shown[w], was) =>
              Recorded(TitlebarChange(objects, on)[w], Outdated(shown, on)[w], on)
<1> DEFINE o == objects[w]
           r == shown[w]
           p == IF on THEN [o EXCEPT !.DecoDrawn = FALSE]
                ELSE [o EXCEPT !.Deco = FALSE, !.DecoDrawn = FALSE, !.DecoFocused = FALSE]
           q == [r EXCEPT !.bar = IF on /\ r.bar # "none" THEN "old" ELSE "none"]
<1>1. o \in WindowRecord /\ r \in ScreenRecord
  OBVIOUS
<1>2. TitlebarChange(objects, on)[w] = p /\ Outdated(shown, on)[w] = q
  BY DEF TitlebarChange, Outdated
<1> HIDE DEF o, r
<1>3. /\ p \in WindowRecord /\ p.object = o.object /\ ~p.DecoDrawn
      /\ \A f \in {"Shown", "Clipped", "ContentClipped", "FocusSent", "BarSent", "BorderSet"} :
           p[f] = o[f]
  BY <1>1 DEF WindowRecord
<1>4. /\ q \in ScreenRecord /\ (q.bar # "none" => on)
      /\ \A f \in {"displayed", "fullscreened", "placed", "hidden", "clip", "contentClip",
                   "border", "focused", "top"} : q[f] = r[f]
  BY <1>1 DEF ScreenRecord
<1> HIDE DEF p, q
<1>5. Recorded(o, r, was) => Recorded(p, q, on)
  BY <1>3, <1>4 DEF Recorded
<1>6. SameDisplay(q, r)
  BY <1>4 DEF SameDisplay
<1> QED BY <1>2, <1>3, <1>4, <1>5, <1>6 DEF o, r

\* Fullscreen requests change nothing that Recorded speaks of.
LEMMA FullscreenRecorded ==
  ASSUME NEW o \in WindowRecord
  PROVE  /\ fullscreenApplied(o) \in WindowRecord /\ fullscreenApplied(o).object = o.object
         /\ \A r, on : Recorded(o, r, on) => Recorded(fullscreenApplied(o), r, on)
<1> DEFINE full == (o.Fullscreen \/ o.FullscreenReq) /\ ~o.UnfullscreenReq
           p    == fullscreenApplied(o)
<1>1. full \in BOOLEAN
  OBVIOUS
<1>2. p = [o EXCEPT !.Fullscreen = full, !.FullscreenReq = FALSE, !.UnfullscreenReq = FALSE]
  BY DEF fullscreenApplied
<1> HIDE DEF full, p
<1>3. p \in WindowRecord
  BY <1>1, <1>2 DEF WindowRecord
<1>4. /\ p.object = o.object
      /\ \A f \in {"Shown", "Clipped", "ContentClipped", "FocusSent", "BarSent", "BorderSet",
                   "DecoDrawn", "DecoFocused"} : p[f] = o[f]
  BY <1>1, <1>2 DEF WindowRecord
<1> QED BY <1>3, <1>4 DEF Recorded, p

-----------------------------------------------------------------------------
(* The render sequence.                                                    *)

\* After the requests for a window that is shown in place, river has it as the layout
\* places it, and wimy has recorded it.
LEMMA ShownInPlace ==
  ASSUME Typed, NEW w \in WindowID, Recorded(win[w], screen[w], bars),
         state.place[w] \in {"strip", "full", "alone"}
  PROVE  /\ shownWindow(w) \in WindowRecord /\ shownScreen(w) \in ScreenRecord
         /\ shownWindow(w).object = win[w].object
         /\ shownWindow(w).Fullscreen = win[w].Fullscreen
         /\ shownScreen(w).displayed = screen[w].displayed
         /\ shownScreen(w).fullscreened = screen[w].fullscreened /\ shownScreen(w).placed
         /\ Recorded(shownWindow(w), shownScreen(w), bars)
         /\ ~shownScreen(w).hidden
         /\ state.place[w] # "strip" => ~shownScreen(w).clip /\ ~shownScreen(w).contentClip
         /\ state.place[w] = "strip" =>
              IF bars THEN shownScreen(w).contentClip ELSE shownScreen(w).clip
         /\ shownScreen(w).border = "set"
         /\ shownScreen(w).focused = (state.focused = w /\ ~layer)
         /\ shownScreen(w).top = ~hasBar(w)
         /\ ~bars => shownScreen(w).bar = "none"
         /\ hasBar(w) => shownScreen(w).bar = IF state.focused = w THEN "focused" ELSE "normal"
<1> DEFINE o == win[w]
           r == screen[w]
           p == shownWindow(w)
           q == shownScreen(w)
           strip == state.place[w] = "strip"
           focused == state.focused = w
           bar == hasBar(w)
           lit == focused /\ ~layer
           sent == o.BorderSet /\ o.FocusSent = lit /\ o.BarSent # ~bar
           drawn == o.DecoDrawn /\ o.DecoFocused = focused
           cutContent == IF strip THEN o.ContentClipped \/ bars ELSE FALSE
           cut == IF strip THEN o.Clipped \/ ~bars ELSE FALSE
           picture == IF bar THEN focused ELSE o.DecoFocused
           deco == o.Deco \/ bar
           decoDrawn == o.DecoDrawn \/ bar
           hidden == r.hidden /\ o.Shown
           contentClip == IF strip /\ bars THEN TRUE
                          ELSE r.contentClip /\ ~(~strip /\ o.ContentClipped)
           clip == IF strip /\ ~bars THEN TRUE ELSE r.clip /\ ~(~strip /\ o.Clipped)
           border == IF sent THEN r.border ELSE "set"
           colour == IF sent THEN r.focused ELSE lit
           top == IF sent THEN r.top ELSE ~bar
           shows == IF bar /\ ~drawn THEN IF focused THEN "focused" ELSE "normal" ELSE r.bar
<1>1. o \in WindowRecord /\ r \in ScreenRecord /\ bars \in BOOLEAN /\ layer \in BOOLEAN
  BY DEF Typed
<1>2. bar \in BOOLEAN /\ (bar => bars) /\ strip \in BOOLEAN /\ focused \in BOOLEAN
  BY <1>1 DEF hasBar
<1>3. p = [o EXCEPT !.Shown = TRUE, !.ContentClipped = cutContent, !.Clipped = cut,
              !.BorderSet = TRUE, !.FocusSent = lit, !.BarSent = ~~bar,
              !.Deco = deco, !.DecoDrawn = decoDrawn, !.DecoFocused = picture]
  BY DEF shownWindow, bordered
<1>4. q = [r EXCEPT !.hidden = hidden, !.placed = TRUE,
              !.contentClip = contentClip, !.clip = clip, !.border = border,
              !.focused = colour, !.top = top, !.bar = shows]
  <2> DEFINE was == borderSent(o, bordered(w))
  <2>1. bordered(w).focused = lit /\ bordered(w).top = ~bar
    BY DEF bordered
  <2>2. was = sent
    BY <2>1 DEF borderSent
  <2>3. barDrawn(o, w) = drawn
    BY DEF barDrawn
  <2>4. q = [r EXCEPT !.hidden = hidden, !.placed = TRUE,
               !.contentClip = contentClip, !.clip = clip,
               !.border = IF was THEN r.border ELSE "set",
               !.focused = IF was THEN r.focused ELSE bordered(w).focused,
               !.top = IF was THEN r.top ELSE bordered(w).top,
               !.bar = IF bar /\ ~barDrawn(o, w)
                       THEN IF focused THEN "focused" ELSE "normal" ELSE r.bar]
    BY DEF shownScreen
  <2> HIDE DEF was, o, r, q, sent, drawn, lit, strip, focused, bar, hidden, contentClip, clip
  <2> QED BY <2>1, <2>2, <2>3, <2>4
<1>5. Recorded(o, r, bars)
  OBVIOUS
<1> HIDE DEF o, r, p, q, strip, focused, bar
<1>6. /\ lit \in BOOLEAN /\ cutContent \in BOOLEAN /\ cut \in BOOLEAN /\ picture \in BOOLEAN
      /\ deco \in BOOLEAN /\ decoDrawn \in BOOLEAN
      /\ hidden \in BOOLEAN /\ contentClip \in BOOLEAN /\ clip \in BOOLEAN
      /\ border \in {"none", "set", "old"} /\ colour \in BOOLEAN /\ top \in BOOLEAN
      /\ shows \in {"none", "focused", "normal", "old"}
  BY <1>1, <1>2 DEF WindowRecord, ScreenRecord
<1>7. /\ p \in WindowRecord /\ p.object = o.object /\ p.Fullscreen = o.Fullscreen
      /\ p.Shown /\ p.BorderSet /\ p.FocusSent = lit /\ p.BarSent = bar
      /\ p.ContentClipped = cutContent /\ p.Clipped = cut
      /\ p.DecoDrawn = decoDrawn /\ p.DecoFocused = picture
  <2>1. ~~bar \in BOOLEAN /\ ~~bar = bar
    BY <1>2
  <2> HIDE DEF lit, cutContent, cut, picture, deco, decoDrawn
  <2> DEFINE h == [o EXCEPT !.Shown = TRUE, !.ContentClipped = cutContent, !.Clipped = cut]
             k == [h EXCEPT !.BorderSet = TRUE, !.FocusSent = lit, !.BarSent = ~~bar]
  <2>2. p = [k EXCEPT !.Deco = deco, !.DecoDrawn = decoDrawn, !.DecoFocused = picture]
    BY <1>3
  <2>3. h \in WindowRecord
    BY <1>1, <1>6 DEF WindowRecord
  <2>4. /\ h.object = o.object /\ h.Fullscreen = o.Fullscreen
        /\ h.Shown /\ h.ContentClipped = cutContent /\ h.Clipped = cut
    BY <1>1 DEF WindowRecord
  <2> HIDE DEF h
  <2>5. k \in WindowRecord
    <3> DEFINE l == [h EXCEPT !.BorderSet = TRUE]
               m == [l EXCEPT !.FocusSent = lit]
    <3>1. l \in WindowRecord
      BY <2>3 DEF WindowRecord
    <3>2. lit \in BOOLEAN
      BY <1>6
    <3>3. k = [m EXCEPT !.BarSent = ~~bar]
      OBVIOUS
    <3> HIDE DEF k, l
    <3>4. m \in WindowRecord
      BY <3>1, <3>2 DEF WindowRecord
    <3> HIDE DEF m
    <3> QED BY <2>1, <3>3, <3>4 DEF WindowRecord
  <2>6. /\ k.object = h.object /\ k.Fullscreen = h.Fullscreen
        /\ k.Shown = h.Shown /\ k.ContentClipped = h.ContentClipped /\ k.Clipped = h.Clipped
        /\ k.BorderSet /\ k.FocusSent = lit /\ k.BarSent = bar
    BY <2>1, <2>3 DEF WindowRecord
  <2> HIDE DEF k
  <2>7. p \in WindowRecord
    <3> DEFINE l == [k EXCEPT !.Deco = deco]
    <3>1. l \in WindowRecord
      BY <1>6, <2>5 DEF WindowRecord
    <3>2. p = [l EXCEPT !.DecoDrawn = decoDrawn, !.DecoFocused = picture]
      BY <2>2
    <3>3. decoDrawn \in BOOLEAN /\ picture \in BOOLEAN
      BY <1>6
    <3> HIDE DEF l
    <3> QED BY <3>1, <3>2, <3>3 DEF WindowRecord
  <2>8. /\ p.object = k.object /\ p.Fullscreen = k.Fullscreen
        /\ p.Shown = k.Shown /\ p.ContentClipped = k.ContentClipped /\ p.Clipped = k.Clipped
        /\ p.BorderSet = k.BorderSet /\ p.FocusSent = k.FocusSent /\ p.BarSent = k.BarSent
        /\ p.DecoDrawn = decoDrawn /\ p.DecoFocused = picture
    BY <2>2, <2>5 DEF WindowRecord
  <2> QED BY <2>4, <2>6, <2>7, <2>8
<1>8. /\ q \in ScreenRecord /\ q.displayed = r.displayed /\ q.fullscreened = r.fullscreened
      /\ q.hidden = hidden /\ q.placed /\ q.contentClip = contentClip /\ q.clip = clip
      /\ q.border = border /\ q.focused = colour /\ q.top = top /\ q.bar = shows
  <2> HIDE DEF hidden, contentClip, clip, border, colour, top, shows
  <2> DEFINE h == [r EXCEPT !.hidden = hidden, !.placed = TRUE,
                     !.contentClip = contentClip, !.clip = clip]
  <2>1. /\ h \in ScreenRecord /\ h.displayed = r.displayed /\ h.fullscreened = r.fullscreened
        /\ h.hidden = hidden /\ h.placed /\ h.contentClip = contentClip /\ h.clip = clip
    BY <1>1, <1>6 DEF ScreenRecord
  <2>2. q = [h EXCEPT !.border = border, !.focused = colour, !.top = top, !.bar = shows]
    BY <1>4
  <2> HIDE DEF h
  <2>3. /\ border \in {"none", "set", "old"} /\ colour \in BOOLEAN /\ top \in BOOLEAN
        /\ shows \in {"none", "focused", "normal", "old"}
    BY <1>6
  <2>4. q \in ScreenRecord
    <3> DEFINE l == [h EXCEPT !.border = border, !.focused = colour]
    <3>1. l \in ScreenRecord
      BY <2>1, <2>3 DEF ScreenRecord
    <3>2. q = [l EXCEPT !.top = top, !.bar = shows]
      BY <2>2
    <3> HIDE DEF l
    <3> QED BY <2>3, <3>1, <3>2 DEF ScreenRecord
  <2>5. q.border = border /\ q.focused = colour /\ q.top = top /\ q.bar = shows
    BY <2>1, <2>2 DEF ScreenRecord
  <2>6. /\ q.displayed = h.displayed /\ q.fullscreened = h.fullscreened
        /\ q.hidden = h.hidden /\ q.placed = h.placed
        /\ q.contentClip = h.contentClip /\ q.clip = h.clip
    BY <2>1, <2>2 DEF ScreenRecord
  <2> QED BY <2>1, <2>4, <2>5, <2>6
<1>9. /\ o.Shown \in BOOLEAN /\ o.BarSent \in BOOLEAN
      /\ r.hidden \in BOOLEAN /\ r.top \in BOOLEAN /\ r.placed \in BOOLEAN
  BY <1>1 DEF WindowRecord, ScreenRecord
<1>10. ~q.hidden
  BY <1>5, <1>8, <1>9 DEF Recorded
<1>11. q.border = "set" /\ q.focused = lit /\ q.top = ~bar
  BY <1>2, <1>5, <1>6, <1>8, <1>9 DEF Recorded
<1>12. /\ bar => q.bar = IF focused THEN "focused" ELSE "normal"
       /\ p.DecoDrawn => q.bar = IF p.DecoFocused THEN "focused" ELSE "normal"
       /\ q.bar # "none" => bars
  BY <1>2, <1>5, <1>7, <1>8 DEF Recorded
<1>13. /\ ~strip => ~q.clip /\ ~q.contentClip
       /\ strip => IF bars THEN q.contentClip ELSE q.clip
       /\ q.clip => p.Clipped
       /\ q.contentClip => p.ContentClipped
  BY <1>2, <1>5, <1>7, <1>8 DEF Recorded
<1>14. Recorded(p, q, bars)
  <2>1. q.top # p.BarSent
    BY <1>2, <1>7, <1>11
  <2> QED BY <1>7, <1>8, <1>10, <1>11, <1>12, <1>13, <2>1 DEF Recorded
<1> QED BY <1>7, <1>8, <1>10, <1>11, <1>12, <1>13, <1>14 DEF o, r, p, q, strip, focused, bar

\* The same for every window: hidden, fullscreen, or shown in place.
LEMMA RenderedRecorded ==
  ASSUME Typed, NEW w \in WindowID, Recorded(win[w], screen[w], bars)
  PROVE  /\ renderedWindow(w) \in WindowRecord /\ renderedScreen(w) \in ScreenRecord
         /\ renderedWindow(w).object = win[w].object
         /\ renderedWindow(w).Fullscreen = win[w].Fullscreen
         /\ renderedScreen(w).displayed = screen[w].displayed
         /\ renderedScreen(w).fullscreened = screen[w].fullscreened
         /\ screen[w].placed \/ w \in Visible(state) => renderedScreen(w).placed
         /\ Recorded(renderedWindow(w), renderedScreen(w), bars)
         /\ state.place[w] = "out" =>
              renderedWindow(w) = win[w] /\ renderedScreen(w) = screen[w]
         /\ state.place[w] = "hidden" /\ renderedScreen(w).placed => renderedScreen(w).hidden
         /\ state.place[w] \in {"strip", "full", "alone"} => ~renderedScreen(w).hidden
         /\ state.place[w] \in {"strip", "full", "alone"} /\ ~win[w].Fullscreen =>
              renderedScreen(w) = shownScreen(w)
<1> DEFINE o == win[w]
           r == screen[w]
<1>1. o \in WindowRecord /\ r \in ScreenRecord /\ Recorded(o, r, bars)
  BY DEF Typed
<1>2. state.place[w] \in Place
  BY ModelParts DEF Typed, Windows, Model
<1>3. CASE state.place[w] = "out"
  <2>1. w \notin Visible(state)
    BY <1>3 DEF Visible
  <2>2. renderedWindow(w) = o /\ renderedScreen(w) = r
    BY <1>3, <2>1 DEF renderedWindow, renderedScreen
  <2> QED BY <1>1, <1>3, <2>1, <2>2
<1>4. CASE state.place[w] = "hidden"
  <2> DEFINE p == renderedWindow(w)
             q == renderedScreen(w)
             hidden == r.hidden \/ o.Shown
  <2>0. w \notin Visible(state)
    BY <1>4 DEF Visible
  <2>1. p = [o EXCEPT !.Shown = FALSE] /\ q = [r EXCEPT !.hidden = hidden]
    <3>1. p = [o EXCEPT !.Shown = FALSE]
      BY <1>4, <2>0 DEF renderedWindow
    <3>2. q = [r EXCEPT !.hidden = hidden]
      BY <1>4, <2>0 DEF renderedScreen
    <3> QED BY <3>1, <3>2
  <2>2. hidden \in BOOLEAN
    OBVIOUS
  <2> HIDE DEF o, r, p, q, hidden
  <2>3. /\ p \in WindowRecord /\ p.object = o.object /\ p.Fullscreen = o.Fullscreen /\ ~p.Shown
        /\ \A f \in {"Clipped", "ContentClipped", "FocusSent", "BarSent", "BorderSet",
                     "DecoDrawn", "DecoFocused"} : p[f] = o[f]
    BY <1>1, <2>1 DEF WindowRecord
  <2>4. /\ q \in ScreenRecord /\ q.displayed = r.displayed /\ q.hidden = hidden
        /\ \A f \in {"fullscreened", "placed", "clip", "contentClip", "border", "focused", "top", "bar"} :
             q[f] = r[f]
    BY <1>1, <2>1, <2>2 DEF ScreenRecord
  <2>5. /\ q.placed => q.hidden
        /\ ~q.placed => ~q.hidden
    BY <1>1, <2>4 DEF Recorded, hidden, WindowRecord, ScreenRecord
  <2>6. Recorded(p, q, bars)
    BY <1>1, <2>3, <2>4, <2>5 DEF Recorded
  <2> QED BY <1>4, <2>0, <2>3, <2>4, <2>5, <2>6 DEF o, r, p, q
<1>5. CASE state.place[w] \in {"strip", "full", "alone"} /\ o.Fullscreen
  <2> DEFINE p == renderedWindow(w)
             q == renderedScreen(w)
             hidden == r.hidden /\ o.Shown
  <2>1. p = [o EXCEPT !.Shown = TRUE] /\ q = [r EXCEPT !.hidden = hidden, !.placed = TRUE]
    BY <1>5 DEF renderedWindow, renderedScreen, Visible
  <2>2. hidden \in BOOLEAN
    OBVIOUS
  <2> HIDE DEF o, r, p, q, hidden
  <2>3. /\ p \in WindowRecord /\ p.object = o.object /\ p.Fullscreen = o.Fullscreen /\ p.Shown
        /\ \A f \in {"Clipped", "ContentClipped", "FocusSent", "BarSent", "BorderSet",
                     "DecoDrawn", "DecoFocused"} : p[f] = o[f]
    BY <1>1, <2>1 DEF WindowRecord
  <2>4. /\ q \in ScreenRecord /\ q.displayed = r.displayed /\ q.hidden = hidden /\ q.placed
        /\ \A f \in {"fullscreened", "clip", "contentClip", "border", "focused", "top", "bar"} :
             q[f] = r[f]
    BY <1>1, <2>1, <2>2 DEF ScreenRecord
  <2>5. ~q.hidden
    BY <1>1, <2>4 DEF Recorded, hidden, WindowRecord, ScreenRecord
  <2>6. Recorded(p, q, bars)
    BY <1>1, <2>3, <2>4, <2>5 DEF Recorded
  <2> QED BY <1>5, <2>3, <2>4, <2>5, <2>6 DEF o, r, p, q
<1>6. CASE state.place[w] \in {"strip", "full", "alone"} /\ ~o.Fullscreen
  <2>1. renderedWindow(w) = shownWindow(w) /\ renderedScreen(w) = shownScreen(w)
    BY <1>6 DEF renderedWindow, renderedScreen, Visible
  <2> QED BY <1>6, <2>1, ShownInPlace
<1> QED BY <1>2, <1>3, <1>4, <1>5, <1>6 DEF Place

-----------------------------------------------------------------------------
(* The invariant is inductive.                                             *)

LEMMA InitHolds == Init => RiverInv
<1> SUFFICES ASSUME Init PROVE RiverInv
  OBVIOUS
<1>1. state \in Model /\ Windows(state) = {} /\ state \in Models[Windows(state)]
  BY ModelParts DEF Init
<1>2. Typed
  <2>1. seat \in SeatRecord /\ motion \in 0..MaxMotion /\ batch \in 0..MaxEvents
    BY RiverAssumption DEF Init, SeatRecord, Operation, NoOp
  <2>2. win \in [WindowID -> WindowRecord] /\ screen \in [WindowID -> ScreenRecord]
    BY NoObjectType DEF Init
  <2> QED BY <1>1, <2>1, <2>2 DEF Init, Typed
<1>3. ObjectsAreBorn /\ AllRecorded
  BY <1>1, NoObjectType DEF Init, ObjectsAreBorn, AllRecorded
<1>4. ShownAreDisplayed /\ ReleasesEnd /\ RestsWhereItWas
  BY <1>1 DEF Init, ShownAreDisplayed, ReleasesEnd, RestsWhereItWas
<1>5. DisplayedAreShown
  BY DEF Init, DisplayedAreShown, Fresh
<1> QED BY <1>2, <1>3, <1>4, <1>5 DEF RiverInv

LEMMA EventParts ==
  ASSUME Typed, Event
  PROVE  /\ running' \in BOOLEAN /\ turn' = "events" /\ batch' \in 0..MaxEvents
         /\ bars' = bars /\ bars' \in BOOLEAN
         /\ ShownAreDisplayed'
<1>1. batch' \in 0..MaxEvents
  BY RiverAssumption DEF Typed, Event
<1> QED BY <1>1 DEF Typed, Event, ShownAreDisplayed

\* An event shows nothing: what is displayed then, the render sequence has shown.
LEMMA EventShowsNothing ==
  ASSUME DisplayedAreShown, Event, UNCHANGED screen
  PROVE  DisplayedAreShown'
BY DEF DisplayedAreShown, Event

\* An event for a window only marks its record for the next manage sequence.
LEMMA MarkedRecord ==
  ASSUME NEW o \in WindowRecord, NEW p,
         \/ p = [o EXCEPT !.Closed = TRUE]
         \/ p = [o EXCEPT !.FullscreenReq = TRUE]
         \/ p = [o EXCEPT !.UnfullscreenReq = TRUE]
  PROVE  /\ p \in WindowRecord /\ p.object = o.object
         /\ \A r, on : Recorded(o, r, on) => Recorded(p, r, on)
<1>1. p \in WindowRecord /\ p.object = o.object
  BY DEF WindowRecord
<1>2. /\ p.Shown = o.Shown /\ p.Clipped = o.Clipped /\ p.ContentClipped = o.ContentClipped
      /\ p.FocusSent = o.FocusSent /\ p.BarSent = o.BarSent /\ p.BorderSet = o.BorderSet
      /\ p.DecoDrawn = o.DecoDrawn /\ p.DecoFocused = o.DecoFocused
  BY DEF WindowRecord
<1> QED BY <1>1, <1>2 DEF Recorded

LEMMA MarkingKeeps ==
  ASSUME RiverInv, NEW w \in WindowID, Event, NEW p \in WindowRecord,
         win[w].object, p.object = win[w].object,
         \A r, on : Recorded(win[w], r, on) => Recorded(p, r, on),
         win' = [win EXCEPT ![w] = p],
         UNCHANGED <<state, queued, born, screen, seat, motion, travelled, layer>>
  PROVE  RiverInv'
<1>1. Typed'
  BY EventParts DEF RiverInv, Typed, Windows
<1>2. \A v \in WindowID : win'[v].object = win[v].object /\ (win'[v] = win[v] \/ win[v].object)
  BY DEF RiverInv, Typed
<1>3. ObjectsAreBorn'
  BY <1>2 DEF RiverInv, ObjectsAreBorn, Windows
<1>4. AllRecorded'
  <2> SUFFICES ASSUME NEW v \in WindowID PROVE Recorded(win'[v], screen[v], bars)
    BY EventParts DEF RiverInv, AllRecorded
  <2>1. Recorded(win[v], screen[v], bars)
    BY DEF RiverInv, AllRecorded
  <2>2. win'[v] = IF v = w THEN p ELSE win[v]
    BY DEF RiverInv, Typed
  <2> QED BY <2>1, <2>2
<1> QED BY <1>1, <1>3, <1>4, EventParts, EventShowsNothing
        DEF RiverInv, ReleasesEnd, RestsWhereItWas

\* An event that leaves windows and model alone.
LEMMA SeatEventKeeps ==
  ASSUME RiverInv, Event, UNCHANGED <<state, born, win, screen>>,
         queued' \in BOOLEAN, travelled' \in BOOLEAN, layer' \in BOOLEAN,
         seat' \in SeatRecord, motion' \in 0..MaxMotion, ReleasesEnd', RestsWhereItWas'
  PROVE  RiverInv'
<1>1. Typed'
  BY EventParts DEF RiverInv, Typed, Windows
<1>2. ObjectsAreBorn' /\ AllRecorded'
  BY EventParts DEF RiverInv, ObjectsAreBorn, AllRecorded, Windows
<1> QED BY <1>1, <1>2, EventParts, EventShowsNothing DEF RiverInv

\* A request of a client that may focus a window and start an operation.
LEMMA FocusingEventKeeps ==
  ASSUME RiverInv, Event, NEW w, state' \in FocusWindow(state, w),
         UNCHANGED <<queued, born, win, screen, travelled, layer>>,
         seat' \in SeatRecord, motion' \in 0..MaxMotion, ReleasesEnd', RestsWhereItWas'
  PROVE  RiverInv'
<1> DEFINE ws == Windows(state)
<1>1. ws \in SUBSET WindowID /\ state \in Models[ws]
  BY DEF RiverInv, Typed, Windows
<1>2. state' \in Models[ws]
  BY <1>1, FocusKeepsWindows
<1>3. Windows(state') = ws /\ state' \in Models[Windows(state')]
  BY <1>1, <1>2, ModelParts
<1>4. Typed'
  BY <1>3, EventParts DEF RiverInv, Typed
<1>5. ObjectsAreBorn' /\ AllRecorded'
  BY <1>3, EventParts DEF RiverInv, ObjectsAreBorn, AllRecorded
<1> QED BY <1>4, <1>5, EventParts, EventShowsNothing DEF RiverInv

\* The seat when an operation starts.
LEMMA StartedSeat ==
  ASSUME RiverInv, NEW op \in ResizeOp, seat.Op = NoOp, started(op)
  PROVE  /\ seat' \in SeatRecord /\ motion' \in 0..MaxMotion
         /\ seat'.X = seat.X /\ seat'.LastX = seat.LastX /\ ReleasesEnd'
<1>1. op \in Operation /\ op # NoOp
  BY RiverAssumption DEF ResizeOp, MoveOp, NoOp, Operation
<1>2. seat' = [seat EXCEPT !.Op = op] /\ motion' = 0
  BY DEF started
<1>3. seat' \in SeatRecord /\ motion' \in 0..MaxMotion /\ seat'.Op = op
  BY <1>1, <1>2, RiverAssumption DEF RiverInv, Typed, SeatRecord
<1> QED BY <1>1, <1>2, <1>3 DEF RiverInv, Typed, SeatRecord, ReleasesEnd

\* A window that appears has nothing recorded and nothing on the screen.
LEMMA AppearingKeeps ==
  ASSUME RiverInv, WindowAppears
  PROVE  RiverInv'
<1>1. PICK w \in WindowID \ born :
        /\ Event
        /\ born' = born \cup {w}
        /\ win' = [win EXCEPT ![w] = NewWindow]
        /\ UNCHANGED <<state, queued, screen, seat, motion, travelled, layer>>
  BY DEF WindowAppears
<1>2. Typed'
  BY <1>1, EventParts, NoObjectType DEF RiverInv, Typed, Windows
<1>3. ObjectsAreBorn'
  <2>1. NewWindow.object
    BY DEF NewWindow
  <2> QED BY <1>1, <2>1 DEF RiverInv, Typed, ObjectsAreBorn, Windows
<1>4. AllRecorded'
  <2> SUFFICES ASSUME NEW v \in WindowID PROVE Recorded(win'[v], screen[v], bars)
    BY <1>1, EventParts DEF RiverInv, AllRecorded
  <2>1. CASE v = w
    BY <1>1, <2>1, NoObjectType DEF RiverInv, Typed, ObjectsAreBorn
  <2>2. CASE v # w
    BY <1>1, <2>2 DEF RiverInv, Typed, AllRecorded
  <2> QED BY <2>1, <2>2
<1> QED BY <1>1, <1>2, <1>3, <1>4, EventParts, EventShowsNothing
        DEF RiverInv, ReleasesEnd, RestsWhereItWas

\* Every event keeps the invariant.
LEMMA EventsKeep ==
  ASSUME RiverInv,
         \/ WindowAppears \/ WindowClosed \/ FullscreenRequested
         \/ PointerMoves \/ PointerEnters \/ WindowInteraction
         \/ LayerFocusChanges \/ CommandQueued
         \/ pointerPress \/ clientMoveRequest \/ clientResizeRequest
         \/ OpDelta \/ OpRelease
  PROVE  RiverInv'
<1>1. seat \in SeatRecord /\ motion \in 0..MaxMotion /\ ReleasesEnd /\ RestsWhereItWas
  BY DEF RiverInv, Typed
<1>2. \A w \in Live : w \in WindowID /\ win[w] \in WindowRecord /\ win[w].object
  BY DEF RiverInv, Typed, Live
<1>3. queued \in BOOLEAN /\ travelled \in BOOLEAN /\ layer \in BOOLEAN
  BY DEF RiverInv, Typed
<1>4. CASE WindowAppears
  BY <1>4, AppearingKeeps
<1>5. CASE WindowClosed
  <2>1. PICK w \in Live :
          /\ Event /\ win' = [win EXCEPT ![w].Closed = TRUE]
          /\ UNCHANGED <<state, queued, born, screen, seat, motion, travelled, layer>>
    BY <1>5 DEF WindowClosed
  <2>2. PICK p : p = [win[w] EXCEPT !.Closed = TRUE]
    OBVIOUS
  <2>3. win' = [win EXCEPT ![w] = p]
    BY <2>1, <2>2
  <2>4. /\ p \in WindowRecord /\ p.object = win[w].object
        /\ \A r, on : Recorded(win[w], r, on) => Recorded(p, r, on)
    BY <1>2, <2>2, MarkedRecord
  <2> QED BY <1>2, <2>1, <2>3, <2>4, MarkingKeeps
<1>6. CASE FullscreenRequested
  <2>1. PICK w \in Live :
          /\ Event
          /\ \/ win' = [win EXCEPT ![w].FullscreenReq = TRUE]
             \/ win' = [win EXCEPT ![w].UnfullscreenReq = TRUE]
          /\ UNCHANGED <<state, queued, born, screen, seat, motion, travelled, layer>>
    BY <1>6 DEF FullscreenRequested
  <2>2. PICK p : /\ \/ p = [win[w] EXCEPT !.FullscreenReq = TRUE]
                    \/ p = [win[w] EXCEPT !.UnfullscreenReq = TRUE]
                 /\ win' = [win EXCEPT ![w] = p]
    BY <2>1
  <2>3. /\ p \in WindowRecord /\ p.object = win[w].object
        /\ \A r, on : Recorded(win[w], r, on) => Recorded(p, r, on)
    BY <1>2, <2>2, MarkedRecord
  <2> QED BY <1>2, <2>1, <2>2, <2>3, MarkingKeeps
<1>7. CASE PointerMoves
  <2>1. seat' \in SeatRecord /\ seat'.Op = seat.Op /\ seat'.OpReleased = seat.OpReleased
    BY <1>1, <1>7 DEF PointerMoves, SeatRecord
  <2> QED BY <1>1, <1>3, <1>7, <2>1, SeatEventKeeps
          DEF PointerMoves, ReleasesEnd, RestsWhereItWas
<1>8. CASE PointerEnters \/ WindowInteraction
  <2>1. /\ seat' \in SeatRecord /\ seat'.Op = seat.Op /\ seat'.OpReleased = seat.OpReleased
        /\ seat'.X = seat.X /\ seat'.LastX = seat.LastX
    BY <1>1, <1>2, <1>8 DEF PointerEnters, WindowInteraction, SeatRecord
  <2> QED BY <1>1, <1>3, <1>8, <2>1, SeatEventKeeps
          DEF PointerEnters, WindowInteraction, ReleasesEnd, RestsWhereItWas
<1>9. CASE LayerFocusChanges \/ CommandQueued
  BY <1>1, <1>3, <1>9, SeatEventKeeps
  DEF LayerFocusChanges, CommandQueued, ReleasesEnd, RestsWhereItWas
<1>10. CASE pointerPress
  BY <1>1, <1>3, <1>10, StartedSeat, SeatEventKeeps DEF pointerPress, RestsWhereItWas
<1>11. CASE clientMoveRequest
  <2>1. PICK w \in Live \cap Visible(state), op \in MoveOp :
          /\ Event /\ seat.Op = NoOp /\ state' \in FocusWindow(state, w) /\ started(op)
          /\ UNCHANGED <<queued, born, win, screen, travelled, layer>>
    BY <1>11 DEF clientMoveRequest
  <2>2. op \in ResizeOp
    BY DEF ResizeOp
  <2> QED BY <1>1, <2>1, <2>2, StartedSeat, FocusingEventKeeps DEF RestsWhereItWas
<1>12. CASE clientResizeRequest
  <2>1. PICK w \in Live \cap Windows(state) :
          /\ Event /\ seat.Op = NoOp /\ state' \in FocusWindow(state, w)
          /\ (\E op \in ResizeOp : started(op)) \/ UNCHANGED <<seat, motion>>
          /\ UNCHANGED <<queued, born, win, screen, travelled, layer>>
    BY <1>12 DEF clientResizeRequest
  <2>2. CASE \E op \in ResizeOp : started(op)
    BY <1>1, <2>1, <2>2, StartedSeat, FocusingEventKeeps DEF RestsWhereItWas
  <2>3. CASE UNCHANGED <<seat, motion>>
    BY <1>1, <2>1, <2>3, FocusingEventKeeps DEF RestsWhereItWas, ReleasesEnd
  <2> QED BY <2>1, <2>2, <2>3
<1>13. CASE OpDelta
  <2>1. /\ seat' \in SeatRecord /\ motion' \in 0..MaxMotion
        /\ seat'.Op = seat.Op /\ seat'.OpReleased = seat.OpReleased
        /\ seat'.X = seat.X /\ seat'.LastX = seat.LastX
    BY <1>1, <1>13 DEF OpDelta, SeatRecord
  <2> QED BY <1>1, <1>3, <1>13, <2>1, SeatEventKeeps
          DEF OpDelta, ReleasesEnd, RestsWhereItWas
<1>14. CASE OpRelease
  <2>1. /\ seat' \in SeatRecord /\ seat'.Op = seat.Op
        /\ seat'.X = seat.X /\ seat'.LastX = seat.LastX
    BY <1>1, <1>14 DEF OpRelease, SeatRecord
  <2> QED BY <1>1, <1>3, <1>14, <2>1, SeatEventKeeps
          DEF OpRelease, ReleasesEnd, RestsWhereItWas
<1> QED BY <1>4, <1>5, <1>6, <1>7, <1>8, <1>9, <1>10, <1>11, <1>12, <1>13, <1>14

\* What a reload among the commands leaves of records and screen still agrees.
LEMMA ReloadRecorded ==
  ASSUME RiverInv, NEW change \in {"none", "border", "titlebar"},
         NEW on \in IF change = "titlebar" THEN BOOLEAN ELSE {bars},
         NEW objects, NEW shown,
         objects = CASE change = "border" -> BorderChange(kept)
                     [] change = "titlebar" -> TitlebarChange(kept, on)
                     [] OTHER -> kept,
         shown = CASE change = "border" -> Borderless(screen)
                   [] change = "titlebar" -> Outdated(screen, on)
                   [] OTHER -> screen,
         NEW w \in WindowID
  PROVE  /\ objects[w] \in WindowRecord /\ shown[w] \in ScreenRecord
         /\ objects[w].object = kept[w].object
         /\ SameDisplay(shown[w], screen[w])
         /\ objects[w].object => Recorded(objects[w], shown[w], on)
         /\ ~objects[w].object =>
              ~objects[w].Shown /\ ~objects[w].BorderSet /\ ~objects[w].DecoDrawn
<1>1. /\ kept \in [WindowID -> WindowRecord] /\ screen \in [WindowID -> ScreenRecord]
      /\ bars \in BOOLEAN /\ on \in BOOLEAN
  BY KeptRecord DEF RiverInv, Typed, kept
<1>2. /\ kept[w].object => Recorded(kept[w], screen[w], bars)
      /\ ~kept[w].object => ~kept[w].Shown /\ ~kept[w].BorderSet /\ ~kept[w].DecoDrawn
  <2>1. kept[w].object => Recorded(kept[w], screen[w], bars)
    BY KeptRecord DEF RiverInv, AllRecorded
  <2>2. CASE win[w].Closed
    BY <2>2, NoObjectType DEF kept
  <2>3. CASE ~win[w].Closed
    <3>1. kept[w] = [win[w] EXCEPT !.New = FALSE] /\ win[w] \in WindowRecord
      BY <2>3 DEF kept, RiverInv, Typed
    <3>2. /\ kept[w].object = win[w].object /\ kept[w].Shown = win[w].Shown
          /\ kept[w].BorderSet = win[w].BorderSet /\ kept[w].DecoDrawn = win[w].DecoDrawn
      BY <3>1 DEF WindowRecord
    <3>3. ~win[w].object => ~win[w].Shown /\ ~win[w].BorderSet /\ ~win[w].DecoDrawn
      BY DEF RiverInv, ObjectsAreBorn
    <3> QED BY <2>1, <3>2, <3>3
  <2> QED BY <2>1, <2>2, <2>3
<1>3. CASE change = "border"
  <2>1. objects = BorderChange(kept) /\ shown = Borderless(screen) /\ on = bars
    BY <1>3
  <2>2. ~kept[w].object => ~objects[w].Shown /\ ~objects[w].BorderSet /\ ~objects[w].DecoDrawn
    BY <1>1, <1>2, <2>1 DEF BorderChange, WindowRecord
  <2> QED BY <1>1, <1>2, <2>1, <2>2, BorderChangeRecorded
<1>4. CASE change = "titlebar"
  <2>1. objects = TitlebarChange(kept, on) /\ shown = Outdated(screen, on)
    BY <1>4
  <2>2. ~kept[w].object => ~objects[w].Shown /\ ~objects[w].BorderSet /\ ~objects[w].DecoDrawn
    <3>1. kept[w] \in WindowRecord
      BY <1>1
    <3>2. /\ objects[w].Shown = kept[w].Shown /\ objects[w].BorderSet = kept[w].BorderSet
          /\ ~objects[w].DecoDrawn
      <4>1. CASE on
        <5>1. objects[w] = [kept[w] EXCEPT !.DecoDrawn = FALSE]
          BY <2>1, <4>1 DEF TitlebarChange
        <5> QED BY <3>1, <5>1 DEF WindowRecord
      <4>2. CASE ~on
        <5>1. objects[w] = [kept[w] EXCEPT !.Deco = FALSE, !.DecoDrawn = FALSE,
                                           !.DecoFocused = FALSE]
          BY <2>1, <4>2 DEF TitlebarChange
        <5> QED BY <3>1, <5>1 DEF WindowRecord
      <4> QED BY <4>1, <4>2
    <3> QED BY <1>2, <3>2
  <2> QED BY <1>1, <1>2, <2>1, <2>2, TitlebarChangeRecorded
<1>5. CASE change = "none"
  <2>1. objects = kept /\ shown = screen /\ on = bars
    BY <1>5
  <2> QED BY <1>1, <1>2, <2>1 DEF SameDisplay
<1> QED BY <1>3, <1>4, <1>5

\* An operation is applied, or ends when the button was released.
LEMMA ManagedSeat ==
  ASSUME RiverInv,
         seat' = [appliedOp EXCEPT !.LastX = lastSynced, !.FocusHovered = None,
                                   !.Interacted = None]
  PROVE  seat' \in SeatRecord /\ ReleasesEnd' /\ seat'.X = seat'.LastX
<1>1. seat \in SeatRecord /\ ReleasesEnd
  BY DEF RiverInv, Typed
<1>2. /\ appliedOp \in SeatRecord /\ appliedOp.X = seat.X
      /\ appliedOp.OpReleased => appliedOp.Op # NoOp
  <2>1. CASE seat.Op = NoOp
    BY <1>1, <2>1 DEF appliedOp, ReleasesEnd
  <2>2. CASE seat.Op # NoOp /\ seat.OpReleased
    <3>1. NoOp \in Operation
      BY RiverAssumption DEF NoOp, Operation
    <3>2. appliedOp = [seat EXCEPT !.Op = NoOp, !.OpReleased = FALSE]
      BY <2>2 DEF appliedOp, endOp
    <3> QED BY <1>1, <3>1, <3>2 DEF SeatRecord
  <2>3. CASE seat.Op # NoOp /\ ~seat.OpReleased
    <3>1. appliedOp = [seat EXCEPT !.Op = [seat.Op EXCEPT !.at = seat.OpDx]]
      BY <2>3 DEF appliedOp
    <3>2. [seat.Op EXCEPT !.at = seat.OpDx] \in Operation
      BY <1>1 DEF SeatRecord, Operation
    <3>3. /\ appliedOp \in SeatRecord /\ appliedOp.X = seat.X
          /\ appliedOp.OpReleased = seat.OpReleased
      BY <1>1, <3>1, <3>2 DEF SeatRecord
    <3> QED BY <2>3, <3>3
  <2> QED BY <2>1, <2>2, <2>3
<1>3. seat.X \in {0, 1}
  BY <1>1 DEF SeatRecord
<1>4. /\ seat' \in SeatRecord /\ seat'.X = seat.X /\ seat'.LastX = seat.X
      /\ seat'.Op = appliedOp.Op /\ seat'.OpReleased = appliedOp.OpReleased
  BY <1>2, <1>3 DEF SeatRecord, lastSynced
<1> QED BY <1>2, <1>4 DEF ReleasesEnd

LEMMA ManageStartKeeps ==
  ASSUME RiverInv, ManageStart
  PROVE  RiverInv'
<1>1. PICK m \in windowsSynced : \E n \in focusSynced(m) : state' \in drained(n)
  BY DEF ManageStart
<1>2. PICK ws \in SUBSET WindowID : state' \in Models[ws] /\ \A w \in ws : kept[w].object
  BY <1>1, SyncedModel DEF RiverInv
<1>3. Windows(state') = ws /\ state' \in Models[Windows(state')]
  BY <1>2, ModelParts
<1>4. PICK change \in IF queued THEN {"none", "border", "titlebar"} ELSE {"none"} :
        \E on \in IF change = "titlebar" THEN BOOLEAN ELSE {bars} :
        LET objects == CASE change = "border" -> BorderChange(kept)
                         [] change = "titlebar" -> TitlebarChange(kept, on)
                         [] OTHER -> kept
            shown == CASE change = "border" -> Borderless(screen)
                       [] change = "titlebar" -> Outdated(screen, on)
                       [] OTHER -> screen
        IN /\ bars' = on
           /\ win' = [w \in WindowID |-> fullscreenApplied(objects[w])]
           /\ screen' = [w \in WindowID |->
                IF ~objects[w].object THEN Fresh
                ELSE [shown[w] EXCEPT
                        !.displayed = shown[w].displayed \/ w \in Visible(state')
                                      \/ objects[w].FullscreenReq,
                        !.fullscreened = shown[w].fullscreened \/ objects[w].FullscreenReq]]
  BY DEF ManageStart
<1>4a. PICK on \in IF change = "titlebar" THEN BOOLEAN ELSE {bars} :
        LET objects == CASE change = "border" -> BorderChange(kept)
                         [] change = "titlebar" -> TitlebarChange(kept, on)
                         [] OTHER -> kept
            shown == CASE change = "border" -> Borderless(screen)
                       [] change = "titlebar" -> Outdated(screen, on)
                       [] OTHER -> screen
        IN /\ bars' = on
           /\ win' = [w \in WindowID |-> fullscreenApplied(objects[w])]
           /\ screen' = [w \in WindowID |->
                IF ~objects[w].object THEN Fresh
                ELSE [shown[w] EXCEPT
                        !.displayed = shown[w].displayed \/ w \in Visible(state')
                                      \/ objects[w].FullscreenReq,
                        !.fullscreened = shown[w].fullscreened \/ objects[w].FullscreenReq]]
  BY <1>4
<1> DEFINE objects == CASE change = "border" -> BorderChange(kept)
                        [] change = "titlebar" -> TitlebarChange(kept, on)
                        [] OTHER -> kept
           shown == CASE change = "border" -> Borderless(screen)
                      [] change = "titlebar" -> Outdated(screen, on)
                      [] OTHER -> screen
           displayed(w) == shown[w].displayed \/ w \in Visible(state')
                           \/ objects[w].FullscreenReq
           fullscreened(w) == shown[w].fullscreened \/ objects[w].FullscreenReq
<1>5. /\ bars' = on
      /\ win' = [w \in WindowID |-> fullscreenApplied(objects[w])]
      /\ screen' = [w \in WindowID |->
           IF ~objects[w].object THEN Fresh
           ELSE [shown[w] EXCEPT !.displayed = displayed(w), !.fullscreened = fullscreened(w)]]
  BY <1>4a
<1>6. change \in {"none", "border", "titlebar"}
  BY <1>4
<1>7. \A w \in WindowID :
         /\ objects[w] \in WindowRecord /\ shown[w] \in ScreenRecord
         /\ objects[w].object = kept[w].object
         /\ SameDisplay(shown[w], screen[w])
         /\ objects[w].object => Recorded(objects[w], shown[w], on)
         /\ ~objects[w].object =>
              ~objects[w].Shown /\ ~objects[w].BorderSet /\ ~objects[w].DecoDrawn
  BY <1>4a, <1>6, ReloadRecorded
<1>8. on \in BOOLEAN
  BY <1>4a DEF RiverInv, Typed
<1> HIDE DEF objects, shown
<1>9. ASSUME NEW w \in WindowID
      PROVE  /\ win'[w] \in WindowRecord /\ screen'[w] \in ScreenRecord
             /\ win'[w].object = kept[w].object
             /\ Recorded(win'[w], screen'[w], on)
             /\ ~win'[w].object => /\ ~win'[w].Shown /\ ~win'[w].BorderSet
                                   /\ ~win'[w].DecoDrawn /\ screen'[w] = Fresh
             /\ win'[w].object /\ w \in Visible(state') => screen'[w].displayed
             /\ screen'[w].displayed => \/ screen'[w].placed \/ screen'[w].fullscreened
                                        \/ w \in Visible(state')
  <2> DEFINE o == objects[w]
             r == shown[w]
  <2>1. o \in WindowRecord /\ r \in ScreenRecord
    BY <1>7
  <2>2. win'[w] = fullscreenApplied(o)
    BY <1>5
  <2>3. /\ win'[w] \in WindowRecord /\ win'[w].object = kept[w].object
        /\ \A s : Recorded(o, s, on) => Recorded(win'[w], s, on)
    BY <1>7, <2>1, <2>2, FullscreenRecorded
  <2>4. CASE ~o.object
    <3>1. screen'[w] = Fresh /\ ~Fresh.displayed
      BY <1>5, <2>4 DEF Fresh
    <3>2. Recorded(o, Fresh, on)
      BY <1>7, <2>4 DEF Recorded, Fresh
    <3>3. ~win'[w].Shown /\ ~win'[w].BorderSet /\ ~win'[w].DecoDrawn
      BY <1>7, <2>1, <2>2, <2>4 DEF fullscreenApplied, WindowRecord
    <3> QED BY <1>7, <2>3, <2>4, <3>1, <3>2, <3>3, NoObjectType
  <2>5. CASE o.object
    <3>1. screen'[w] = [r EXCEPT !.displayed = displayed(w), !.fullscreened = fullscreened(w)]
      BY <1>5, <2>5
    <3>2. /\ displayed(w) \in BOOLEAN /\ fullscreened(w) \in BOOLEAN
          /\ w \in Visible(state') => displayed(w)
      BY <2>1 DEF WindowRecord, ScreenRecord
    <3>2a. displayed(w) => \/ screen[w].placed \/ fullscreened(w) \/ w \in Visible(state')
      <4>1. SameDisplay(r, screen[w]) /\ turn = "events"
        BY <1>7 DEF ManageStart
      <4>2. screen[w].displayed => screen[w].placed \/ screen[w].fullscreened
        BY <4>1 DEF RiverInv, DisplayedAreShown
      <4> QED BY <4>1, <4>2 DEF SameDisplay
    <3> HIDE DEF displayed, fullscreened
    <3>3. /\ screen'[w] \in ScreenRecord /\ screen'[w].displayed = displayed(w)
          /\ screen'[w].fullscreened = fullscreened(w)
      BY <2>1, <3>1, <3>2 DEF ScreenRecord
    <3>4. /\ screen'[w].placed = r.placed /\ screen'[w].hidden = r.hidden
          /\ screen'[w].clip = r.clip /\ screen'[w].contentClip = r.contentClip
          /\ screen'[w].border = r.border /\ screen'[w].focused = r.focused
          /\ screen'[w].top = r.top /\ screen'[w].bar = r.bar
      BY <2>1, <3>1 DEF ScreenRecord
    <3>5. Recorded(o, screen'[w], on)
      BY <1>7, <2>5, <3>4 DEF Recorded
    <3>6. screen'[w].placed = screen[w].placed
      BY <1>7, <3>4 DEF SameDisplay
    <3> QED BY <1>7, <2>3, <2>5, <3>2, <3>2a, <3>3, <3>5, <3>6
  <2> QED BY <2>4, <2>5
<1>10. seat' \in SeatRecord /\ ReleasesEnd' /\ seat'.X = seat'.LastX
  BY ManagedSeat DEF ManageStart
<1>11. Typed'
  <2>1. win' \in [WindowID -> WindowRecord] /\ screen' \in [WindowID -> ScreenRecord]
    BY <1>5, <1>9
  <2>2. 0 \in 0..MaxEvents
    BY RiverAssumption
  <2> QED BY <1>3, <1>5, <1>8, <1>10, <2>1, <2>2 DEF ManageStart, RiverInv, Typed
<1>12. ObjectsAreBorn'
  <2>1. \A w \in WindowID : kept[w].object => w \in born
    BY KeptRecord DEF RiverInv, ObjectsAreBorn
  <2> QED BY <1>2, <1>3, <1>9, <2>1 DEF ObjectsAreBorn, ManageStart
<1>13. AllRecorded'
  BY <1>5, <1>9 DEF AllRecorded
<1>14. ShownAreDisplayed'
  BY <1>2, <1>3, <1>9 DEF ShownAreDisplayed, Visible, Windows
<1>15. DisplayedAreShown'
  BY <1>9 DEF DisplayedAreShown, ManageStart
<1> QED BY <1>10, <1>11, <1>12, <1>13, <1>14, <1>15 DEF RiverInv, RestsWhereItWas

LEMMA RenderStartKeeps ==
  ASSUME RiverInv, RenderStart
  PROVE  RiverInv'
<1>1. /\ win' = [w \in WindowID |-> renderedWindow(w)]
      /\ screen' = [w \in WindowID |-> renderedScreen(w)]
      /\ turn' = "rest" /\ turn # "events"
      /\ UNCHANGED <<running, batch, state, bars, queued, born, seat, motion, travelled, layer>>
  BY DEF RenderStart
<1>2. ASSUME NEW w \in WindowID
      PROVE  /\ win'[w] \in WindowRecord /\ screen'[w] \in ScreenRecord
             /\ win'[w].object = win[w].object /\ screen'[w].displayed = screen[w].displayed
             /\ screen'[w].fullscreened = screen[w].fullscreened
             /\ screen[w].placed \/ w \in Visible(state) => screen'[w].placed
             /\ Recorded(win'[w], screen'[w], bars)
             /\ state.place[w] = "out" => win'[w] = win[w] /\ screen'[w] = screen[w]
  <2>1. Typed /\ Recorded(win[w], screen[w], bars)
    BY DEF RiverInv, AllRecorded
  <2>2. win'[w] = renderedWindow(w) /\ screen'[w] = renderedScreen(w)
    BY <1>1
  <2> QED BY <2>1, <2>2, RenderedRecorded
<1>3. Typed'
  <2>1. win' \in [WindowID -> WindowRecord] /\ screen' \in [WindowID -> ScreenRecord]
    BY <1>1, <1>2
  <2> QED BY <1>1, <2>1 DEF RiverInv, Typed, Windows
<1>4. ObjectsAreBorn'
  BY <1>1, <1>2 DEF RiverInv, ObjectsAreBorn, Windows
<1>5. AllRecorded'
  BY <1>1, <1>2 DEF AllRecorded
<1>6. ShownAreDisplayed'
  BY <1>1, <1>2 DEF RiverInv, ShownAreDisplayed, Windows
<1>7. DisplayedAreShown'
  BY <1>1, <1>2 DEF RiverInv, DisplayedAreShown
<1> QED BY <1>1, <1>3, <1>4, <1>5, <1>6, <1>7 DEF RiverInv, ReleasesEnd, RestsWhereItWas

LEMMA StepHolds == RiverInv /\ [Next]_vars => RiverInv'
<1> SUFFICES ASSUME RiverInv, [Next]_vars PROVE RiverInv'
  OBVIOUS
<1>1. CASE ManageStart
  BY <1>1, ManageStartKeeps
<1>2. CASE RenderStart
  BY <1>2, RenderStartKeeps
<1>3. CASE ManagePanics \/ UNCHANGED vars
  <2>1. /\ running' \in BOOLEAN
        /\ UNCHANGED <<turn, batch, state, bars, queued, born, win, screen, seat, motion,
                      travelled, layer>>
    BY <1>3 DEF ManagePanics, vars, RiverInv, Typed
  <2>2. Typed'
    BY <2>1 DEF RiverInv, Typed, Windows
  <2>3. ObjectsAreBorn' /\ AllRecorded' /\ ShownAreDisplayed' /\ DisplayedAreShown'
    BY <2>1
    DEF RiverInv, ObjectsAreBorn, AllRecorded, ShownAreDisplayed, DisplayedAreShown, Windows
  <2> QED BY <2>1, <2>2, <2>3 DEF RiverInv, ReleasesEnd, RestsWhereItWas
<1>4. CASE \/ WindowAppears \/ WindowClosed \/ FullscreenRequested
           \/ PointerMoves \/ PointerEnters \/ WindowInteraction
           \/ LayerFocusChanges \/ CommandQueued
           \/ pointerPress \/ clientMoveRequest \/ clientResizeRequest
           \/ OpDelta \/ OpRelease
  BY <1>4, EventsKeep
<1> QED BY <1>1, <1>2, <1>3, <1>4 DEF Next

LEMMA RiverInvHolds == Spec => []RiverInv
BY InitHolds, StepHolds, PTL DEF Spec

-----------------------------------------------------------------------------
(* Theorems.                                                               *)

\* Whatever events, commands and reloads come, every variable of River has its type;
\* in particular an operation is only marked as released while it is under way
\* (backend/pointer.go, river.go: applyManage).
THEOREM RiverTypes == Spec => []TypeOK
<1>1. RiverInv => TypeOK
  <2> SUFFICES ASSUME RiverInv PROVE TypeOK
    OBVIOUS
  <2>1. ASSUME NEW w \in WindowID
        PROVE  /\ DOMAIN win[w] = DOMAIN NewWindow
               /\ \A f \in DOMAIN NewWindow : win[w][f] \in BOOLEAN
               /\ DOMAIN screen[w] = DOMAIN Fresh
               /\ screen[w].border \in {"none", "set", "old"}
               /\ screen[w].bar \in {"none", "focused", "normal", "old"}
    <3>1. win[w] \in WindowRecord /\ screen[w] \in ScreenRecord
      BY DEF RiverInv, Typed
    <3>2. DOMAIN win[w] = DOMAIN NewWindow
      BY <3>1, NoObjectType DEF WindowRecord
    <3>3. \A f \in DOMAIN NewWindow : win[w][f] \in BOOLEAN
      BY <3>1, NoObjectType DEF WindowRecord
    <3>4. /\ DOMAIN screen[w] = DOMAIN Fresh
          /\ screen[w].border \in {"none", "set", "old"}
          /\ screen[w].bar \in {"none", "focused", "normal", "old"}
      BY <3>1, NoObjectType DEF ScreenRecord
    <3> QED BY <3>2, <3>3, <3>4
  <2>2. seat \in SeatRecord
    BY DEF RiverInv, Typed
  <2> QED BY <2>1, <2>2 DEF TypeOK, RiverInv, Typed, ObjectsAreBorn, ReleasesEnd, SeatRecord
<1> QED BY <1>1, RiverInvHolds, PTL

\* A render sequence leaves every window as the layout places it; and nothing changes
\* that until the next one is due.
LEMMA RenderShowsAll ==
  ASSUME RiverInv, RenderStart
  PROVE  RenderedAsPlaced'
<1> SUFFICES ASSUME NEW w \in Windows(state)'
             PROVE  LET r == screen[w]
                        p == state.place[w]
                    IN (/\ p = "hidden" /\ r.displayed => r.hidden \/ DisplayedUnshown(r)
                        /\ p # "hidden" => r.displayed /\ ~r.hidden
                        /\ p # "hidden" /\ ~win[w].Fullscreen =>
                             /\ p # "strip" => ~r.clip /\ ~r.contentClip
                             /\ p = "strip" => IF bars THEN r.contentClip ELSE r.clip
                             /\ r.border = "set"
                             /\ r.focused = (state.focused = w /\ ~layer)
                             /\ r.top = ~hasBar(w)
                             /\ ~bars => r.bar = "none"
                             /\ hasBar(w) =>
                                  r.bar = IF state.focused = w THEN "focused" ELSE "normal")'
  BY DEF RenderedAsPlaced
<1>1. /\ win' = [v \in WindowID |-> renderedWindow(v)]
      /\ screen' = [v \in WindowID |-> renderedScreen(v)]
      /\ turn # "events" /\ state' = state /\ bars' = bars /\ layer' = layer
  BY DEF RenderStart
<1>2. w \in Windows(state) /\ w \in WindowID
  BY <1>1 DEF Windows
<1>3. win'[w] = renderedWindow(w) /\ screen'[w] = renderedScreen(w)
  BY <1>1, <1>2
<1>4. Typed /\ Recorded(win[w], screen[w], bars)
  BY <1>2 DEF RiverInv, AllRecorded
<1>5. state.place[w] \in {"hidden", "strip", "full", "alone"}
  BY <1>2, <1>4, ModelParts DEF Typed, Windows, Model, Place
<1>6. CASE state.place[w] = "hidden"
  <2>1. screen'[w].displayed => screen'[w].placed \/ screen'[w].fullscreened
    BY <1>2, RenderStartKeeps DEF RiverInv, DisplayedAreShown, RenderStart
  <2>2. screen'[w].placed => screen'[w].hidden
    BY <1>2, <1>3, <1>4, <1>6, RenderedRecorded
  <2> QED BY <1>1, <1>6, <2>1, <2>2 DEF DisplayedUnshown
<1>7. CASE state.place[w] \in {"strip", "full", "alone"}
  <2>1. screen'[w].displayed /\ ~screen'[w].hidden
    BY <1>1, <1>2, <1>3, <1>4, <1>7, RenderedRecorded DEF RiverInv, ShownAreDisplayed
  <2>2. CASE win[w].Fullscreen
    <3>1. win'[w].Fullscreen
      BY <1>2, <1>3, <1>4, <2>2, RenderedRecorded
    <3> QED BY <1>1, <1>7, <2>1, <3>1
  <2>3. CASE ~win[w].Fullscreen
    <3>1. screen'[w] = shownScreen(w)
      BY <1>2, <1>3, <1>4, <1>7, <2>3, RenderedRecorded
    <3>2. hasBar(w)' = hasBar(w)
      BY <1>1 DEF hasBar
    <3> QED BY <1>1, <1>2, <1>4, <1>7, <2>1, <3>1, <3>2, ShownInPlace
  <2> QED BY <2>2, <2>3
<1> QED BY <1>5, <1>6, <1>7

\* For any windows and any number of events in a batch: after a render sequence river shows
\* the windows the layout shows, with the border and the titlebar of their focus and of the
\* config, and displays no other, except one that a client made fullscreen before wimy ever
\* showed it; although applyRender only sends what differs from its records.
THEOREM AlwaysRenderedAsPlaced == Spec => []RenderedAsPlaced
<1>1. Init => RenderedAsPlaced
  BY ModelParts DEF Init, RenderedAsPlaced
<1>2. ASSUME RiverInv, RenderedAsPlaced, [Next]_vars
      PROVE  RenderedAsPlaced'
  <2>1. CASE RenderStart
    BY <1>2, <2>1, RenderShowsAll
  <2>2. CASE ManageStart
    BY <2>2 DEF ManageStart, RenderedAsPlaced
  <2>3. CASE ManagePanics
    BY <2>3 DEF ManagePanics, RenderedAsPlaced
  <2>4. CASE UNCHANGED vars
    BY <1>2, <2>4 DEF vars, RenderedAsPlaced, Windows, hasBar
  <2>5. CASE Event
    BY <2>5 DEF Event, RenderedAsPlaced
  <2> QED BY <1>2, <2>1, <2>2, <2>3, <2>4, <2>5
          DEF Next, WindowAppears, WindowClosed, FullscreenRequested, PointerMoves,
              PointerEnters, WindowInteraction, LayerFocusChanges, CommandQueued,
              pointerPress, clientMoveRequest, clientResizeRequest, OpDelta, OpRelease
<1> QED BY <1>1, <1>2, RiverInvHolds, PTL DEF Spec

\* For any windows and events: a manage sequence does not move the focus to the window
\* under a pointer that rests or drags, unless a window came or went, a command ran or
\* something was clicked (river.go: syncModel).
THEOREM RestingPointerAlwaysKeepsFocus == Spec => RestingPointerKeepsFocus
<1>1. ASSUME RiverInv, [Next]_vars, turn = "events", turn' = "render",
             ~queued, seat.Interacted = None,
             \A w \in WindowID : ~win[w].New /\ ~win[w].Closed,
             ~travelled \/ seat.Op # NoOp
      PROVE  state'.focused = state.focused
  <2>1. ManageStart
    BY <1>1 DEF Next, vars, Event, WindowAppears, WindowClosed, FullscreenRequested,
                PointerMoves, PointerEnters, WindowInteraction, LayerFocusChanges,
                CommandQueued, pointerPress, clientMoveRequest, clientResizeRequest,
                OpDelta, OpRelease, ManagePanics, RenderStart
  <2>2. PICK m \in windowsSynced : \E n \in focusSynced(m) : state' \in drained(n)
    BY <2>1 DEF ManageStart
  <2>3. PICK n \in focusSynced(m) : state' \in drained(n)
    BY <2>2
  <2>4. m = state
    BY <1>1, <2>2 DEF windowsSynced
  <2>5. ~followsPointer(m)
    BY <1>1 DEF followsPointer, RiverInv, RestsWhereItWas
  <2>6. n \in FocusWindow(m, None)
    BY <1>1, <2>3, <2>5 DEF focusSynced
  <2>7. None \notin Windows(m)
    BY RiverAssumption DEF Windows
  <2> QED BY <1>1, <2>3, <2>4, <2>6, <2>7 DEF FocusWindow, drained
<1> QED BY <1>1, RiverInvHolds, PTL DEF Spec, RestingPointerKeepsFocus
=============================================================================
