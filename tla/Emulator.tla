------------------------------- MODULE Emulator -------------------------------
(***************************************************************************)
(* One terminal's emulator as the program in the pane drives it, the       *)
(* snapshot and the textures that are drawn from it, and the keys and the  *)
(* mouse on their way to the program.                                      *)
(*                                                                         *)
(* scene picks the part a behaviour is about, so that the state space is   *)
(* the sum of the scenes and not their product: what the scenes hold apart *)
(* is apart in the code too.  spent counts a scene's steps from outside.   *)
(***************************************************************************)
EXTENDS Images, Modes, Parser, Shell, Keys, Mouse, Paste,
        PtyWrite, Embedded

CONSTANTS Scenes,   \* what a behaviour is about
          Grabbing, \* the sets of terminals whose programs may ask for the mouse at first
          Texts,    \* what strings carry
          Params,   \* what control sequences carry
          MaxSteps  \* bound, for each scene: what the program or the user sends

AllScenes == {"place", "animate", "modes", "bytes", "shell", "keys", "mouse", "paste",
              "write", "embed"}
ASSUME EmulatorAssumption == /\ Scenes \subseteq AllScenes
                             /\ MaxSteps \in [AllScenes -> Nat]

VARIABLES scene, images, modes, parser, shell, keys, mouse, paste, io, pane, spent
vars == <<scene, images, modes, parser, shell, keys, mouse, paste, io, pane, spent>>

Init == /\ scene \in Scenes
        /\ images = ImagesInit
        /\ modes = ModesInit
        /\ parser = [p |-> ParserInit, wire |-> <<>>, meant |-> <<>>]
        /\ shell = ShellInit
        /\ \E map \in KeyMaps :
              /\ scene # "keys" => map = CHOOSE any \in KeyMaps : TRUE
              /\ keys = KeysInit(map)
        /\ \E grabbing \in Grabbing :
              /\ scene # "mouse" => grabbing = CHOOSE any \in Grabbing : TRUE
              /\ mouse = MouseInit(grabbing)
        /\ paste = PasteInit /\ io = WriteInit /\ pane = EmbeddedInit
        /\ spent = 0

In(s) == scene = s /\ spent < MaxSteps[scene]
Spend == spent' = spent + 1 /\ UNCHANGED scene
Free == UNCHANGED <<scene, spent>>
\* The program sends something that makes a difference to the images.
Sends(new) == new # images /\ images' = new /\ Spend /\ UNCHANGED <<modes, parser, shell, keys, mouse, paste, io, pane>>
\* Nothing is sent: the clock, the render thread, a cursor that was moved.
Goes(new) == new # images /\ images' = new /\ Free /\ UNCHANGED <<modes, parser, shell, keys, mouse, paste, io, pane>>

-----------------------------------------------------------------------------
(* Images on the screen.                                                     *)

Ids == {0} \cup ImgIds
Corners == {<<1, 1>>, <<ImgRows, ImgCols>>}
MoveCursor == /\ scene = "place"
              /\ \E rc \in Corners : Goes([images EXCEPT !.y = rc[1], !.x = rc[2]])
SendImage ==
    /\ In("place")
    /\ \E a \in {"T", "t"}, id \in Ids, dim \in {1, 2}, pl \in {0, 1} :
          /\ a = "t" => dim = 2 /\ pl = 0
          /\ Sends(ProcessAPC(images, [Command(a) EXCEPT !.id = id, !.dim = dim, !.pl = pl], FALSE))
SendNumbered ==
    /\ In("place")
    /\ \E id \in {0, 1} :
          Sends(ProcessAPC(images, [Command("T") EXCEPT !.id = id, !.num = 7, !.C = 1], FALSE))
SendITerm == In("place") /\ Sends(ITermImage(images, 1, 2))
\* An upload in pieces; what comes next is taken for its last piece.
SendFirstChunk ==
    /\ In("place")
    /\ Sends(ProcessAPC(images, [Command("T") EXCEPT !.id = 2, !.more = 1], FALSE))
SendBroken ==
    /\ In("place")
    /\ \E a \in {"T", "f", "q"} :
          Sends(ProcessAPC(images, [Command(a) EXCEPT !.id = 1, !.data = "bad"], FALSE))
PutImage ==
    /\ In("place")
    /\ \E id \in Ids, pl \in {0, 2} :
          Sends(ProcessAPC(images, [Command("p") EXCEPT !.id = id, !.pl = pl, !.z = 1, !.c = 2, !.C = 1], FALSE))
DeleteImages ==
    /\ In("place")
    /\ \E free \in BOOLEAN, c \in
             [d : {"a", "c"}, id : {0}, pl : {0}, num : {0}, x : {0}, y : {0}, z : {0}]
             \cup [d : {"i"}, id : ImgIds, pl : {0, 1}, num : {0}, x : {0}, y : {0}, z : {0}]
             \cup [d : {"n"}, id : {0}, pl : {0}, num : {7}, x : {0}, y : {0}, z : {0}]
             \cup [d : {"p", "x", "y", "q"}, id : {0}, pl : {0}, num : {0}, x : {2}, y : {2}, z : {1}]
             \cup [d : {"r"}, id : {0}, pl : {0}, num : {0}, x : {1}, y : {1, 2}, z : {0}]
             \cup [d : {"z"}, id : {0}, pl : {0}, num : {0}, x : {0}, y : {0}, z : {1}] :
          Sends(ProcessAPC(images,
                  [Command("d") EXCEPT !.d = c.d, !.id = c.id, !.pl = c.pl, !.num = c.num,
                                       !.x = c.x, !.y = c.y, !.z = c.z], free))
Reset == In("place") /\ Sends(ResetImages(images))
Placing == \/ MoveCursor \/ SendImage \/ SendNumbered \/ SendITerm \/ SendFirstChunk
           \/ SendBroken \/ PutImage \/ DeleteImages \/ Reset

-----------------------------------------------------------------------------
(* Animation, while snapshots are published and drawn.                       *)

SendFilm ==
    /\ In("animate")
    /\ \E dim \in {1, 2} : Sends(ProcessAPC(images, [Command("T") EXCEPT !.id = 1, !.dim = dim, !.C = 1], FALSE))
SendFrame ==
    /\ In("animate")
    /\ \E r \in 0..2 : Sends(ProcessAPC(images, [Command("f") EXCEPT !.id = 1, !.r = r], FALSE))
ControlAnimation ==
    /\ In("animate")
    /\ \E s \in {1, 3}, v \in {0, 2, 3}, c \in {0, 2} :
          Sends(ProcessAPC(images, [Command("a") EXCEPT !.id = 1, !.s = s, !.v = v, !.c = c], FALSE))
ComposeFrames ==
    /\ In("animate")
    /\ \E r, c \in 1..2 : Sends(ProcessAPC(images, [Command("c") EXCEPT !.id = 1, !.r = r, !.c = c], FALSE))
DropFrames ==
    /\ In("animate")
    /\ \E d \in {"f", "i"} : Sends(ProcessAPC(images, [Command("d") EXCEPT !.id = 1, !.d = d], FALSE))
PublishSnapshot == scene = "animate" /\ Goes(Publish(images))
TickAnimations == scene = "animate" /\ \E gaps \in 1..2 : Goes(Tick(images, gaps))
DrawFrame == scene = "animate" /\ Goes(Draw(images))
Animating == \/ SendFilm \/ SendFrame \/ ControlAnimation \/ ComposeFrames \/ DropFrames
             \/ PublishSnapshot \/ TickAnimations \/ DrawFrame

-----------------------------------------------------------------------------
(* Modes, stacks and the two screens.                                        *)

Turns(new) == /\ In("modes") /\ new # modes /\ modes' = new
              /\ Spend /\ UNCHANGED <<images, parser, shell, keys, mouse, paste, io, pane>>
SetMode == \E m \in MouseModes \cup OtherModes, v \in BOOLEAN : Turns(SetPrivateMode(modes, m, v))
SwitchScreen == \/ Turns(EnterAlt(modes))
                \/ Turns(LeaveAlt(modes))
SaveModes == \E ms \in {{"paste", "sync"}, MouseModes} : Turns(SavePrivateModes(modes, ms))
RestoreModes == \E ms \in {{"paste", "sync"}, MouseModes} : Turns(RestorePrivateModes(modes, ms))
ResetModes == \/ Turns(SoftReset(modes))
              \/ Turns(FullReset(modes))
KeyboardFlags == \/ \E k \in {1, 2} : Turns(KittyPushFlags(modes, k))
                 \/ \E n \in 1..2 : Turns(KittyPopFlags(modes, n))
                 \/ \E k \in {1, 2}, how \in 1..3 : Turns(KittySetFlags(modes, k, how))
Pointer == \E op \in {"=", ">", "<"}, name \in {"", "help"} : Turns(PointerShape(modes, op, name))
Title == \/ \E x \in {"one", "two"} : Turns(SetTitle(modes, x))
         \/ Turns(PushTitle(modes))
         \/ Turns(PopTitle(modes))
Switching == \/ SetMode \/ SwitchScreen \/ SaveModes \/ RestoreModes \/ ResetModes
             \/ KeyboardFlags \/ Pointer \/ Title

-----------------------------------------------------------------------------
(* Bytes.  What was sent is read in pieces of any length.                    *)

Bytes == {"esc", "bel", "[", "]", "\\", "c", "(", "0", "h", "u1", "u2", "u3", "u", "x"}
ASSUME BytesAssumption ==
    /\ EscapeMax >= 2
    /\ Texts \subseteq Seq(Bytes \ {"bel", "esc"})
    /\ \A s \in Params : s \in Seq(Intermediates) /\ Len(s) + 2 <= EscapeMax
Item(bytes, k, of) == [bytes |-> bytes, means |-> <<[k |-> k, of |-> of]>>]
Nothing(bytes) == [bytes |-> bytes, means |-> <<>>]
Sequence(params) == Item(<<"esc", "[">> \o params \o <<"h">>, "csi", <<"[">> \o params \o <<"h">>)
String(text, end) == Item(<<"esc", "]">> \o text \o end, "string",
                          SubSeq(text, 1, Min({Len(text), StringMax})))
Items == {Item(<<"x">>, "print", <<"x">>), Item(<<"u2", "u">>, "print", <<"u2", "u">>),
          Item(<<"u3", "u", "u">>, "print", <<"u3", "u", "u">>),
          Item(<<"bel">>, "control", <<"bel">>),
          Item(<<"esc", "(", "0">>, "charset", <<"(", "0">>),
          Item(<<"esc", "c">>, "esc", <<"c">>), Nothing(<<"esc", "\\">>)}
         \cup {Sequence(s) : s \in Params}
         \cup {String(s, <<"bel">>) : s \in Texts} \cup {String(s, <<"esc", "\\">>) : s \in Texts}
\* Given up for what comes next, which begins with ESC, or for any character.
Broken == {Nothing(<<"esc">>), Nothing(<<"esc", "[", "0">>), Nothing(<<"esc", "(">>)}
CutShort == {Nothing(<<"u3", "u">>), Nothing(<<"u2">>)}
SendBytes ==
    /\ In("bytes") /\ parser.p = ParserInit
    /\ \E i \in Items, b \in Broken \cup CutShort \cup {Nothing(<<>>)} :
          /\ b \in Broken => Head(i.bytes) = "esc"
          /\ parser' = [parser EXCEPT !.wire = @ \o b.bytes \o i.bytes, !.meant = @ \o i.means]
    /\ Spend /\ UNCHANGED <<images, modes, shell, keys, mouse, paste, io, pane>>
ReadBytes ==
    /\ scene = "bytes"
    /\ \E n \in DOMAIN parser.wire :
          parser' = [parser EXCEPT !.p = ParseToActions(@, SubSeq(parser.wire, 1, n)),
                                   !.wire = SubSeq(@, n + 1, Len(@))]
    /\ Free /\ UNCHANGED <<images, modes, shell, keys, mouse, paste, io, pane>>

-----------------------------------------------------------------------------
(* Commands and notifications.  A batch of actions is applied, and the ring  *)
(* pruned, under the emulator's lock; the user acts between two batches.     *)

Says(new) == /\ In("shell") /\ new # shell /\ shell' = [new EXCEPT !.batch = TRUE]
             /\ Spend /\ UNCHANGED <<images, modes, parser, keys, mouse, paste, io, pane>>
User(new) == /\ scene = "shell" /\ ~shell.batch /\ new # shell /\ shell' = new
             /\ Free /\ UNCHANGED <<images, modes, parser, keys, mouse, paste, io, pane>>
MarkCommand == \E kind \in {"A", "N", "P", "B", "C", "D", "L"} : Says(Osc133(shell, kind))
ReportDirectory == shell.cwd = None /\ Says(Osc7(shell, 1))
PrintText == ~shell.alt /\ (\/ Says(Type(shell))
                           \/ Says(CursorHome(shell))
                           \/ Says(LineFeed(shell)))
ShellScreen == \/ Says(EnterAltScreen(shell))
               \/ Says(LeaveAltScreen(shell))
Notify == \E p \in {"title", "body", "buttons", "close"}, last \in BOOLEAN :
             Says(Osc99(shell, spent + 1, p, 1, 1, last))
EndBatch == /\ scene = "shell" /\ shell.batch /\ shell' = PruneCommandRing(shell)
            /\ Free /\ UNCHANGED <<images, modes, parser, keys, mouse, paste, io, pane>>
SelectByClick == ~shell.alt /\ \E i \in DOMAIN shell.ids :
                    User(SetSelectedCommand(shell, CommandForLineId(shell, shell.ids[i])))
Navigate == \E dir \in {-1, 1}, wrap \in BOOLEAN : User(ScrollToPrompt(shell, dir, wrap))
PressKey == User(ResetViewport(shell))
Shelling == \/ MarkCommand \/ ReportDirectory \/ PrintText \/ ShellScreen \/ Notify
            \/ EndBatch \/ SelectByClick \/ Navigate \/ PressKey

-----------------------------------------------------------------------------
(* Keys.                                                                     *)

Presses(new) == /\ In("keys") /\ new # keys /\ keys' = new
                /\ Spend /\ UNCHANGED <<images, modes, parser, shell, mouse, paste, io, pane>>
Follows(new) == /\ scene = "keys" /\ new # keys /\ keys' = new
                /\ Free /\ UNCHANGED <<images, modes, parser, shell, mouse, paste, io, pane>>
KeyDown == ~keys.char /\ \E key \in KeyKinds : Presses(OnKey(keys, key))
Character == keys.char /\ Follows(OnChar(keys))
SequenceTimeout == ~keys.char /\ keys.timer /\ Follows(OnSequenceTimeout(keys))
ProtocolSwitched == \E flags \in KittyFlags : Presses(SwitchProtocol(keys, flags))
EscapeHasUse == /\ ~keys.char /\ keys.n = 0
                /\ \/ Follows([keys EXCEPT !.selected = TRUE])
                   \/ Follows([keys EXCEPT !.embedded = TRUE])
SettingsReloaded == ~keys.char /\ \E map \in KeyMaps : Presses(ReloadKeys(keys, map))
Typing == \/ KeyDown \/ Character \/ SequenceTimeout
          \/ ProtocolSwitched \/ EscapeHasUse \/ SettingsReloaded

-----------------------------------------------------------------------------
(* The mouse.                                                                *)

Clicks(new) == /\ In("mouse") /\ new # mouse /\ mouse' = new
               /\ Spend /\ UNCHANGED <<images, modes, parser, shell, keys, paste, io, pane>>
Moves(new) == /\ scene = "mouse" /\ new # mouse /\ mouse' = new
              /\ Free /\ UNCHANGED <<images, modes, parser, shell, keys, paste, io, pane>>
Mods == {"", "shift", "alt", "ctrl"}
ButtonDown == \E btn \in Buttons \ mouse.held, mods \in Mods, quick, chance \in BOOLEAN :
                 Clicks(OnMouseButton(mouse, btn, FALSE, mods, quick, chance))
ButtonUp == \E btn \in mouse.held, mods \in {"", "ctrl"}, chance \in BOOLEAN :
               Moves(OnMouseButton(mouse, btn, TRUE, mods, FALSE, chance))
PointerMoves == \E at \in Places, room \in BOOLEAN : Moves(OnCursorPos(mouse, at, "", room))
AutoScroll == mouse.auto # 0 /\ \E room \in BOOLEAN : Moves(DoAutoScroll(mouse, room))
MouseAsked == \E x \in Terms : (x = "popup" => mouse.popup) /\ Clicks(AskForMouse(mouse, x))
Around == \/ mouse.popup /\ Clicks(SwitchAlt(mouse))
          \/ \E x \in Panes : Clicks(FocusByKey(mouse, x))
Pointing == ButtonDown \/ ButtonUp \/ PointerMoves \/ AutoScroll \/ MouseAsked \/ Around

-----------------------------------------------------------------------------
(* Pasting.                                                                  *)

Wants(new) == /\ In("paste") /\ new # paste /\ paste' = new
              /\ Spend /\ UNCHANGED <<images, modes, parser, shell, keys, mouse, io, pane>>
Comes(new) == /\ scene = "paste" /\ new # paste /\ paste' = new
              /\ Free /\ UNCHANGED <<images, modes, parser, shell, keys, mouse, io, pane>>
MiddleClick == Wants(PasteSelection(paste))
PasteNow == \E s \in PasteSources : Wants(GetClipboard(paste, s))
CopyNow == \E s \in PasteSources : Wants(SetClipboard(paste, s))
OwnerChanges == \E s \in PasteSources : Wants(LoseSelection(paste, s))
OwnerActs == \E i \in DOMAIN paste.asked, ok \in BOOLEAN : Comes(OwnerAnswers(paste, i, ok))
AnswerRead == paste.events # <<>> /\ Comes(SelectionNotify(paste))
DeadlinePasses == paste.timer /\ \E late \in DOMAIN paste.pending : Comes(Sweep(paste, late))
Pasting == \/ MiddleClick \/ PasteNow \/ CopyNow \/ OwnerChanges
           \/ OwnerActs \/ AnswerRead \/ DeadlinePasses

-----------------------------------------------------------------------------
(* Writing to the program.                                                   *)

Writes(new) == /\ scene = "write" /\ new # io /\ io' = new
               /\ UNCHANGED <<images, modes, parser, shell, keys, mouse, paste, pane>>
Unbusy(t) == io.open /\ io.wants[t] = 0 /\ t \notin io.fails
WriteToPTY == \E t \in Writers, len \in 1..2 :
                 In("write") /\ Unbusy(t) /\ Writes(BeginWrite(io, t, len)) /\ Spend
WriteUnderLock == \E t \in Writers : io.wants[t] > 0 /\ Free
                     /\ \E n \in Takes(io, t) : Writes(WriteLocked(io, t, n))
Writable == Unbusy("main") /\ io.polled /\ Free
            /\ \E n \in DOMAIN io.queue : Writes(FlushWriteQueue(io, n))
ReportFailure == \E t \in io.fails : Writes(ReportExit(io, t)) /\ Free
HangUp == ~io.hungUp /\ Writes([io EXCEPT !.hungUp = TRUE]) /\ Free
ReaderSeesEnd == io.open /\ io.hungUp /\ Writes(ExitSeen(io)) /\ Free
RunPosted == Unbusy("main") /\ io.posted /\ Writes(UnwatchPosted(io)) /\ Free
\* By the Graveyard, when the parser is done with it.
DestroyTerminal == (\A t \in Writers : Unbusy(t)) /\ ~io.posted /\ Writes(CloseMaster(io)) /\ Free
WriteProceeds == WriteUnderLock \/ Writable \/ ReportFailure
Writing == WriteToPTY \/ WriteProceeds \/ HangUp \/ ReaderSeesEnd \/ RunPosted \/ DestroyTerminal

-----------------------------------------------------------------------------
(* Embedded terminals.                                                       *)

Hosts(new) == /\ scene = "embed" /\ new # pane /\ pane' = new
              /\ UNCHANGED <<images, modes, parser, shell, keys, mouse, paste, io>>
Event == pane.pc = "events" /\ ~pane.gone /\ In("embed") /\ Spend
NewLines == At(pane, "none")
CreateEmbeddedTerminal == Event /\ NewLines # {} /\ Hosts(AttachEmbedded(pane, Min(NewLines)))
EvictOldestLine == /\ ~pane.gone /\ At(pane, "map") # {} /\ Free
                   /\ Hosts(OnLineIdEvicted(pane, Min(At(pane, "map"))))
ResetParent == ~pane.gone /\ At(pane, "map") # {} /\ Hosts(OnFullReset(pane)) /\ Free
ClickOn == \E k \in At(pane, "map") : Event /\ Hosts(HitTest(pane, k))
ClickFocuses == pane.pc = "click" /\ Hosts(FocusHit(pane)) /\ Free
ResizePane == Event /\ Hosts(LookUp(pane, At(pane, "map")))
FinishHandler == pane.pc = "uses" /\ Hosts(UseHeld(pane)) /\ Free
\* By a script: from an event, or from a listener a resize of another runs.
ScriptCloses == /\ pane.pc \in {"events", "uses"} /\ ~pane.gone /\ In("embed") /\ Spend
                /\ \E k \in pane.listens : pane.told[k] = 0 /\ Hosts(CloseEmbedded(pane, k))
ScriptUnloads == /\ pane.pc = "events" /\ ~pane.gone /\ Free
                 /\ \E k \in pane.listens : Hosts(UnloadOwner(pane, k))
\* By its script, or because its program exited, between two steps of the tick.
ClosePane == /\ pane.pc = "events" \/ (pane.pc = "drain" /\ pane.batch = {})
             /\ ~pane.gone /\ In("embed") /\ Spend /\ Hosts(ClosePaneWith(pane))
DrainEmbeddeds == /\ Free
                  /\ \/ pane.pc = "events" /\ Hosts(DrainEvicted(pane))
                     \/ pane.pc = "drain" /\ \E k \in pane.batch : Hosts(BuryDrained(pane, k))
RebuildShadow == pane.pc = "drain" /\ pane.batch = {} /\ Hosts(Rebuild(pane)) /\ Free
Sweeping == pane.pc = "sweep" /\ Hosts(SweepGraves(pane)) /\ Free
FrameStarts == In("embed") /\ ~pane.drawing /\ Hosts(CopyState(pane)) /\ Spend
FrameEnds == pane.drawing /\ Hosts(CompleteFrame(pane)) /\ Free
Embedding == \/ CreateEmbeddedTerminal \/ EvictOldestLine \/ ResetParent \/ ClickOn \/ ClickFocuses
             \/ ResizePane \/ FinishHandler \/ ScriptCloses \/ ScriptUnloads \/ ClosePane
             \/ DrainEmbeddeds \/ RebuildShadow \/ Sweeping
             \/ FrameStarts \/ FrameEnds

-----------------------------------------------------------------------------
Next == \/ Placing \/ Animating \/ Switching \/ SendBytes \/ ReadBytes \/ Shelling \/ Typing
        \/ Pointing \/ Pasting \/ Writing \/ Embedding
\* The timers of the animations and of the requests keep running, the threads do
\* not stop in the middle of a write, and the program reads what it is sent.  (Each
\* in its scene, so that one condition states the three.)
Clockwork == TickAnimations \/ DeadlinePasses \/ WriteProceeds
Fairness == WF_vars(Clockwork)
Spec == Init /\ [][Next]_vars /\ Fairness

-----------------------------------------------------------------------------
(* Properties.                                                               *)

\* The current frame of an image exists, whatever was deleted, resent or
\* stepped: the renderer indexes the textures of the frames with it.  And a
\* texture slot whose version is the snapshot's shows the snapshot's pixels:
\* for an id sent once, every edit that replaces a frame's pixels is noticed.
FrameExists == \A id \in DOMAIN images.reg : images.reg[id].cur < Total(images.reg[id])
DrawnIsSent ==
    \A id \in DOMAIN images.view \cap DOMAIN images.gpu :
        LET v == images.view[id].v
            slots == images.gpu[id].slots
        IN (v.once /\ v.tok \notin images.gone /\ v.cur < Len(slots))
           => \/ slots[v.cur + 1].tok \in {0, v.tok}
              \/ slots[v.cur + 1].version # v.gen
FrameShown == FrameExists /\ DrawnIsSent

\* And an image that still has cells on the screen keeps its data, as long as each
\* of its cells belongs to a placement it knows: dropping the images that were
\* covered, or one placement of several, does not blank what is still shown.
Placed(g, id) == \A key \in CellsOf(g, id) : key.pl \in DOMAIN g.reg[id].pls
ShownImagesStay ==
    \A id \in DOMAIN images.reg :
        (Placed(images, id) /\ Shows(images', id)) => id \in DOMAIN images'.reg

\* Every step shows what it should: the frames it leaves behind are as above, and
\* no image is dropped that is still to be seen.
ImagesShown == [][FrameShown' /\ ShownImagesStay]_vars

\* What other threads read without the lock agrees with the screen that is
\* shown: whether pasted text is bracketed, whether a click is for the program,
\* the pointer's shape, the title.
MirrorsTrue ==
    /\ modes.paste = ("paste" \in Active(modes))
    /\ modes.mouse = (Active(modes) \cap MouseModes # {})
    /\ modes.pointer = TopOr(modes.shapes[modes.screen], "")
    /\ modes.title = IF modes.titles = <<>> THEN NoTitle ELSE <<Last(modes.titles)>>
\* And a program on one screen leaves the modes, the keyboard flags and the pointer
\* shapes of the other as they are, unless it resets the terminal.
OtherScreenKept ==
    \A s \in Screens \ {modes.screen} :
        (modes'.screen = modes.screen /\ ~ResetModes) =>
           /\ modes'.on[s] = modes.on[s] /\ modes'.kitty[s] = modes.kitty[s]
           /\ modes'.shapes[s] = modes.shapes[s]

\* Whatever the order of switches, saves, lists and resets: each step leaves true
\* copies and the other screen alone.
ModesTrue == [][MirrorsTrue' /\ OtherScreenKept]_vars

\* However the bytes are cut into reads, what was sent whole arrives as it was
\* sent, once and in order, and a sequence or a character that was given up
\* for the next takes nothing of it away.
ParsedAsSent == parser.wire = <<>> => parser.p.out = parser.meant

\* Only the last command can be running, and each that has ended was reported
\* once, when it did.
OnlyLastOpen ==
    /\ \A i \in DOMAIN shell.ring :
          /\ (i < Len(shell.ring)) => shell.ring[i].done
          /\ shell.ring[i].done <=> Contains(shell.done, shell.ring[i].id)
    /\ \A i, j \in DOMAIN shell.done : i < j => shell.done[i] < shell.done[j]

\* The selected command is one of the ring, however much has scrolled away; and
\* as long as the cursor was not moved up between the commands' marks, it is
\* outlined on rows that are there.  A notification shows nothing that was sent
\* for the one before.
InOrder(c) ==
    LET here == LineIdForAbs(c, AbsoluteRowFromScreen(c))
        end(r) == IF r.done THEN r.end ELSE here
    IN /\ \A i \in DOMAIN c.ring : c.ring[i].prompt <= end(c.ring[i])
       /\ \A i \in 2..Len(c.ring) : c.ring[i - 1].prompt <= c.ring[i].prompt
CommandsTrue ==
    /\ OnlyLastOpen
    /\ ~shell.carried
    /\ (~shell.batch /\ shell.sel # None) =>
       /\ shell.sel \in Cmds(shell)
       /\ (InOrder(shell) /\ ~shell.alt) =>
             LET region == SelectedRegion(shell)
             IN 0 <= region[1] /\ region[1] <= region[2] /\ region[2] < Len(shell.ids)
\* Each press is answered, and nothing is answered or typed twice: what the press
\* itself gave is sent, taken by a binding or Escape's use, without a sequence of
\* its own, or still held back, and only one of these, whatever was begun, broken,
\* timed out or reloaded.  Both the press and its character reach the program
\* exactly for a plain key that a binding took, or that the kitty protocol sent,
\* and whose character came in the legacy one; neither does exactly for a plain key
\* that was left to its character when the protocol was switched on.  But for the
\* second copy, all is sent in the order it was pressed, and what is held back is
\* going to be; only what a reload found held back may come late or wait.
KeysOnce ==
    LET sent == keys.sent
        typed == {sent[p].i : p \in {q \in DOMAIN sent : sent[q].by = "char"}}
        pressed == {sent[p].i : p \in {q \in DOMAIN sent : sent[q].by = "press"}}
        held == Held(keys)
        served == pressed \cup keys.eaten \cup keys.mute \cup held
        Copy(x) == x.by = "char" /\ x.i \in keys.twice
    IN ~keys.char =>
       /\ IsInjective(sent)
       /\ pressed \cap (keys.eaten \cup keys.mute \cup held) = {}
       /\ keys.eaten \cap (keys.mute \cup held) = {} /\ keys.mute \cap held = {}
       /\ typed \cap served = keys.twice
       /\ typed \cup served = (1..keys.n) \ keys.lost
       /\ \A p, q \in DOMAIN sent :
             (p < q /\ ~Copy(sent[p]) /\ sent[q].i \notin keys.late) => sent[p].i <= sent[q].i
       /\ \A p \in DOMAIN sent, j \in held \ keys.late : Copy(sent[p]) \/ sent[p].i < j
       /\ (held \ keys.late # {}) => keys.timer

\* Bindings as one has them: a plain stroke takes nothing from a program that asks
\* for the mouse and does not go on with an old selection, and a button that goes
\* up begins none.
Usual(b) ==
    /\ (b.mods = "" /\ (b.region \in {"pane", "any"} \/ b.event = "drag"))
          => b.mode = "ungrabbed" /\ b.does # "extend"
    /\ b.event \in {"click", "release"} => b.does \notin {"normal", "rectangle"}
UsualBindings == \A i \in DOMAIN UserMouse : Usual(UserMouse[i])

\* A drag does not outlive its button, nor the scrolling its drag.  And a button
\* that goes down and up over the same surface leaves no program believing it is
\* still down, and no selection that the next move would extend.
MouseTrue ==
    /\ (mouse.drag # "none") => mouse.held # {}
    /\ (mouse.auto # 0) => mouse.drag # "none"
    /\ (mouse.gesture.calm /\ mouse.held = {}) =>
          LET t == mouse.t[mouse.gesture.to]
          IN t.down = Nobody /\ mouse.gesture.btn \notin t.told /\ ~t.pend /\ t.sel # "active"

\* Each paste is answered once, with a text or without: whether the owners of the
\* selections answer, refuse, answer late or never, and whoever reads an answer
\* that was meant for another.
PasteOnce ==
    \A job \in DOMAIN paste.done :
       paste.done[job] + Cardinality({i \in DOMAIN paste.pending : paste.pending[i].job = job}) = 1

Sent == [i \in 1..(io.next - 1) |-> i]
Dropping == io.exited \/ io.fails # {}
Waits == io.queue # <<>> /\ ~io.exited /\ io.open
\* The program gets what was written, all of it, once and in the order the lock
\* was taken, up to where it hung up: nothing overtakes what the kernel had no
\* room for, and that waits behind a watched descriptor, which is not watched
\* any more when it is closed.  The end is reported once, by whichever thread.
WritesArrive ==
    /\ IsPrefix(io.got, Sent)
    /\ Dropping \/ io.got \o io.queue = Sent
    /\ Waits => io.polled
    /\ ~io.open => ~io.polled
    /\ io.told <= 1

\* An embedded terminal that a frame or a handler still uses is not freed, however
\* it came to its end: its line's, a reset, its script's or its pane's.  And a
\* script that listens for its end hears of it once.
EmbeddedSafe ==
    /\ At(pane, "freed") \cap (pane.shadow \cup pane.frame \cup pane.held) = {}
    /\ \A k \in Embeds :
          /\ pane.told[k] <= 1
          /\ (pane.place[k] \in {"grave", "freed"} /\ k \in pane.listens /\ ~pane.gone)
                => pane.told[k] = 1

LoopsLeft == 1 \in DOMAIN images.reg /\ HasAnimation(images.reg[1]) /\ images.reg[1].max > 0
Begun == LoopsLeft \/ paste.pending # <<>> \/ Waits
\* What was begun ends.  An animation with a number of loops comes to its end, or
\* is stopped, edited down to one frame or deleted; no paste waits for ever, though
\* nobody answer; and what the kernel had no room for is written, unless the
\* program hangs up or the terminal is closed.
WorkEnds == Begun ~> ~Begun
=============================================================================
