------------------------------ MODULE Desktops -------------------------------
(***************************************************************************)
(* What the backends make of the desktops: windows and where they are, the *)
(* threads that own them, clipboards, cursors and icons.  The machines     *)
(* take turns at the same sixteen variables; each INSTANCE says which is   *)
(* which.                                                                  *)
(***************************************************************************)
EXTENDS Naturals, Sequences

CONSTANTS
  Backends, Positions, WindowSizes, FullScreen, NoRect, MaxInputs, Windows,
  NoWindow, MaxSize, Failures, MaxConfigures, MaxMoves, MaxWire, NoImage,
  Theme, MaxImages, MaxEnters, LocalCopies, Refusing, Large, Us, Nobody,
  MaxOwn, LongTexts, Requestors, MaxTexts, MaxAsks, NoSelection,
  Ours, Absent, MaxChanges, Client, Others, Capacity, MaxJobs, MaxHandles,
  MaxRestarts

VARIABLES s1, s2, s3, s4, s5, s6, s7, s8, s9, s10, s11, s12, s13, s14, s15, s16

Geometry ==
  INSTANCE Geometry WITH
    Sizes <- WindowSizes, Full <- FullScreen,
    backend <- s1, known <- s2, told <- s3, posted <- s4, rect <- s5,
    normal <- s6, zoomed <- s7, iconic <- s8, pending <- s9, events <- s10,
    broken <- s11, placed <- s12, inputs <- s13

Wayland ==
  INSTANCE WaylandWindow WITH
    win <- s1, last <- s2, at <- s3, proxies <- s4, wire <- s5, reports <- s6,
    surface <- s7, seat <- s8, refused <- s9, owed <- s10, configures <- s11,
    moves <- s12

Cursor ==
  INSTANCE WaylandCursor WITH
    serial <- s1, shown <- s2, owned <- s3, alive <- s4, missing <- s5,
    inside <- s6, image <- s7, enters <- s8, calls <- s9, entered <- s10,
    gone <- s11

X11 ==
  INSTANCE X11Clipboard WITH
    Copies <- LocalCopies,
    owner <- s1, unused <- s2, asks <- s3, property <- s4, increment <- s5,
    events <- s6, requested <- s7, receiving <- s8, receiveData <- s9,
    reports <- s10, own <- s11, overtaken <- s12

Pastes ==
  INSTANCE X11Transfers WITH
    Large <- LongTexts, text <- s1, transfers <- s2, property <- s3,
    events <- s4, state <- s5, got <- s6, since <- s7, asks <- s8

Offers ==
  INSTANCE WaylandClipboard WITH
    Copies <- LocalCopies \ Refusing, None <- NoSelection, serial <- s1, pending <- s2, source <- s3,
    alive <- s4, reads <- s5, wire <- s6, selection <- s7, unused <- s8,
    texts <- s9, copied <- s10, reports <- s11, overtaken <- s12

Sequence ==
  INSTANCE SequenceClipboard WITH
    backend <- s1, sequence <- s2, contents <- s3, own <- s4, seen <- s5,
    updates <- s6, reports <- s7

Thread ==
  INSTANCE WindowThread WITH
    backend <- s1, pc <- s2, job <- s3, waits <- s4, made <- s5, queue <- s6,
    messages <- s7, done <- s8, once <- s9, thread <- s10, failed <- s11,
    ran <- s12

Tray ==
  INSTANCE Win32Tray WITH
    thread <- s1, tray <- s2, trayAdded <- s3, trayIcon <- s4,
    trayIconOwned <- s5, cursor <- s6, cursorOwned <- s7, shown <- s8,
    announced <- s9, owned <- s10, handles <- s11, restarts <- s12
=============================================================================
