--------------------------- MODULE MCX11Clipboard ---------------------------
(* Two applications that stay and that answer in the order they are asked. *)
EXTENDS X11Clipboard

InOrderNext ==
  \/ \E c \in Copies : Copy(c) \/ NextIncrement(c)
  \/ asks # <<>> /\ Answer(1)
  \/ ownerChanged \/ selectionNotify \/ propertyNotify

InOrderSpec == Init /\ [][InOrderNext]_vars
=============================================================================
