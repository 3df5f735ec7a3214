------------------------------- MODULE MCSwt -------------------------------
(***************************************************************************)
(* Two masters, of which the control register may shut one out.  The codes *)
(* are few, and the service key comes across the fixed ones.               *)
(***************************************************************************)
EXTENDS Swt

Off == [MAP |-> Masters, SMD |-> "fixed", RIA |-> FALSE, WND |-> FALSE, ITR |-> FALSE,
        HLK |-> FALSE, SLK |-> FALSE, STP |-> FALSE, FRZ |-> TRUE, WEN |-> FALSE]
OnLocked  == [Off EXCEPT !.RIA = TRUE, !.SLK = TRUE, !.FRZ = FALSE, !.WEN = TRUE]
OnWindow  == [Off EXCEPT !.MAP = {1}, !.WND = TRUE, !.RIA = TRUE, !.HLK = TRUE, !.WEN = TRUE]
OnKeyed   == [Off EXCEPT !.SMD = "keyed", !.ITR = TRUE, !.STP = TRUE, !.WEN = TRUE]

MCUnlockKeys == <<1, 2>>
MCFixedKeys  == <<0, 3>>

cr(id, CR) == [op |-> "cr", id |-> id, CR |-> CR]
sr(id, c)  == [op |-> "sr", id |-> id, WSC |-> c]

MCRequests ==
  {cr(1, Off), cr(1, OnWindow), cr(1, OnKeyed), sr(1, 0), sr(1, 1), sr(1, 2), sr(1, 3),
   [op |-> "ir", id |-> 1, TIF |-> TRUE], [op |-> "to", id |-> 1, WTO |-> 3], [op |-> "wn", id |-> 1, WST |-> 2],
   [op |-> "sk", id |-> 1, SK |-> 1], [op |-> "read", id |-> 2], [op |-> "unmapped", id |-> 2]}
=============================================================================
