------------------------------- MODULE MCStm -------------------------------
(***************************************************************************)
(* Two channels of a counter that rolls over after four ticks.             *)
(***************************************************************************)
EXTENDS Stm

cr(cps, frz, ten) == [op |-> "cr", CPS |-> cps, FRZ |-> frz, TEN |-> ten]
cnt(v)            == [op |-> "cnt", CNT |-> v]
ccr(n, on)        == [op |-> "ccr", n |-> n, CEN |-> on]
cir(n, clear)     == [op |-> "cir", n |-> n, CIF |-> clear]
cmp(n, v)         == [op |-> "cmp", n |-> n, CMP |-> v]
read              == [op |-> "read"]

MCRequests ==
  {cr(0, FALSE, FALSE), cr(1, TRUE, TRUE), cr(1, FALSE, TRUE), cnt(3), ccr(1, TRUE), ccr(2, TRUE), ccr(1, FALSE),
   cir(1, TRUE), cir(1, FALSE), cmp(1, 2), cmp(2, 1), read}
=============================================================================
