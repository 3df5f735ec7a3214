------------------------------- MODULE MCIntc -------------------------------
(***************************************************************************)
(* One software interrupt (0) and two hardware ones, of which the reset    *)
(* loop reaches the first (1) and not the second (2).                      *)
(***************************************************************************)
EXTENDS Intc

psr(i, P, swtn, prin) == [op |-> "psr", data |-> [j \in {i} |-> [PRC_SELN |-> P, SWTN |-> swtn, PRIN |-> prin]]]
sscir(i, set, clr)    == [op |-> "sscir", data |-> [j \in {i} |-> [SET |-> set, CLR |-> clr]]]
cpr(p, prio)          == [op |-> "cpr", n |-> p, PRI |-> prio]
iackr(p)              == [op |-> "iackr", n |-> p]
eoir(p)               == [op |-> "eoir", n |-> p]
bcr(P)                == [op |-> "bcr", HVEN |-> P]
mprot(id, on)         == [op |-> "mprot", ID |-> id, MPROT |-> on]

\* Software vector mode: every way a source is enabled, moved in the tree,
\* disabled and triggered, and every priority change.  Master 1 may shut itself
\* out of the protected registers.
SoftwareRequests ==
  {psr(2, {0}, FALSE, 1), psr(2, {0}, TRUE, 2), psr(2, {}, FALSE, 2),
   [op |-> "psr", data |-> [j \in {0, 1} |-> [PRC_SELN |-> {0}, SWTN |-> FALSE, PRIN |-> 1]]],
   sscir(0, TRUE, FALSE), sscir(0, FALSE, TRUE),
   cpr(0, 1), iackr(0), eoir(0), mprot(2, TRUE)}

\* No acknowledge comes from a processor that sees no request.
SignalRequests ==
  {psr(0, {0}, FALSE, 1), psr(1, {0}, FALSE, 2), sscir(0, TRUE, FALSE), sscir(0, FALSE, TRUE),
   bcr({0}), cpr(0, 0), eoir(0)}
=============================================================================
