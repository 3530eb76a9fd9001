-------------------------- MODULE MCCyclicExchange --------------------------
(* Device tables of one or two modules.                                    *)
EXTENDS CyclicExchange

CONSTANTS off, on, c1

Module(kind) == [kind |-> kind, listed |-> TRUE, fits |-> TRUE]
Unlisted(kind) == [Module(kind) EXCEPT !.listed = FALSE]
Misfit(kind) == [Module(kind) EXCEPT !.fits = FALSE]

SmallTables ==
    {<<Module("dio")>>, <<Module("mio")>>, <<Unlisted("mio"), Module("aio")>>,
     <<Misfit("dio")>>, <<Module("ro")>>}
=============================================================================
