---------------------------- MODULE MCForeignEcc ----------------------------
(***************************************************************************)
(* Points of y^2 = x^3 + 3 over the integers modulo 7, a group of order    *)
(* 13, with windows of 2 bits and digits of 1: scalars of up to 2 bits are *)
(* small ones and those of 4 bits are split in halves.                     *)
(***************************************************************************)
EXTENDS ForeignEcc

MCGenerator == <<1, 2>>

\* Identities have these coordinates; the second are those of a point, too.
MCIdCoordinates == {<<0, 0>>, <<3, 3>>}
MCScalars == [one |-> 1, bit |-> 0, s |-> 3, t |-> 2, w |-> 11]

\* One scalar that is split; bases in common, scalars in common, both, and bits.
MCMsmCalls ==
    LET Term(base, scalar, bound) == [base |-> base, scalar |-> scalar, bound |-> bound]
    IN  {<<Term(1, "w", 4)>>,
         <<Term(1, "w", 4), Term(1, "s", 4), Term(2, "bit", 1)>>,
         <<Term(1, "s", 2), Term(2, "s", 2)>>,
         <<Term(1, "s", 2), Term(1, "t", 2), Term(2, "one", 4)>>}

EccSpec == EccInit /\ [][EccNext]_eccVars
=============================================================================
