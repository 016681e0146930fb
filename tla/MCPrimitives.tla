---------------------------- MODULE MCPrimitives ----------------------------
(***************************************************************************)
(* What lies below the protocol, in one run: the interleaved AES-GCM of    *)
(* lib/fusion.c (Fusion), HMAC and HKDF (Kdf), PEM files (Pem), buffers    *)
(* (Buffers) and the memory the crypto backends own (Ownership).  A        *)
(* behaviour is one of the five; the others stay initial.                  *)
(***************************************************************************)
EXTENDS Fusion, Kdf, Pem, Buffers, Ownership

VARIABLE which   \* the component that moves, fixed

\* Pieces of one or two bytes before, in and behind the output, and an empty one.
MCPlaces == {[base |-> b, len |-> n] : b \in 0 .. 4, n \in 1 .. 2} \cup {[base |-> 0, len |-> 0]}

\* Two different updates of a bare HMAC context.
MCHmacPieces == {<<"x">>, <<"y">>}

\* Contents of every length modulo 3.
MCDatas == {<<>>, <<0>>, <<255, 1>>, <<90, 255, 7>>, <<1, 2, 3, 4, 254>>}

MCBackends ==
    {"x9_62", "evp", "boring", "kem", "mlkem", "uecc", "cifra", "mbedtls", "evp_aead", "chacha",
     "psa", "hmac", "certificates"}

-----------------------------------------------------------------------------
OwnershipRests == backend = (CHOOSE b \in Backends : TRUE) /\ OwnershipInit
BuffersRest == bbuf = [capacity |-> 0, data |-> <<>>, wild |-> FALSE] /\ BuffersInit

PrimitivesInit ==
    /\ which \in {"fusion", "kdf", "pem", "buffers", "ownership"}
    /\ FusionInit /\ KdfInit /\ PemInit
    /\ IF which = "buffers" THEN BuffersInit ELSE BuffersRest
    /\ IF which = "ownership" THEN OwnershipInit ELSE OwnershipRests

PrimitivesNext ==
    \/ which = "fusion" /\ FusionNext /\ UNCHANGED <<which, kdfVars, pvars, bufvars, kvars>>
    \/ which = "kdf" /\ KdfNext /\ UNCHANGED <<which, fvars, pvars, bufvars, kvars>>
    \/ which = "pem" /\ PemNext /\ UNCHANGED <<which, fvars, kdfVars, bufvars, kvars>>
    \/ which = "buffers" /\ BuffersNext /\ UNCHANGED <<which, fvars, kdfVars, pvars, kvars>>
    \/ which = "ownership" /\ OwnershipNext /\ UNCHANGED <<which, fvars, kdfVars, pvars, bufvars>>

PrimitivesSpec ==
    PrimitivesInit /\ [][PrimitivesNext]_<<which, fvars, kdfVars, pvars, bufvars, kvars>>
=============================================================================
