----------------------------- MODULE MCInterfaces -----------------------------
(***************************************************************************)
(* The ways in which an application drives the library, in one run: the    *)
(* raw messages of QUIC (Raw), signatures computed elsewhere (Signing) and *)
(* the event loop of the command line tool (Cli).  A behaviour is one of   *)
(* the three; the other two stay in one initial state.                     *)
(***************************************************************************)
EXTENDS Raw, Signing, Cli

VARIABLE which   \* the component that moves, fixed

\* Every setup two honest ends can have.
MCRawSetups ==
    {c \in RawSetup : /\ c.accept => c.early /\ c.psk /\ ~c.retry
                      /\ c.psk => ~c.auth /\ ~c.async
                      /\ c.clientCert => c.auth}

\* Both ends, every kind of signer, verifiers that take none, some and all of
\* the schemes, with and without compression and a stapled response.
MCSignSetups ==
    {[server |-> v, signer |-> g, schemes |-> <<"ec", "rsa">>, algos |-> a, compressed |-> TRUE,
      peerBrotli |-> b, ocsp |-> TRUE, status |-> b] :
        v \in BOOLEAN, g \in {"none", "sync", "async"},
        a \in {<<>>, <<"other">>, <<"rsa", "ec">>}, b \in BOOLEAN}

MCCliScenarios ==
    [maxEarly : {0, 2}, accept : BOOLEAN, retry : BOOLEAN, keepOpen : BOOLEAN, whole : BOOLEAN]

-----------------------------------------------------------------------------
RawRests == rsetup = (CHOOSE c \in RawSetups : TRUE) /\ RawInit
SignRests ==
    /\ setup = [c \in SignConns |-> CHOOSE s \in SignSetups : TRUE]
    /\ trailing = [c \in SignConns |-> 0]
    /\ SignInit
CliRests == scen = (CHOOSE s \in CliScenarios : TRUE) /\ CliInit

InterfacesInit ==
    \/ which = "raw" /\ SignRests /\ CliRests /\ RawInit
    \/ which = "signing" /\ RawRests /\ CliRests /\ SignInit
    \/ which = "cli" /\ RawRests /\ SignRests /\ CliInit

InterfacesNext ==
    \/ which = "raw" /\ RawNext /\ UNCHANGED <<which, svars, clivars>>
    \/ which = "signing" /\ SignNext /\ UNCHANGED <<which, rvars, clivars>>
    \/ which = "cli" /\ CliNext /\ UNCHANGED <<which, rvars, svars>>

InterfacesSpec ==
    /\ InterfacesInit
    /\ [][InterfacesNext]_<<which, rvars, svars, clivars>>
    /\ SignFairness
=============================================================================
