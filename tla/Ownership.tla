------------------------------ MODULE Ownership -------------------------------
(***************************************************************************)
(* Who owns what in the crypto glue: the scripts of KeyExCode and          *)
(* CryptoCode run one statement at a time, each acquisition and each Try   *)
(* fails or succeeds, and the callers in lib/picotls.c, lib/hpke.c and     *)
(* t/util.h call them in any order they can.                               *)
(*                                                                         *)
(* An object is called after the pointer that first held it and heap       *)
(* counts the references to it: a double free is a negative count, a leak  *)
(* a positive one nobody can reach.  "c.x" is field x of the object that c *)
(* points to.                                                              *)
(***************************************************************************)
EXTENDS Integers, FiniteSets, KeyExCode, CryptoCode

CONSTANTS Backends,     \* the implementations a behaviour may use
          NULL          \* the null pointer

Functions == [f \in DOMAIN KeyExFunctions \cup DOMAIN CryptoFunctions |->
    IF f \in DOMAIN KeyExFunctions THEN KeyExFunctions[f] ELSE CryptoFunctions[f]]

Owner == [p \in {"c.pub", "c.key", "c.bn", "x.evp", "x.key", "x.hash", "y.evp", "chain.interm", "list.0", "list.1"} |->
    CASE p \in {"c.pub", "c.key", "c.bn"} -> "c" [] p \in {"x.evp", "x.key", "x.hash"} -> "x"
      [] p = "y.evp" -> "y" [] p = "chain.interm" -> "chain" [] OTHER -> "list"]
Pointers == DOMAIN Owner \cup {"app", "app.ec", "slot", "secret", "pubkey", "aead", "c", "point", "key", "vec",
    "sec", "pub", "group", "bn", "peer", "evpctx", "pkey", "eckey", "labeled", "kem_context", "kbuf",
    "x", "y", "verify", "self", "chain", "cert", "interm", "x509key", "expected", "md", "store_ctx", "store", "list", "certs"}
Outputs == {"secret", "pubkey"}
Held == Outputs \cup {"aead", "store", "certs"}      \* what the caller frees itself

VARIABLES backend,   \* the implementation of this behaviour
          frames,    \* the calls in progress, innermost last
          kptr,      \* what each pointer holds: an object or NULL
          heap,      \* references to each object
          stray,     \* the objects some statement used when they were gone
          kout,      \* the outcome of the last call: "none", "good" or "bad"
          droppedTwice   \* history: a failed import dropped one reference to the application's EC_KEY twice

kvars == << backend, frames, kptr, heap, stray, kout, droppedTwice >>

Function(f) ==
    IF f \in DOMAIN Functions THEN Functions[f]
    ELSE IF backend \in DOMAIN Algorithms THEN Algorithms[backend][f] ELSE Contexts[backend][f]
Frame(f, release, wants) == [f |-> f, part |-> "body", i |-> 1, bad |-> FALSE, release |-> release, wants |-> wants]
Top == frames[Len(frames)]
Ptrs(f) == [p \in Pointers |-> IF p \in Function(f).locals THEN NULL ELSE kptr[p]]

\* What a use of p touches that is gone: its object, or the one p is a field of
Gone(p) ==
    {o \in {kptr[p]} \cup {kptr[Owner[q]] : q \in {p} \cap DOMAIN Owner} : o = NULL \/ heap[o] <= 0}

\* An object loses a reference; the EVP_PKEY of the application takes its EC_KEY with it.
Released(o) == [heap EXCEPT ![o] = @ - 1, !["app.ec"] = @ - (IF o = "app" /\ heap["app"] = 1 THEN 1 ELSE 0)]

Statements == Function(Top.f)[Top.part]
Statement == Statements[Top.i]
AtStatement == frames # << >> /\ Top.i <= Len(Statements)
Applies(s) ==
    /\ s.guard # "-" => kptr[s.guard] # NULL
    /\ s.when \in {"bad", "good"} => Top.bad = (s.when = "bad")
    /\ s.when = "release" => Top.release
    /\ s.when \in {"null", "wants"} => Top.wants = (s.when = "wants")
SetTop(fr) == frames' = [frames EXCEPT ![Len(frames)] = fr]
Advanced == [Top EXCEPT !.i = @ + 1]
AtExit(bad) == [Top EXCEPT !.part = "exit", !.i = 1, !.bad = bad]

(***************************************************************************)
(* One statement.                                                          *)
(***************************************************************************)
SkipStatement ==
    /\ AtStatement
    /\ ~Applies(Statement)
    /\ SetTop(Advanced)
    /\ UNCHANGED << backend, kptr, heap, stray, kout, droppedTwice >>

Acquire ==
    /\ AtStatement
    /\ Applies(Statement)
    /\ Statement.kind \in {"new", "maybe"}
    /\ SetTop(Advanced)
    /\ kptr' = [kptr EXCEPT ![Statement.p] = Statement.p]
    /\ heap' = [heap EXCEPT ![Statement.p] = @ + 1]
    /\ UNCHANGED << backend, stray, kout, droppedTwice >>

AcquireFails ==
    /\ AtStatement
    /\ Applies(Statement)
    /\ Statement.kind \in {"new", "maybe"}
    /\ kptr' = [kptr EXCEPT ![Statement.p] = NULL]
    /\ SetTop(IF Statement.kind = "new" THEN AtExit(TRUE) ELSE Advanced)
    /\ UNCHANGED << backend, heap, stray, kout, droppedTwice >>

Compute(ok) ==
    /\ AtStatement
    /\ Applies(Statement)
    /\ Statement.kind = "try"
    /\ stray' = stray \cup (IF Statement.p = "-" THEN {} ELSE Gone(Statement.p))
    /\ SetTop(IF ok THEN Advanced ELSE AtExit(TRUE))
    /\ UNCHANGED << backend, kptr, heap, kout, droppedTwice >>

FreeObject ==
    /\ AtStatement
    /\ Applies(Statement)
    /\ Statement.kind = "free"
    /\ stray' = stray \cup Gone(Statement.p)
    /\ heap' = Released(kptr[Statement.p])
    /\ SetTop(Advanced)
    /\ UNCHANGED << backend, kptr, kout, droppedTwice >>

Assign ==
    /\ AtStatement
    /\ Applies(Statement)
    /\ Statement.kind \in {"clear", "copy"}
    /\ kptr' = [kptr EXCEPT ![Statement.p] = IF Statement.kind = "copy" THEN kptr[Statement.q] ELSE NULL]
    /\ SetTop(Advanced)
    /\ UNCHANGED << backend, heap, stray, kout, droppedTwice >>

Reference ==
    /\ AtStatement
    /\ Applies(Statement)
    /\ Statement.kind = "ref"
    /\ heap' = [heap EXCEPT ![kptr[Statement.p]] = @ + 1]
    /\ SetTop(Advanced)
    /\ UNCHANGED << backend, kptr, stray, kout, droppedTwice >>

StopEarly ==
    /\ AtStatement
    /\ Applies(Statement)
    /\ Statement.kind = "stop"
    /\ SetTop(AtExit(FALSE))
    /\ UNCHANGED << backend, kptr, heap, stray, kout, droppedTwice >>

Enter ==
    /\ AtStatement
    /\ Applies(Statement)
    /\ Statement.kind \in {"call", "lax"}
    /\ frames' = Append(frames, Frame(Statement.q, Statement.release, Statement.wants))
    /\ kptr' = Ptrs(Statement.q)
    /\ UNCHANGED << backend, heap, stray, kout, droppedTwice >>

BodyEnds ==
    /\ frames # << >>
    /\ ~AtStatement
    /\ Top.part = "body"
    /\ SetTop(AtExit(Top.bad))
    /\ UNCHANGED << backend, kptr, heap, stray, kout, droppedTwice >>

\* The caller goes on, or to its own Exit when the body called; at Exit results are not looked at.
Return ==
    LET below == SubSeq(frames, 1, Len(frames) - 1)
        caller == below[Len(below)]
        next == IF Top.bad /\ caller.part = "body" /\ Function(caller.f).body[caller.i].kind = "call"
                THEN [caller EXCEPT !.part = "exit", !.i = 1, !.bad = TRUE]
                ELSE [caller EXCEPT !.i = @ + 1] IN
    /\ frames # << >>
    /\ ~AtStatement
    /\ Top.part = "exit"
    /\ IF below = << >>
       THEN /\ frames' = << >>
            /\ kout' = IF Top.bad THEN "bad" ELSE "good"
       ELSE /\ frames' = [below EXCEPT ![Len(below)] = next]
            /\ UNCHANGED kout
    /\ droppedTwice' = (droppedTwice \/ (Top.f = "x9_62_init_key" /\ Top.bad /\ kptr["c"] # NULL))
    /\ UNCHANGED << backend, kptr, heap, stray >>

(***************************************************************************)
(* The callers.  The variables a caller passes as outputs start out NULL   *)
(* and are freed by it when it is done with them.                          *)
(***************************************************************************)
Idle == frames = << >>
Exchanging == backend \in DOMAIN Algorithms
Taken == \A p \in Held : kptr[p] = NULL

Start(f, release, wants) ==
    /\ Idle
    /\ Taken
    /\ frames' = << Frame(f, release, wants) >>
    /\ kptr' = Ptrs(f)
    /\ kout' = "none"
    /\ UNCHANGED << backend, heap, stray, droppedTwice >>

\* send_client_hello, which asserts that there is no context
ClientCreates == Exchanging /\ kptr["slot"] = NULL /\ Start("create", FALSE, FALSE)

\* client_handle_hello uses the context for the last time, dh_decap (through setup_base_r) keeps it
ClientDerives == kptr["slot"] # NULL /\ Start("on_exchange", TRUE, TRUE)
ServerDecaps == kptr["slot"] # NULL /\ Start("setup_base_r", FALSE, FALSE)

\* handle_hello_retry_request and ptls_free
ClientReleases == kptr["slot"] # NULL /\ Start("on_exchange", TRUE, FALSE)

\* server_handle_hello and, through setup_base_s, client_setup_ech; no other context is in use
ServerExchanges == Exchanging /\ kptr["slot"] = NULL /\ Start("exchange", FALSE, FALSE)
ClientEncaps == Exchanging /\ kptr["slot"] = NULL /\ Start("setup_base_s", FALSE, FALSE)

\* ech_setup_key of t/util.h makes a context from a key of its own; it gives up when that fails, other
\* callers may go on.  An EC_KEY that has lost the application's own reference is not imported again:
\* this bounds its count.
Imports ==
    /\ ~droppedTwice
    /\ backend \in {"x9_62", "evp"}
    /\ kptr["slot"] = NULL
    /\ kptr["app"] # NULL
    /\ Start(IF backend = "x9_62" THEN "import_ec" ELSE "import_x25519", FALSE, FALSE)

\* The application frees its key, which holds the EC_KEY that EVP_PKEY_get1_EC_KEY returned.
ApplicationFreesKey ==
    /\ Idle
    /\ kptr["app"] # NULL
    /\ heap' = Released("app")
    /\ kptr' = [kptr EXCEPT !["app"] = NULL, !["app.ec"] = NULL]
    /\ UNCHANGED << backend, frames, stray, kout, droppedTwice >>

\* ciphers, AEADs and HMAC contexts: new, then free
NewContext == backend \in DOMAIN Contexts /\ kptr["x"] = NULL /\ Start("new", FALSE, FALSE)
FreeContext == backend \in DOMAIN Contexts /\ kptr["x"] # NULL /\ Start("free", FALSE, FALSE)

\* handle_certificate, handle_certificate_verify and ptls_free; an application sets its verifier up,
\* which keeps a reference to a key of the application, and disposes of it
HandlesCertificate ==
    /\ backend = "certificates"
    /\ kptr["verify"] = NULL
    /\ heap["interm"] = 0
    /\ \/ \E f \in {"verify_cert", "verify_no_cert"} : Start(f, FALSE, FALSE)
       \/ kptr["self"] # NULL /\ Start("verify_raw_cert", FALSE, FALSE)

HandlesCertificateVerify == kptr["verify"] # NULL /\ Start("verify_sign", FALSE, TRUE)
DropsVerifier == kptr["verify"] # NULL /\ Start("verify_sign", FALSE, FALSE)

SetsUp ==
    /\ backend = "certificates"
    /\ \/ kptr["app"] # NULL /\ kptr["self"] = NULL /\ Start("init_self", FALSE, FALSE)
       \/ kptr["self"] # NULL /\ Start("dispose_self", FALSE, FALSE)
       \/ \E f \in {"load_certificates", "create_store"} : Start(f, FALSE, FALSE)

\* Exit of client_handle_hello and server_handle_hello, ptls_aead_free; lists of certificates and
\* stores are the application's
CallerFrees ==
    /\ Idle
    /\ ~Taken
    /\ heap' = [o \in DOMAIN heap |->
                  IF \/ \E p \in Held : kptr[p] = o
                     \/ o \in {"list.0", "list.1"} /\ kptr["certs"] # NULL
                  THEN heap[o] - 1 ELSE heap[o]]
    /\ kptr' = [p \in Pointers |-> IF p \in Held THEN NULL ELSE kptr[p]]
    /\ UNCHANGED << backend, frames, stray, kout, droppedTwice >>

OwnershipInit ==
    /\ backend \in Backends
    /\ frames = << >>
    /\ kptr = [p \in Pointers |-> IF p \in {"app", "app.ec"} THEN p ELSE NULL]
    /\ heap = [o \in Pointers |-> IF o \in {"app", "app.ec"} THEN 1 ELSE 0]
    /\ stray = {}
    /\ kout = "none"
    /\ droppedTwice = FALSE

OwnershipNext ==
    \/ SkipStatement \/ Acquire \/ AcquireFails \/ FreeObject \/ Assign \/ Reference \/ StopEarly
    \/ Enter \/ BodyEnds \/ Return
    \/ \E ok \in BOOLEAN : Compute(ok)
    \/ ClientCreates \/ ClientDerives \/ ClientReleases \/ ServerExchanges
    \/ NewContext \/ FreeContext \/ HandlesCertificate \/ HandlesCertificateVerify \/ DropsVerifier \/ SetsUp
    \/ ClientEncaps \/ ServerDecaps \/ Imports \/ ApplicationFreesKey \/ CallerFrees

OwnershipSpec == OwnershipInit /\ [][OwnershipNext]_kvars

(***************************************************************************)
(* Properties                                                              *)
(***************************************************************************)
\* What is reachable between two calls: what the callers hold and what those objects own.
CipherHeld == kptr["x"] # NULL /\ backend = "chacha"
OwnerHeld(o) ==
    \/ o = "c" /\ kptr["slot"] # NULL
    \/ o = "x" /\ kptr["x"] # NULL
    \/ o = "y" /\ CipherHeld
    \/ o = "list" /\ kptr["certs"] # NULL
Roots == Held \cup {"slot", "x", "verify", "self", "app", "app.ec"} \cup {p \in {"y"} : CipherHeld}
Reachable == {kptr[p] : p \in Roots \cup {q \in DOMAIN Owner : OwnerHeld(Owner[q])}} \ {NULL}

\* The one object of which a reference is dropped twice: when x9_62_init_key fails with a context that
\* holds the application's EC_KEY, x9_62_free_context and then ptls_openssl_create_key_exchange free it.
Spoiled == IF droppedTwice THEN {"app.ec"} ELSE {}

\* No object is freed twice and none is used once it is gone, whichever allocation or crypto call
\* fails and in whatever order the callers create, use and release their contexts; what a caller still
\* holds, and what that object owns, is alive.  The exception is the EC_KEY of an application, once an
\* import of it has failed at the encoding of the public key (see CallersKeyKept).
FreedOnce ==
    /\ stray \subseteq Spoiled
    /\ \A o \in Pointers \ Spoiled : heap[o] >= 0
    /\ Idle => \A o \in Reachable \ Spoiled : heap[o] > 0

\* Between calls nothing is allocated but what somebody can still reach.  (Left out: intermediate
\* certificates of a chain whose stack could not be allocated, see VerifyCert.)
NothingLeaks ==
    Idle => \A o \in Pointers \ {"app", "app.ec", "interm"} : heap[o] > 0 => o \in Reachable

ContextHolds(o) == IF kptr["slot"] # NULL /\ kptr["c.key"] = o THEN 1 ELSE 0

\* The references to the application's keys are those it can name.  To the EVP_PKEY: its own, that of
\* the verifier or signer object, that of a key-exchange context and that of a pending signature check.
\* To the EC_KEY in it: that of the EVP_PKEY and that of a key-exchange context, and exactly one too few
\* after the failed import that drops one twice.
ReferencesCounted ==
    Idle =>
      /\ heap["app"] = Cardinality({p \in {"app", "self", "verify"} : kptr[p] = "app"}) + ContextHolds("app")
      /\ heap["app.ec"] = (IF heap["app"] > 0 THEN 1 ELSE 0) + ContextHolds("app.ec") - Cardinality(Spoiled)

\* A call that failed has left the outputs of its caller unchanged or cleared (asserted after
\* exchange and on_exchange in server_handle_hello, client_handle_hello and dh_encap).
FailureLeavesNothing == Idle /\ kout = "bad" => \A p \in Outputs : kptr[p] = NULL

\* The key an application passed to ptls_openssl_create_key_exchange is still its own afterwards:
\* "pkey's reference count is incremented" (include/zpicotls/openssl.h), and a failed import gives back
\* exactly the reference it took.  That of an EC_KEY gives back one more: not an invariant of this code.
CallersKeyKept == Idle /\ kptr["app"] # NULL => heap["app"] >= 1 /\ heap["app.ec"] >= 1

\* What the glue frees, and when, is right: no object freed twice or used when it is gone, every reference
\* to a key accounted for, the one case excepted in which the reference to an EC_KEY is dropped twice.
ReferencesSound == FreedOnce /\ ReferencesCounted

\* A call of the glue that fails is as if it had not been made: nothing leaks
\* and its outputs are as they were or cleared.
FailureIsClean == NothingLeaks /\ FailureLeavesNothing

===============================================================================
