------------------------------ MODULE KeyExCode -------------------------------
(***************************************************************************)
(* The key-exchange implementations of OpenSSL (lib/openssl.c), micro-ecc  *)
(* (lib/uecc.c), cifra (lib/cifra/x25519.c) and mbedTLS (lib/mbedtls.c),   *)
(* and HPKE (lib/hpke.c) on top of them, as scripts.  slot is the pointer  *)
(* to the context that the caller passes, c the context, pubkey and secret *)
(* the outputs.                                                            *)
(***************************************************************************)
EXTENDS Statements

(***************************************************************************)
(* lib/openssl.c: elliptic curves with the EC_KEY interface.               *)
(***************************************************************************)
EcdhGenerateKey == Script({"key"}, << New("key"), Try("group") >>, GiveBack("key"))

DecodePoint == Script({"point"}, << New("point"), Try("point") >>, GiveBack("point"))

EncodePoint == Script({"vec"}, << Try("-"), New("vec"), Try("vec") >>, GiveBack("vec"))

EcdhCalcSecret == Script({"sec"}, << New("sec"), Try("c.key") >>,
    << When("good", Copy("secret", "sec")), When("bad", Free("sec")), When("bad", Clear("secret")) >>)

X962FreeContext == Script({}, << >>, << Free("c.pub"), Free("c.key"), Free("c.bn"), Free("c") >>)

X962OnExchange == Script({"point"},
    << Copy("c", "slot"), Stop, Try("c.key"), Call("decode_point"), Call("ecdh_calc_secret") >>,
    << Free("point"), When("release", Call("x9_62_free_context")), When("release", Clear("slot")) >>)

X962CreateContext == Script({"c", "c.pub", "c.key", "c.bn"}, << New("c"), New("c.bn") >>,
    << NonNull("c", When("bad", Call("x9_62_free_context"))), When("bad", Clear("c")) >>)

X962Create == Script({"group", "c"},
    << New("group"), Call("x9_62_create_context"), Call("ecdh_generate_key"), Copy("c.key", "key"),
       Call("encode_point"), Copy("c.pub", "vec") >>,
    << Free("group"), When("good", Copy("slot", "c")),
       NonNull("c", When("bad", Call("x9_62_free_context"))), When("bad", Clear("slot")) >>)

X962InitKey == Script({"c"},
    << Call("x9_62_create_context"), Copy("c.key", "eckey"), Call("encode_point"), Copy("c.pub", "vec") >>,
    << When("good", Copy("slot", "c")),
       NonNull("c", When("bad", Call("x9_62_free_context"))), When("bad", Clear("slot")) >>)

X962KeyExchange == Script({"point", "key"},
    << Clear("pubkey"), Clear("secret"), Call("decode_point"), Call("ecdh_generate_key"),
       Call("encode_point"), Copy("pubkey", "vec"), New("secret"), Try("key") >>,
    << Free("point"), Free("key") >> \o GiveBack("pubkey") \o GiveBack("secret"))

SecpExchange == Script({"group", "bn"},
    << New("group"), New("bn"), Call("x9_62_key_exchange") >>, << Free("bn"), Free("group") >>)

(***************************************************************************)
(* lib/openssl.c: X25519 and the KEMs with the EVP interface, and          *)
(* X25519MLKEM768 with BoringSSL, whose context holds its keys itself.     *)
(***************************************************************************)
EvpFree == Script({}, << >>, << Free("c.key"), Free("c.pub"), Free("c") >>)

EvpOnExchange == Script({"peer", "evpctx"},
    << Copy("c", "slot"), Stop, Clear("secret"), Try("c.pub"), New("peer"), Try("c.key"), New("evpctx"),
       Try("peer"), New("secret"), Try("evpctx") >>,
    << Free("evpctx"), Free("peer") >> \o GiveBack("secret") \o
    << When("release", Call("evp_free")), When("release", Clear("slot")) >>)

BoringOnExchange == Script({},
    << Copy("c", "slot"), Stop, Clear("secret"), Try("c.pub"), New("secret"), Try("c.key") >>,
    GiveBack("secret") \o << When("release", Call("evp_free")), When("release", Clear("slot")) >>)

EvpInit == Script({"c", "c.key", "c.pub"},
    << New("c"), Copy("c.key", "pkey"), New("c.pub"), Copy("slot", "c") >>,
    << NonNull("c", When("bad", Clear("c.key"))), NonNull("c", When("bad", Call("evp_free"))) >>)

EvpCreate == Script({"evpctx", "pkey"},
    << New("evpctx"), Try("evpctx"), New("pkey"), Call("evp_init"), Clear("pkey") >>,
    << Free("pkey"), Free("evpctx") >>)

EvpExchange == Script({},
    << Clear("pubkey"), Call("evp_create"), New("pubkey"), CallWith("on_exchange", TRUE, TRUE) >>,
    << NonNull("slot", CallWith("on_exchange", TRUE, FALSE)) >> \o GiveBack("pubkey"))

KemOnExchange == Script({"evpctx"},
    << Copy("c", "slot"), Stop, Clear("secret"), Try("c.key"), New("evpctx"), Try("evpctx"),
       New("secret"), Try("evpctx") >>,
    << Free("evpctx") >> \o GiveBack("secret") \o
    << When("release", Call("evp_free")), When("release", Clear("slot")) >>)

KemCreate == Script({"c", "c.key", "c.pub", "evpctx"},
    << New("c"), New("evpctx"), Try("evpctx"), New("c.key"), New("c.pub"), Copy("slot", "c") >>,
    << NonNull("c", When("bad", Call("evp_free"))), Free("evpctx") >>)

KemExchange == Script({"evpctx", "key"},
    << Clear("pubkey"), Clear("secret"), New("evpctx"), Try("evpctx"), New("key"), Try("key"),
       Free("evpctx"), New("evpctx"), Try("evpctx"), New("pubkey"), New("secret"), Try("evpctx") >>,
    << Free("evpctx"), Free("key") >> \o GiveBack("secret") \o GiveBack("pubkey"))

MlkemOnExchange == Script({},
    << Copy("c", "slot"), Stop, Clear("secret"), Try("-"), New("secret"), Try("c") >>,
    GiveBack("secret") \o << When("release", Free("c")), When("release", Clear("slot")) >>)

MlkemCreate == Script({"c"}, << New("c"), Copy("slot", "c") >>, << >>)

MlkemExchange == Script({},
    << Clear("pubkey"), Clear("secret"), Try("-"), New("pubkey"), New("secret"), Try("-") >>,
    GiveBack("pubkey") \o GiveBack("secret"))

(***************************************************************************)
(* lib/openssl.c: a context made from a private key of the application.    *)
(***************************************************************************)
ImportEc == Script({"eckey"},
    << Copy("eckey", "app.ec"), UpRef("eckey"), Try("eckey"), Call("x9_62_init_key") >>,
    << When("bad", Free("eckey")) >>)

ImportX25519 == Script({"pkey"}, << Copy("pkey", "app"), Call("evp_init"), UpRef("pkey") >>, << >>)

(***************************************************************************)
(* lib/uecc.c and lib/cifra/x25519.c: the keys are part of the context.    *)
(***************************************************************************)
UeccOnExchange == Script({"sec"},
    << Copy("c", "slot"), Stop, Try("-"), New("sec"), Try("c"), Copy("secret", "sec") >>,
    << When("bad", Free("sec")), When("release", Free("c")), When("release", Clear("slot")) >>)

UeccCreate == Script({"c"}, << New("c"), Copy("slot", "c") >>, << >>)

UeccExchange == Script({"pub", "sec"},
    << Try("-"), New("pub"), New("sec"), Try("-"), Copy("pubkey", "pub"), Copy("secret", "sec") >>,
    << When("bad", Free("sec")), When("bad", Free("pub")) >>)

\* Mutated CifraDeriveSecret: the all-zero secret is freed and still returned to the caller.
CifraDeriveSecret_Dangling == Script({}, << New("secret"), Try("secret") >>, << When("bad", Free("secret")) >>)

CifraDeriveSecret == Script({}, << New("secret"), Try("secret") >>, GiveBack("secret"))

CifraOnExchange == Script({},
    << Copy("c", "slot"), Stop, Try("-"), Call("cifra_derive_secret") >>,
    << When("release", Free("c")), When("release", Clear("slot")) >>)

CifraCreate == Script({"c"}, << New("c"), Copy("slot", "c") >>, << >>)

CifraExchange == Script({"pub"},
    << Try("-"), New("pub"), Call("cifra_derive_secret"), Copy("pubkey", "pub") >>, << When("bad", Free("pub")) >>)

(***************************************************************************)
(* lib/mbedtls.c: private keys are handles of the PSA store.               *)
(***************************************************************************)
MbedtlsOnExchange == Script({},
    << Copy("c", "slot"), Stop, New("secret"), Try("c.key") >>,
    GiveBack("secret") \o
    << When("release", Free("c.key")), When("release", Free("c")), When("release", Clear("slot")) >>)

MbedtlsCreate == Script({"c", "c.key"}, << Clear("slot"), New("c"), New("c.key"), Copy("slot", "c") >>,
    << When("bad", Free("c")) >>)

MbedtlsExchange == Script({"key"},
    << Clear("pubkey"), Clear("secret"), New("key"), New("secret"), New("pubkey"), Try("key") >>,
    GiveBack("pubkey") \o GiveBack("secret") \o << Free("key") >>)

(***************************************************************************)
(* lib/hpke.c: secret is the variable dh, pubkey is *pk_s.  The buffers    *)
(* stand for what pushing to them may allocate.                            *)
(***************************************************************************)
LabeledDerivation == Script({"labeled"}, << New("labeled"), Try("labeled") >>, << Free("labeled") >>)

ExtractAndExpand == Script({"kem_context"},
    << New("kem_context"), Call("labeled"), Call("labeled") >>, << Free("kem_context") >>)

DhEncap == Script({"secret"},
    << Clear("pubkey"), Call("exchange"), Call("extract_and_expand") >>,
    << Free("secret"), Clear("secret") >> \o GiveBack("pubkey"))

DhDecap == Script({"secret"},
    << CallWith("on_exchange", FALSE, TRUE), Call("extract_and_expand") >>, << Free("secret"), Clear("secret") >>)

HpkeKeySchedule == Script({"kbuf"},
    << Clear("aead"), New("kbuf"), Call("labeled"), Call("labeled"), Call("labeled"), Call("labeled"),
       Call("labeled"), NewMaybe("aead") >>,
    << Free("kbuf") >>)

SetupBaseS == Script({}, << Clear("pubkey"), Call("dh_encap"), Call("key_schedule") >>, GiveBack("pubkey"))

SetupBaseR == Script({}, << Call("dh_decap"), Call("key_schedule") >>, << >>)

KeyExFunctions == [decode_point |-> DecodePoint, encode_point |-> EncodePoint, ecdh_generate_key |-> EcdhGenerateKey,
    ecdh_calc_secret |-> EcdhCalcSecret, x9_62_free_context |-> X962FreeContext,
    x9_62_create_context |-> X962CreateContext, x9_62_init_key |-> X962InitKey,
    x9_62_key_exchange |-> X962KeyExchange, evp_free |-> EvpFree, evp_init |-> EvpInit, evp_create |-> EvpCreate,
    cifra_derive_secret |-> CifraDeriveSecret, labeled |-> LabeledDerivation,
    extract_and_expand |-> ExtractAndExpand, dh_encap |-> DhEncap, dh_decap |-> DhDecap,
    key_schedule |-> HpkeKeySchedule, setup_base_s |-> SetupBaseS, setup_base_r |-> SetupBaseR,
    import_ec |-> ImportEc, import_x25519 |-> ImportX25519]

Algorithm(create, on_exchange, exchange) == [create |-> create, on_exchange |-> on_exchange, exchange |-> exchange]
Algorithms == [x9_62 |-> Algorithm(X962Create, X962OnExchange, SecpExchange),
    evp |-> Algorithm(EvpCreate, EvpOnExchange, EvpExchange),
    boring |-> Algorithm(EvpCreate, BoringOnExchange, EvpExchange),
    kem |-> Algorithm(KemCreate, KemOnExchange, KemExchange),
    mlkem |-> Algorithm(MlkemCreate, MlkemOnExchange, MlkemExchange),
    uecc |-> Algorithm(UeccCreate, UeccOnExchange, UeccExchange),
    cifra |-> Algorithm(CifraCreate, CifraOnExchange, CifraExchange),
    mbedtls |-> Algorithm(MbedtlsCreate, MbedtlsOnExchange, MbedtlsExchange)]
===============================================================================
