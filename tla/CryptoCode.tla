------------------------------ MODULE CryptoCode ------------------------------
(***************************************************************************)
(* Ciphers, AEADs, HMAC and certificates, as scripts: lib/picotls.c, the   *)
(* OpenSSL and mbedTLS bindings and chacha20poly1305.h.  x is the context  *)
(* made for a caller and y a cipher that another context owns; verify is   *)
(* tls->certificate_verify, the key a signature will be checked with, self *)
(* the key of a verifier or signer object.                                 *)
(***************************************************************************)
EXTENDS Statements

\* ptls_cipher_new, ptls_cipher_free on top of cipher_setup_crypto of OpenSSL
CipherSetup == Script({"y.evp"}, << New("y.evp"), Try("y.evp") >>, << When("bad", Free("y.evp")) >>)

CipherNew == Script({"y"}, << New("y"), Call("cipher_setup") >>, GiveBack("y"))

CipherFree == Script({}, << >>, << Free("y.evp"), Free("y"), Clear("y") >>)

\* ptls_aead_new_direct, ptls_aead_free
AeadNew == Script({"x"}, << New("x"), Call("setup") >>, GiveBack("x"))

AeadFree == Script({}, << >>, << Call("dispose"), Free("x"), Clear("x") >>)

\* aead_setup_crypto of OpenSSL, whose error path is its dispose_crypto
EvpAeadSetup == Script({"x.evp"}, << New("x.evp"), Try("x.evp"), Try("x.evp") >>, << When("bad", Call("dispose")) >>)

EvpAeadDispose == Script({}, << >>, << Free("x.evp") >>)

\* chacha20poly1305_setup_crypto and quiclb_setup_crypto own a cipher
ChachaSetup == Script({}, << Call("cipher_new") >>, << >>)

ChachaDispose == Script({}, << >>, << NonNull("y", Call("cipher_free")) >>)

\* aead_setup and cipher_setup of mbedTLS hold a key of the PSA store
PsaSetup == Script({"x.key"}, << New("x.key") >>, << >>)

PsaDispose == Script({}, << >>, << Free("x.key") >>)

\* ptls_hmac_create and hmac_final with PTLS_HASH_FINAL_MODE_FREE
HmacContextCreate == Script({"x", "x.hash"}, << New("x"), New("x.hash") >>, GiveBack("x"))

HmacFree == Script({}, << >>, << Free("x.hash"), Free("x"), Clear("x") >>)

(***************************************************************************)
(* Certificates (lib/openssl.c).  verify_cert keeps going after            *)
(* verify_cert_chain, since an override callback may replace its verdict,  *)
(* and looks at neither sk_X509_new_null nor sk_X509_push.                 *)
(***************************************************************************)
VerifyCertChain == Script({"store_ctx"}, << New("store_ctx"), Try("store_ctx"), Try("store_ctx") >>, << Free("store_ctx") >>)

VerifyCert == Script({"chain", "chain.interm", "cert", "interm", "x509key"},
    << NewMaybe("chain"), New("cert"), New("interm"), NonNull("chain", Copy("chain.interm", "interm")),
       CallLax("verify_cert_chain"), Try("cert"), New("x509key"), Copy("verify", "x509key") >>,
    << Free("chain.interm"), Free("chain"), Free("cert") >>)

VerifyNoCert == Script({"chain"}, << NewMaybe("chain"), Try("-") >>, << Free("chain") >>)

VerifyRawCert == Script({"expected"},
    << Try("-"), New("expected"), Try("expected"), UpRef("self"), Copy("verify", "self") >>, << Free("expected") >>)

\* Mutated VerifySign: called to release the key without data to verify, it only returns.
VerifySign_NoRelease == Script({"md"}, << Stop, Try("verify"), New("md"), Try("md") >>,
    << Free("md"), When("wants", Free("verify")), Clear("verify") >>)

\* verify_sign, and the caller's tls->certificate_verify.cb = NULL
VerifySign == Script({"md"}, << Stop, Try("verify"), New("md"), Try("md") >>,
    << Free("md"), Free("verify"), Clear("verify") >>)

\* ptls_openssl_init_sign_certificate, ptls_openssl_raw_pubkey_init_verify_certificate and their dispose
InitSelf == Script({}, << Try("app"), Copy("self", "app"), UpRef("self") >>, << >>)

DisposeSelf == Script({}, << >>, << Free("self"), Clear("self") >>)

LoadCertificates == Script({"list", "list.0", "list.1"},
    << New("list"), New("list.0"), New("list.1"), Copy("certs", "list") >>,
    << When("bad", Free("list.0")), When("bad", Free("list.1")), When("bad", Free("list")) >>)

CreateStore == Script({"store"}, << New("store"), Try("store"), Try("store") >>, GiveBack("store"))

CryptoFunctions == [cipher_setup |-> CipherSetup, cipher_new |-> CipherNew, cipher_free |-> CipherFree,
    aead_new |-> AeadNew, aead_free |-> AeadFree, verify_cert_chain |-> VerifyCertChain, verify_cert |-> VerifyCert,
    verify_no_cert |-> VerifyNoCert, verify_raw_cert |-> VerifyRawCert, verify_sign |-> VerifySign,
    init_self |-> InitSelf, dispose_self |-> DisposeSelf, load_certificates |-> LoadCertificates, create_store |-> CreateStore,
    hmac_create |-> HmacContextCreate, hmac_free |-> HmacFree]

Context(new, free, setup, dispose) == [new |-> new, free |-> free, setup |-> setup, dispose |-> dispose]
Contexts == [evp_aead |-> Context(AeadNew, AeadFree, EvpAeadSetup, EvpAeadDispose),
    chacha |-> Context(AeadNew, AeadFree, ChachaSetup, ChachaDispose),
    psa |-> Context(AeadNew, AeadFree, PsaSetup, PsaDispose),
    hmac |-> Context(HmacContextCreate, HmacFree, HmacContextCreate, HmacFree)]
===============================================================================
