------------------------------ MODULE Ciphers ------------------------------
(***************************************************************************)
(* What is built on OpenSSL: AuthCrypt (two ARC4 streams), the stream of   *)
(* SessionKeyGenerator, data sealed with AES, and TOTP tokens.             *)
(*                                                                         *)
(* OpenSSL is external and symbolic: an encrypted byte carries the key and *)
(* the place in the key stream it was encrypted with, and comes out as     *)
(* Garbage with any other; a digest or tag is what it was made of.         *)
(***************************************************************************)
EXTENDS Integers, Sequences, SequencesExt

CONSTANTS Drop,            \* key stream bytes that Init() drops (1024)
          MaxBytes,        \* bound: bytes sent each way, and generated
          MaxChunk,        \* bound: bytes of one call
          DIGEST_LENGTH,
          IvSize, TagSize,
          MaxDamages,      \* bound: losses and exchanges of bytes where sealed data is kept
          Plaintexts,      \* what is sealed, sequences of numbers
          TOTP_INTERVAL, Times

VARIABLES crypt,   \* AuthCrypt: _initialized, _serverEncrypt, _clientDecrypt
          peer,    \* the game client's two streams (external)
          wire,    \* encrypted bytes under way, to the client and to the server
          got,     \* bytes that came out, at the client and at the server
          sent,    \* bytes that were sent, to the client and to the server
          gen,     \* SessionKeyGenerator: o0, o0it, and the bytes generated
          data,    \* the data that is sealed and opened, in place
          sealed,  \* history: the plaintext, the key and the data as it was sealed
          opened,  \* what AEDecrypt() returned
          token    \* history: a token's two times and what ValidateToken() returned

cryptVars == <<crypt, peer, wire, got, sent>>
sealVars  == <<data, sealed, opened>>
vars == <<cryptVars, gen, sealVars, token>>

Garbage == -1
Ways == {"client", "server"}   \* the side that receives
Keys == {1, 2}
Ivs == {1, 2}
None == [none |-> TRUE]

-----------------------------------------------------------------------------
(***************************************************************************)
(* ARC4                                                                    *)
(***************************************************************************)
ARC4Init(seed) == [seed |-> seed, pos |-> 0]
Advance(arc4, n) == [seed |-> arc4.seed, pos |-> arc4.pos + n]

\* UpdateData() of bytes to encrypt, and of bytes that were encrypted.
Encrypt(arc4, bytes) == [i \in DOMAIN bytes |-> [byte |-> bytes[i], seed |-> arc4.seed, pos |-> arc4.pos + i]]
Decrypt(arc4, bytes) ==
    [i \in DOMAIN bytes |->
        IF bytes[i].seed = arc4.seed /\ bytes[i].pos = arc4.pos + i THEN bytes[i].byte ELSE Garbage]

-----------------------------------------------------------------------------
(***************************************************************************)
(* AuthCrypt                                                               *)
(***************************************************************************)
ServerEncryptionKey == 1
ServerDecryptionKey == 2

\* Mutant of CryptInit: what the server receives starts at the front of the stream.
CryptInitDropsOnce(K) ==
    [initialized |-> TRUE,
     serverEncrypt |-> Advance(ARC4Init(<<ServerEncryptionKey, K>>), Drop),
     clientDecrypt |-> ARC4Init(<<ServerDecryptionKey, K>>)]

\* Init(): each direction has a stream of its own, whose front is dropped.
CryptInit(K) ==
    [initialized |-> TRUE,
     serverEncrypt |-> Advance(ARC4Init(<<ServerEncryptionKey, K>>), Drop),
     clientDecrypt |-> Advance(ARC4Init(<<ServerDecryptionKey, K>>), Drop)]

\* Both sides have agreed on K; also again, when nothing is under way.
AuthInit ==
    /\ \A w \in Ways : wire[w] = << >>
    /\ \E K \in Keys :
        /\ crypt' = CryptInit(K)
        /\ peer' = [w \in Ways |->
            Advance(ARC4Init(<<IF w = "client" THEN ServerEncryptionKey ELSE ServerDecryptionKey, K>>), Drop)]
    /\ UNCHANGED <<wire, got, sent, gen, sealVars, token>>

\* EncryptSend() and DecryptRecv() assert that Init() was called.  The bytes are
\* numbered, so that their order shows.
NextBytes(w, n) == [i \in 1 .. n |-> sent[w] + i]
Sends(w, n) == sent[w] + n <= MaxBytes /\ sent' = [sent EXCEPT ![w] = @ + n]

EncryptSend ==
    /\ crypt.initialized
    /\ \E n \in 1 .. MaxChunk :
        /\ Sends("client", n)
        /\ wire' = [wire EXCEPT !["client"] = @ \o Encrypt(crypt.serverEncrypt, NextBytes("client", n))]
        /\ crypt' = [initialized |-> TRUE, serverEncrypt |-> Advance(crypt.serverEncrypt, n),
                     clientDecrypt |-> crypt.clientDecrypt]
    /\ UNCHANGED <<peer, got, gen, sealVars, token>>

DecryptRecv ==
    /\ crypt.initialized
    /\ \E n \in 1 .. Len(wire["server"]) :
        /\ got' = [got EXCEPT !["server"] = @ \o Decrypt(crypt.clientDecrypt, SubSeq(wire["server"], 1, n))]
        /\ wire' = [wire EXCEPT !["server"] = SubSeq(@, n + 1, Len(@))]
        /\ crypt' = [initialized |-> TRUE, serverEncrypt |-> crypt.serverEncrypt,
                     clientDecrypt |-> Advance(crypt.clientDecrypt, n)]
    /\ UNCHANGED <<peer, sent, gen, sealVars, token>>

\* The game client, with the same ciphers.
PeerSends ==
    /\ crypt.initialized
    /\ \E n \in 1 .. MaxChunk :
        /\ Sends("server", n)
        /\ wire' = [wire EXCEPT !["server"] = @ \o Encrypt(peer["server"], NextBytes("server", n))]
        /\ peer' = [peer EXCEPT !["server"] = Advance(@, n)]
    /\ UNCHANGED <<crypt, got, gen, sealVars, token>>
PeerReceives ==
    /\ \E n \in 1 .. Len(wire["client"]) :
        /\ got' = [got EXCEPT !["client"] = @ \o Decrypt(peer["client"], SubSeq(wire["client"], 1, n))]
        /\ wire' = [wire EXCEPT !["client"] = SubSeq(@, n + 1, Len(@))]
        /\ peer' = [peer EXCEPT !["client"] = Advance(@, n)]
    /\ UNCHANGED <<crypt, sent, gen, sealVars, token>>

-----------------------------------------------------------------------------
(***************************************************************************)
(* SessionKeyGenerator.  The digests that follow from one seed are         *)
(* numbered: o0 = k is the k-th hash of (o1, o0, o2).                      *)
(***************************************************************************)
SessionKeyGenerator == [o0 |-> 1, o0it |-> 1, out |-> << >>]

\* One byte of Generate(), which takes the next digest when this one is used up.
GeneratedByte(s) ==
    LET used == s.o0it > DIGEST_LENGTH
        o0 == IF used THEN s.o0 + 1 ELSE s.o0
        o0it == IF used THEN 1 ELSE s.o0it
    IN [o0 |-> o0, o0it |-> o0it + 1, out |-> Append(s.out, <<o0, o0it>>)]
Generated(s, sz) ==
    LET after[i \in 0 .. sz] == IF i = 0 THEN s ELSE GeneratedByte(after[i - 1])
    IN after[sz]
Generate ==
    /\ \E sz \in 1 .. MaxChunk :
        /\ Len(gen.out) + sz <= MaxBytes
        /\ gen' = Generated(gen, sz)
    /\ UNCHANGED <<cryptVars, sealVars, token>>

-----------------------------------------------------------------------------
(***************************************************************************)
(* AEEncryptWithRandomIV() and AEDecrypt() with AES in GCM mode            *)
(***************************************************************************)
Sealed(key, iv, i, d) == [is |-> "data", key |-> key, iv |-> iv, i |-> i, d |-> d]
IvBytes(iv) == [i \in 1 .. IvSize |-> [is |-> "iv", iv |-> iv, i |-> i]]
TagBytes(key, iv, plain) ==
    [i \in 1 .. TagSize |-> [is |-> "tag", key |-> key, iv |-> iv, i |-> i, plain |-> plain]]

\* Encrypted in place, the IV and the tag behind it.
AEEncryptWithRandomIV ==
    /\ sealed = None
    /\ \E plain \in Plaintexts, key \in Keys, iv \in Ivs :
        /\ data' = [i \in DOMAIN plain |-> Sealed(key, iv, i, plain[i])]
                     \o IvBytes(iv) \o TagBytes(key, iv, plain)
        /\ sealed' = [plain |-> plain, key |-> key, data |-> data', damages |-> 0]
    /\ UNCHANGED <<cryptVars, gen, opened, token>>

\* Where the data is kept, bytes are lost or exchanged.
Damage ==
    /\ sealed # None /\ opened = None /\ sealed.damages < MaxDamages
    /\ \/ \E i \in DOMAIN data : data' = RemoveAt(data, i)
       \/ \E i \in 1 .. Len(data) - 1 :
            data' = [data EXCEPT ![i] = data[i + 1], ![i + 1] = data[i]]
    /\ sealed' = [plain |-> sealed.plain, key |-> sealed.key, data |-> sealed.data,
                  damages |-> sealed.damages + 1]
    /\ UNCHANGED <<cryptVars, gen, opened, token>>

\* SplitFromBack(): the tail, taken from its last byte on and put from its last place on.
SplitFromBack(bytes, n) == SubSeq(bytes, Len(bytes) - n + 1, Len(bytes))

\* AES::Process(): the data is decrypted in place before the tag is compared.
Processed(bytes, key, iv) ==
    [i \in DOMAIN bytes |->
        IF /\ bytes[i].is = "data" /\ bytes[i].key = key /\ bytes[i].i = i
           /\ IvBytes(bytes[i].iv) = iv
        THEN bytes[i].d ELSE Garbage]
TagMatches(tag, key, iv, plain) ==
    \E n \in Ivs : iv = IvBytes(n) /\ tag = TagBytes(key, n, plain)

\* Data too short for an IV and a tag is stopped by ASSERT.
AEDecrypt ==
    /\ sealed # None /\ opened = None
    /\ \E key \in Keys :
        LET n == Len(data)
            tag == SplitFromBack(data, TagSize)
            iv == SplitFromBack(SubSeq(data, 1, n - TagSize), IvSize)
            plain == Processed(SubSeq(data, 1, n - TagSize - IvSize), key, iv)
            result(ok) == [result |-> ok, key |-> key, intact |-> data = sealed.data]
        IN IF n < TagSize + IvSize
           THEN opened' = result("assert") /\ UNCHANGED data
           ELSE /\ opened' = result(IF TagMatches(tag, key, iv, plain) THEN "true" ELSE "false")
                /\ data' = plain
    /\ UNCHANGED <<cryptVars, gen, sealed, token>>

-----------------------------------------------------------------------------
(***************************************************************************)
(* TOTP                                                                    *)
(***************************************************************************)

\* The six digits that the secret's HMAC of the interval's number is cut to; those of
\* different intervals are taken to differ.
GenerateToken(timestamp) == timestamp \div TOTP_INTERVAL

\* ValidateToken(): the interval of now and the ones on both sides.
ValidateToken(t, now) ==
    \/ t = GenerateToken(now - TOTP_INTERVAL)
    \/ t = GenerateToken(now)
    \/ t = GenerateToken(now + TOTP_INTERVAL)

Login ==
    /\ token = None
    /\ \E made, now \in Times :
        token' = [made |-> made, now |-> now, ok |-> ValidateToken(GenerateToken(made), now)]
    /\ UNCHANGED <<cryptVars, gen, sealVars>>

-----------------------------------------------------------------------------
Init ==
    /\ crypt = [initialized |-> FALSE] /\ peer = None
    /\ wire = [w \in Ways |-> << >>] /\ got = [w \in Ways |-> << >>] /\ sent = [w \in Ways |-> 0]
    /\ gen = SessionKeyGenerator
    /\ data = << >> /\ sealed = None /\ opened = None
    /\ token = None

Crypt == AuthInit \/ EncryptSend \/ DecryptRecv \/ PeerSends \/ PeerReceives
Seal  == AEEncryptWithRandomIV \/ Damage \/ AEDecrypt

\* A behaviour is about one of the four.
Next ==
    \/ gen = SessionKeyGenerator /\ sealed = None /\ token = None /\ Crypt
    \/ ~crypt.initialized /\ sealed = None /\ token = None /\ Generate
    \/ ~crypt.initialized /\ gen = SessionKeyGenerator /\ token = None /\ Seal
    \/ ~crypt.initialized /\ gen = SessionKeyGenerator /\ sealed = None /\ Login

-----------------------------------------------------------------------------
(***************************************************************************)
(* Properties                                                              *)
(***************************************************************************)

\* Each side's streams are in step, whatever pieces the bytes come in and after a new
\* key too: what comes out is what was sent, in order.
StreamsInStep == \A w \in Ways : \A i \in DOMAIN got[w] : got[w][i] = i

\* The pieces in which a key is generated make no difference to it.
GeneratedInOrder ==
    \A i \in DOMAIN gen.out :
        gen.out[i] = <<(i - 1) \div DIGEST_LENGTH + 1, ((i - 1) % DIGEST_LENGTH) + 1>>

\* Sealed data opens with its key if it is intact, to what was sealed, and not else.
SealedIsOpened ==
    opened # None =>
        /\ opened.result = "true" <=> opened.intact /\ opened.key = sealed.key
        /\ opened.result = "true" => data = sealed.plain

\* A token is taken within its interval's length, and not from twice that on.
TokenWindow ==
    token # None =>
        LET apart == IF token.made < token.now THEN token.now - token.made ELSE token.made - token.now
        IN /\ apart <= TOTP_INTERVAL => token.ok
           /\ apart >= 2 * TOTP_INTERVAL => ~token.ok

\* What one side of a cipher makes, the other side takes.
CiphersAgree == StreamsInStep /\ GeneratedInOrder /\ SealedIsOpened /\ TokenWindow
=============================================================================
