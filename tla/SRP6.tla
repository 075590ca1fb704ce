------------------------------- MODULE SRP6 -------------------------------
(***************************************************************************)
(* SRP6: an account keeps a salt and a verifier; a login proves to the     *)
(* server that the client knows the password, and leaves both with a       *)
(* session key.  BigNumber does the arithmetic, little-endian byte arrays  *)
(* carry the numbers.  The modulus, the bytes and the arrays are small;    *)
(* SHA1 is taken to have no collisions: a digest is what was hashed.       *)
(***************************************************************************)
EXTENDS Integers, Sequences

CONSTANTS N, g,        \* modulus and generator
          Radix,       \* values of a byte
          KEY_LENGTH,  \* EPHEMERAL_KEY_LENGTH, the bytes of N
          Passwords, Salts,   \* numbers
          Exponents    \* the secrets that client and server draw

VARIABLES account,    \* what MakeRegistrationData() gave, with the password (history)
          srp,        \* the server's SRP6 object
          response,   \* what the client sent, with its password and key (history)
          outcome     \* of VerifyChallengeResponse()

vars == <<account, srp, response, outcome>>

None == [none |-> TRUE]

Init == account = None /\ srp = None /\ response = None /\ outcome = "none"

-----------------------------------------------------------------------------
(***************************************************************************)
(* BigNumber                                                               *)
(***************************************************************************)

\* The number in a byte array, read from its last byte, the highest, on.
SetBinary(bytes) ==
    LET v[i \in 0 .. Len(bytes)] ==
            IF i = 0 THEN 0 ELSE v[i - 1] * Radix + bytes[Len(bytes) + 1 - i]
    IN v[Len(bytes)]

\* What is left of a number behind its first bytes.  GetBytes() asserts that nothing is.
Rest(n, size) ==
    LET q[i \in 0 .. size] == IF i = 0 THEN n ELSE q[i - 1] \div Radix
    IN q[size]
Fits(n, size) == Rest(n, size) = 0
GetBytes(n, size) == [i \in 1 .. size |-> Rest(n, i - 1) % Radix]

ModExp(b, e, m) ==
    LET p[i \in 0 .. e] == IF i = 0 THEN 1 % m ELSE (p[i - 1] * b) % m
    IN p[e]

-----------------------------------------------------------------------------
(***************************************************************************)
(* SHA1, and what is computed with it                                      *)
(***************************************************************************)

\* The numbers that the digests of a salt with a password, and of A with B, stand for.
PasswordHash(salt, password) == 5 * salt + 3 * password + 1
ScrambleHash(A, B) == (SetBinary(A) + 2 * SetBinary(B)) % 7

\* v = g ^ H(s || H(u || ':' || p)) mod N
CalculateVerifier(password, salt) ==
    GetBytes(ModExp(g, PasswordHash(salt, password), N), KEY_LENGTH)

CheckLogin(password, salt, verifier) == verifier = CalculateVerifier(password, salt)

\* The two halves of the bytes, from the first pair on that starts with a byte other
\* than zero: an odd number of zeros takes the byte behind them along.
SHA1Interleave(S) ==
    LET zeros == CHOOSE p \in 0 .. KEY_LENGTH :
                    /\ \A i \in 1 .. p : S[i] = 0
                    /\ p < KEY_LENGTH => S[p + 1] # 0
        p == (zeros + (zeros % 2)) \div 2
        half(k) == [i \in 1 .. KEY_LENGTH \div 2 |-> S[2 * (i - 1) + k]]
    IN <<SubSeq(half(1), p + 1, KEY_LENGTH \div 2), SubSeq(half(2), p + 1, KEY_LENGTH \div 2)>>

\* Mutant of EphemeralB: the factor 3 is left out.
EphemeralBPlain(b, v) == GetBytes((ModExp(g, b, N) + v) % N, KEY_LENGTH)

\* _B(): B = 3v + g^b
EphemeralB(b, v) == GetBytes((ModExp(g, b, N) + v * 3) % N, KEY_LENGTH)

\* M, the proof of the key.
Proof(salt, A, B, K) == <<salt, A, B, K>>

-----------------------------------------------------------------------------
(***************************************************************************)
(* The account and a login                                                 *)
(***************************************************************************)
MakeRegistrationData ==
    /\ account = None
    /\ \E password \in Passwords, salt \in Salts :
        account' = [password |-> password, salt |-> salt,
                    verifier |-> CalculateVerifier(password, salt)]
    /\ UNCHANGED <<srp, response, outcome>>

\* The constructor, whose salt and B go to the client.
Construct ==
    /\ account # None /\ srp = None
    /\ \E b \in Exponents :
        srp' = [b |-> b, v |-> SetBinary(account.verifier), s |-> account.salt, used |-> FALSE,
                B |-> EphemeralB(b, SetBinary(account.verifier))]
    /\ UNCHANGED <<account, response, outcome>>

\* A client (external) with some password answers as the protocol says.
ClientKey(password, salt, B, a) ==
    LET x == PasswordHash(salt, password)
        A == GetBytes(ModExp(g, a, N), KEY_LENGTH)
        base == (SetBinary(B) + N * 3 - 3 * ModExp(g, x, N)) % N
    IN SHA1Interleave(GetBytes(ModExp(base, a + ScrambleHash(A, B) * x, N), KEY_LENGTH))
Respond ==
    /\ srp # None /\ response = None
    /\ \E password \in Passwords, a \in Exponents :
        LET A == GetBytes(ModExp(g, a, N), KEY_LENGTH)
            K == ClientKey(password, srp.s, srp.B, a)
        IN response' = [password |-> password, A |-> A, K |-> K, M |-> Proof(srp.s, A, srp.B, K)]
    /\ UNCHANGED <<account, srp, outcome>>

\* Or it sends a number that is a multiple of N.
RespondZero ==
    /\ srp # None /\ response = None
    /\ \E n \in {0, N} :
        LET A == GetBytes(n, KEY_LENGTH)
            K == SHA1Interleave(GetBytes(0, KEY_LENGTH))
        IN response' = [password |-> account.password, A |-> A, K |-> K,
                        M |-> Proof(srp.s, A, srp.B, K)]
    /\ UNCHANGED <<account, srp, outcome>>

\* S = (A * v^u) ^ b mod N
Premaster(A) ==
    ModExp(SetBinary(A) * ModExp(srp.v, ScrambleHash(A, srp.B), N), srp.b, N)

\* An object verifies once; a second call is stopped by ASSERT.
VerifyChallengeResponse ==
    /\ response # None
    /\ IF srp.used
       THEN outcome' = "assert" /\ UNCHANGED srp
       ELSE LET K == SHA1Interleave(GetBytes(Premaster(response.A), KEY_LENGTH)) IN
            /\ srp' = [b |-> srp.b, v |-> srp.v, s |-> srp.s, used |-> TRUE, B |-> srp.B]
            /\ outcome' = IF /\ SetBinary(response.A) % N # 0
                             /\ Proof(srp.s, response.A, srp.B, K) = response.M
                          THEN "key" ELSE "refused"
    /\ UNCHANGED <<account, response>>

Next == MakeRegistrationData \/ Construct \/ Respond \/ RespondZero \/ VerifyChallengeResponse

-----------------------------------------------------------------------------
(***************************************************************************)
(* Properties                                                              *)
(***************************************************************************)

\* Client and server come to the same key, along their different ways, when the client
\* knows the password, whatever secrets they drew; then its response is taken, and
\* with another key, or a multiple of N for A, it is not.  Every number fits its array.
KeysAgree ==
    /\ srp # None => Fits(srp.v, KEY_LENGTH) /\ Fits(N, KEY_LENGTH)
    /\ outcome \in {"key", "refused"} =>
        LET zero == SetBinary(response.A) % N = 0
            K == SHA1Interleave(GetBytes(Premaster(response.A), KEY_LENGTH))
        IN /\ outcome = "key" <=> ~zero /\ K = response.K
           /\ CheckLogin(response.password, account.salt, account.verifier) /\ ~zero
                => outcome = "key"
=============================================================================
