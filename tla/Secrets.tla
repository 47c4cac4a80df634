------------------------------ MODULE Secrets ------------------------------
(***************************************************************************)
(* The secrets among the settings are encrypted on their way to the table  *)
(* and decrypted on their way back, with a key that each start of the      *)
(* process finds anew: in the environment, in the database, or by making   *)
(* one.  A value without the prefix is taken for plaintext, one with it    *)
(* for encrypted, whoever wrote it.                                        *)
(***************************************************************************)
CONSTANTS
    Plain,      \* secrets, as an administrator enters them
    Prefixed,   \* those among them whose text begins with the prefix
    Bare,       \* the one that is nothing but the prefix
    EnvKey,     \* the key that ENCRYPTION_KEY may hold
    MadeKeys,   \* bound: the keys that may be made
    NoKey, NoSecret

Keys == {EnvKey} \cup MadeKeys
Sealed == [by : Keys, of : Plain]

ASSUME SecretConstants ==
    /\ Prefixed \subseteq Plain /\ Bare \in Prefixed
    /\ EnvKey \notin MadeKeys /\ NoKey \notin Keys
    /\ NoSecret \notin Plain \cup Sealed /\ Plain \cap Sealed = {}

VARIABLES
    key,      \* app.EncryptionKey
    dbKey,    \* table encryption_keys
    made      \* keys that have been made

keyVars == <<key, dbKey, made>>

KeysInit == key = NoKey /\ dbKey = NoKey /\ made = {}

-----------------------------------------------------------------------------
Encrypted(v) == v \notin Plain \/ v \in Prefixed

\* Mutant: a value that is encrypted already is encrypted once more.
EncryptValueAgain(v) ==
    IF key = NoKey \/ v = NoSecret \/ v \in Prefixed THEN v ELSE [by |-> key, of |-> v]

EncryptValue(v) ==
    IF key = NoKey \/ v = NoSecret \/ Encrypted(v) THEN v ELSE [by |-> key, of |-> v]

\* With another key, or if it was never encrypted, the value stays as it is; but the bare
\* prefix is taken for an encryption of nothing.
DecryptValue(k, v) ==
    IF k # NoKey /\ v = Bare THEN NoSecret
    ELSE IF v \notin Plain \cup {NoSecret} /\ v.by = k THEN v.of ELSE v

\* InitEncryptionKey: the environment's key unless there is none or it is not valid,
\* else the database's, else a new one, which may fail to be stored; or none, when the
\* table cannot be made.  A stored key that cannot be read is taken for none.
InitEncryptionKey ==
    \/ /\ key' = EnvKey
       /\ UNCHANGED <<dbKey, made>>
    \/ /\ dbKey # NoKey
       /\ key' = dbKey
       /\ UNCHANGED <<dbKey, made>>
    \/ \E k \in MadeKeys \ made :
          /\ key' = k /\ made' = made \cup {k}
          /\ dbKey' \in {k, dbKey}
    \/ /\ key' = NoKey
       /\ UNCHANGED <<dbKey, made>>
=============================================================================
