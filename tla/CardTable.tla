----------------------------- MODULE CardTable -----------------------------
(* The table `cards` of GO_RFID/db2.go, as operators on a sequence of rows.  *)
(* The order of the sequence is the rowid order, in which SQLite answers a   *)
(* query that has no ORDER BY.  Each operator is one SQL statement; SQLite   *)
(* executes a statement atomically, so each is used by one step of a handler.*)
(* Rows are never deleted.                                                   *)
EXTENDS Naturals, Sequences

CONSTANTS
    Uids,            \* UIDs of the physical cards
    Keys,            \* one-time card keys (15 random bytes each)
    Passwords,       \* what a user can type
    TestingPassword  \* "@Testing_password", hard-coded in https_server.go

ASSUME TestingPasswordAssumption == TestingPassword \in Passwords

(* sha256.Sum256: only its injectivity matters, so a hash is a tagged value. *)
Sha256(password) == [sha256 |-> password]

(* generateUniqueSecretKey draws 20 random bytes: a secret is told from the  *)
(* others by the number of its row.  A TOTP code is the secret it was        *)
(* computed from; 0 is a code computed from no secret of the table.          *)
Secrets == Nat \ {0}
Codes == Nat

Row == [uid: Uids,
        hashed_password: {Sha256(p) : p \in Passwords},
        key_this_time: Keys,
        key_last_time: Keys,
        totp_secret_key: Secrets]

(* Mutant: numbered from 0.                                                  *)
SecretKeyFromZero(table) == Len(table)

generateUniqueSecretKey(table) == Len(table) + 1

(* INSERT INTO cards: both key columns get the presented key.                *)
database_register(table, uid, hash, key) ==
    Append(table, [uid |-> uid,
                   hashed_password |-> hash,
                   key_this_time |-> key,
                   key_last_time |-> key,
                   totp_secret_key |-> generateUniqueSecretKey(table)])

RowsOf(table, uid) == {i \in DOMAIN table : table[i].uid = uid}

Known(table, uid) == RowsOf(table, uid) # {}

(* db.QueryRow returns the first row the query finds.                        *)
FirstRow(table, uid) ==
    table[CHOOSE i \in RowsOf(table, uid) : \A j \in RowsOf(table, uid) : i <= j]

(* Mutant: the previous key is accepted as well.                             *)
KeyMatchesEither(table, uid, key) ==
    /\ Known(table, uid)
    /\ key \in {FirstRow(table, uid).key_this_time, FirstRow(table, uid).key_last_time}

(* database_checker, one operator per `arg`: TRUE where it returns 1.        *)
KeyMatches(table, uid, key) ==
    /\ Known(table, uid)
    /\ FirstRow(table, uid).key_this_time = key

PasswordMatches(table, uid, hash) ==
    /\ Known(table, uid)
    /\ FirstRow(table, uid).hashed_password = hash

TOTPMatches(table, uid, code) ==
    /\ Known(table, uid)
    /\ FirstRow(table, uid).totp_secret_key = code

(* Mutant: the previous key is not kept.                                     *)
UpdateThisTimeOnly(table, uid, key) ==
    [i \in DOMAIN table |->
        IF table[i].uid = uid
        THEN [table[i] EXCEPT !.key_this_time = key]
        ELSE table[i]]

(* UPDATE cards SET key_last_time = key_this_time, key_this_time = ?         *)
(* WHERE uid = ?: every row of the UID, and no error when there is none.     *)
database_updater(table, uid, key) ==
    [i \in DOMAIN table |->
        IF table[i].uid = uid
        THEN [table[i] EXCEPT !.key_last_time = table[i].key_this_time,
                              !.key_this_time = key]
        ELSE table[i]]
=============================================================================
