--------------------------- MODULE Connections ---------------------------
(***************************************************************************)
(* The connections a user keeps (connections/models.py, forms.py,          *)
(* views.py), the encryption of their passwords (core/encryption.py,       *)
(* settings.py) and the command that looks for passwords the key no longer *)
(* fits (connections/management/commands/fix_passwords.py).                *)
(*                                                                         *)
(* A row of a connection is whether it exists and is active, and what is   *)
(* in its password column.  Its host, user, port and database are written  *)
(* together by one form and are left out.                                  *)
(***************************************************************************)
EXTENDS Naturals

CONSTANTS
  Conns,       \* connections
  Passwords,   \* what a user may type as a password
  TokenLike,   \* those of them that begin as a Fernet token does
  ProperKeys,  \* ENCRYPTION_KEY values of the right length
  MaxDeeds     \* bound: forms posted, restarts, runs of the command

ASSUME TokenLikeAssumption == TokenLike \subseteq Passwords
ASSUME LimitsAssumption == MaxDeeds \in Nat

VARIABLES
  active,    \* active[c]: "yes", "no", or "new" before there is a row, "gone" after
  secret,    \* secret[c]: the password column
  key,       \* the Fernet key of the server process
  fix,       \* fix[c]: the row that fix_passwords has listed and not done yet
  deeds,     \* what users and operators have done so far
  entered,   \* what the user entered last for a connection (history)
  outdated   \* connections over which the command saved a copy (history)

connVars ==
  <<active, secret, key, fix, deeds, entered, outdated>>

Blank == [is |-> "blank"]
ResetRequired == [is |-> "reset"]
Plain(p) == [is |-> "plain", text |-> p]
Token(k, s) == [is |-> "token", by |-> k, of |-> s]
Unreadable == [is |-> "error"]

\* A key of the wrong length is replaced by a new one, which no two processes
\* share: the number of the deed.
Keys == ProperKeys \cup (1..MaxDeeds)
KeyFrom(setting, n) == IF setting \in ProperKeys THEN setting ELSE n

Texts == {Plain(p) : p \in Passwords}
Column == {Blank, ResetRequired} \cup Texts
          \cup {Token(k, s) : k \in Keys, s \in Texts}

\* Mutant: everything is encrypted, tokens as well.
StoredAnyway(k, s) == IF s \in {Blank, ResetRequired} THEN s ELSE Token(k, s)

\* DatabaseConnection.save: what does not look encrypted is encrypted.
LooksEncrypted(s) ==
  s.is = "token" \/ (s.is = "plain" /\ s.text \in TokenLike)
Stored(k, s) ==
  IF s \in {Blank, ResetRequired} \/ LooksEncrypted(s) THEN s ELSE Token(k, s)

\* EncryptionService.decrypt: None for nothing, an error for a foreign token.
Decrypted(k, s) ==
  IF s = Blank THEN Blank
  ELSE IF s.is = "token" /\ s.by = k THEN s.of ELSE Unreadable

\* get_decrypted_password.
PasswordOf(k, s) == IF s = ResetRequired \/ s = Blank THEN Unreadable
                                                       ELSE Decrypted(k, s)

Rows == {"new", "yes", "no", "gone"}

\* A row as the command has read it, with the key and the option it runs with.
Listed == [key : Keys, force : BOOLEAN, active : Rows, secret : Column]
NotListed == [is |-> "not listed"]

ConnTypeOK ==
  /\ active \in [Conns -> Rows]
  /\ secret \in [Conns -> Column]
  /\ key \in Keys
  /\ fix \in [Conns -> Listed \cup {NotListed}]
  /\ deeds \in 0..MaxDeeds
  /\ entered \in [Conns -> Texts \cup {Blank}]
  /\ outdated \subseteq Conns

\* Connections exist, each with the password its user has typed, which has
\* been encrypted, or are yet to be created.
ConnInit ==
  /\ key \in ProperKeys
  /\ active \in [Conns -> {"new", "yes"}]
  /\ entered \in [Conns -> {Plain(p) : p \in Passwords \ TokenLike} \cup {Blank}]
  /\ \A c \in Conns : entered[c] = Blank <=> active[c] = "new"
  /\ secret = [c \in Conns |-> Stored(key, entered[c])]
  /\ fix = [c \in Conns |-> NotListed]
  /\ deeds = 0
  /\ outdated = {}

Exists(c) == active[c] \in {"yes", "no"}

Deed ==
  /\ deeds < MaxDeeds
  /\ deeds' = deeds + 1

\* ConnectionCreateView or ConnectionUpdateView: the form writes all fields and,
\* posted, never takes a blank password.
Enter(c, p, a) ==
  /\ Deed
  /\ active[c] # "gone"
  /\ active' = [active EXCEPT ![c] = a]
  /\ secret' = [secret EXCEPT ![c] = Stored(key, Plain(p))]
  /\ entered' = [entered EXCEPT ![c] = Plain(p)]
  /\ outdated' = outdated \ {c}
  /\ UNCHANGED <<key, fix>>

\* ConnectionDeleteView.
Delete(c) ==
  /\ Deed
  /\ Exists(c)
  /\ active' = [active EXCEPT ![c] = "gone"]
  /\ UNCHANGED <<secret, key, fix, entered, outdated>>

\* The server starts again and makes its Fernet from the setting it finds.
Restart(setting) ==
  /\ Deed
  /\ key' = KeyFrom(setting, deeds')
  /\ UNCHANGED <<active, secret, fix, entered, outdated>>

\* fix_passwords lists all rows, in a process with a key of its own.
FixStart(setting, force) ==
  /\ Deed
  /\ \A c \in Conns : fix[c] = NotListed
  /\ fix' = [c \in Conns |->
       IF Exists(c) THEN [key |-> KeyFrom(setting, deeds'), force |-> force,
                          active |-> active[c], secret |-> secret[c]]
                    ELSE NotListed]
  /\ UNCHANGED <<active, secret, key, entered, outdated>>

\* A password the command cannot read is replaced in the row by a marker.
FixMark(c) ==
  /\ fix[c] # NotListed
  /\ Decrypted(fix[c].key, fix[c].secret) = Unreadable
  /\ fix' = [fix EXCEPT ![c] = NotListed]
  /\ secret' = IF Exists(c) THEN [secret EXCEPT ![c] = ResetRequired] ELSE secret
  /\ UNCHANGED <<active, key, deeds, entered, outdated>>

\* One it can read is left alone, or with --force encrypted once more and
\* saved with the row as it was listed, which brings a deleted one back.
\* A blank one becomes None, which the database refuses.
FixRead(c) ==
  LET row == fix[c]
      read == Decrypted(row.key, row.secret) IN
  /\ row # NotListed
  /\ read # Unreadable
  /\ fix' = [fix EXCEPT ![c] = NotListed]
  /\ IF row.force /\ read # Blank
       THEN /\ secret' = [secret EXCEPT ![c] = Stored(row.key, Token(row.key, read))]
            /\ active' = [active EXCEPT ![c] = row.active]
            /\ outdated' = IF secret[c] = row.secret
                             THEN outdated ELSE outdated \cup {c}
       ELSE UNCHANGED <<secret, active, outdated>>
  /\ UNCHANGED <<key, deeds, entered>>

Settings == ProperKeys \cup {"short"}

ConnNext ==
  \/ \E c \in Conns, p \in Passwords, a \in {"yes", "no"} : Enter(c, p, a)
  \/ \E c \in Conns : Delete(c) \/ FixMark(c) \/ FixRead(c)
  \/ \E s \in Settings :
       Restart(s) \/ \E force \in BOOLEAN : FixStart(s, force)

(***************************************************************************)
(* A connection is never opened with a wrong password: what get_decrypted_ *)
(* password returns is what the user entered last, or an error, whatever   *)
(* keys the server and the command have been started with.  Connections    *)
(* whose row the command has written over with an older copy are excepted. *)
(***************************************************************************)
NeverWrong ==
  \A c \in Conns : Exists(c) /\ c \notin outdated =>
    PasswordOf(key, secret[c]) \in {Unreadable, entered[c]}
=============================================================================
