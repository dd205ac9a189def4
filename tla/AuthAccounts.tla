---------------------------- MODULE AuthAccounts ----------------------------
(***************************************************************************)
(* The auth server's requests on accounts, passwords and TOTP, and the     *)
(* tables accounts, account_bans and account_totps.  The queries by which  *)
(* a login replaces the account's session are in LobbySession.             *)
(*                                                                         *)
(* A step is one query together with the local checks that follow it.  The *)
(* queries of the requests of different connections interleave: there are  *)
(* no transactions, and a request acts on the rows it has read.  A refusal *)
(* only changes what the connection is doing.                              *)
(*                                                                         *)
(* Secrets and recovery codes are drawn at random: here they are numbers   *)
(* that never repeat.  A client presents no code, or one that was sent in  *)
(* an answer: the number of a secret stands for a current code of it.  A   *)
(* lost answer is one whose code is never presented.                       *)
(***************************************************************************)
EXTENDS Naturals, FiniteSets

CONSTANTS
    Connections,
    Names,          \* user names as a client may send them
    Passwords,      \* passwords as a client may send them
    NoPassword,     \* there is no such account
    TrimSpace,      \* what is left of a name or a password
    LongEnough,     \* the texts of the minimal length or more
    AccountCreationEnabled,
    MaxCodes        \* bound: secrets and recovery codes ever drawn

ASSUME AccountsAssumption ==
    /\ Names # {} /\ Passwords # {}
    /\ TrimSpace \in [Names \cup Passwords -> Names \cup Passwords]
    /\ \A n \in Names : TrimSpace[n] \in Names
    /\ \A p \in Passwords : TrimSpace[p] \in Passwords
    /\ NoPassword \notin Passwords
    /\ AccountCreationEnabled \in BOOLEAN
    /\ MaxCodes \in Nat

VARIABLES
    accounts,       \* the password of each account
    bans,           \* accounts whose ban has not run out
    totps,          \* the TOTP row of each account
    drawn,          \* how many codes have been drawn
    answered,       \* codes that were sent to a client
    created,        \* how many creations of each name were answered with success
    request,        \* the request each connection is in
    held            \* the checks of it that were true at some moment of it

tables == <<accounts, bans, totps>>
codes == <<drawn, answered>>
vars == <<tables, codes, created, request, held>>

Codes == 1..MaxCodes
NoCode == 0

TOTPRow == [secret : Codes \cup {NoCode}, recovery : Codes \cup {NoCode},
            validated : BOOLEAN]

\* What a query that finds no row leaves in the variable.
NoRow == [secret |-> NoCode, recovery |-> NoCode, validated |-> FALSE]

\* create-account and, with the account looked up by name, the others.
Kinds == {"login", "change", "create_totp", "verify", "remove", "regenerate"}

Request ==
    [kind : Kinds \cup {"create_account", "none"},
     pc : {"idle", "ban", "totp", "write", "insert"},
     name : Names, password : Passwords, new : Passwords,
     otp : Codes \cup {NoCode},
     stored : Passwords,        \* the password read with the account
     row : TOTPRow]             \* the TOTP row read

Checks == {"password", "code", "unbanned"}

Idle ==
    [kind |-> "none", pc |-> "idle", name |-> CHOOSE n \in Names : TRUE,
     password |-> CHOOSE p \in Passwords : TRUE,
     new |-> CHOOSE p \in Passwords : TRUE,
     otp |-> NoCode, stored |-> CHOOSE p \in Passwords : TRUE, row |-> NoRow]

\* Type correctness of the tables, the codes and the requests in progress.
TypeOK ==
    /\ accounts \in [Names -> Passwords \cup {NoPassword}]
    /\ bans \subseteq Names
    /\ totps \in [Names -> TOTPRow]
    /\ drawn \in 0..MaxCodes
    /\ answered \subseteq 1..drawn
    /\ created \in [Names -> Nat]
    /\ request \in [Connections -> Request]
    /\ held \in [Connections -> SUBSET Checks]

Init ==
    /\ accounts = [n \in Names |-> NoPassword]
    /\ bans = {}
    /\ totps = [n \in Names |-> NoRow]
    /\ drawn = 0 /\ answered = {}
    /\ created = [n \in Names |-> 0]
    /\ request = [c \in Connections |-> Idle]
    /\ held = [c \in Connections |-> {}]

Exists(n) == accounts[n] # NoPassword
HasTOTP(n) == totps[n] # NoRow

\* A request goes on, or is answered and forgotten.
Continue(c, r) == request' = [request EXCEPT ![c] = r]
Answer(c) == request' = [request EXCEPT ![c] = Idle]
At(c, pc) == request[c].pc = pc
Is(c, kind) == request[c].kind = kind

\* A code leaves in an answer.
Tell(code) == answered' = answered \cup {code}

-----------------------------------------------------------------------------
(* create-account                                                          *)

\* The query for the trimmed name; a name or a password that is too short
\* is refused before it, a name in use after it.
CheckAccountExists(c, name, password) ==
    /\ AccountCreationEnabled
    /\ TrimSpace[name] \in LongEnough /\ TrimSpace[password] \in LongEnough
    /\ ~Exists(TrimSpace[name])
    /\ Continue(c, [Idle EXCEPT !.kind = "create_account", !.pc = "insert",
            !.name = TrimSpace[name], !.password = TrimSpace[password]])
    /\ UNCHANGED <<tables, codes, created>>

\* Mutant: no unique index on the name, the earlier query must do.
NoUniqueIndex(n) == TRUE

\* The unique index on the name.
NameIsFree(n) == ~Exists(n)

InsertAccount(c) ==
    LET r == request[c] IN
    /\ At(c, "insert") /\ Is(c, "create_account")
    /\ NameIsFree(r.name)
    /\ accounts' = [accounts EXCEPT ![r.name] = r.password]
    /\ created' = [created EXCEPT ![r.name] = @ + 1]
    /\ Answer(c)
    /\ UNCHANGED <<bans, totps, codes>>

-----------------------------------------------------------------------------
(* The checks that the other requests share                                *)

\* What a request does not look at is left out of it.
Presented(kind, password, new, otp) ==
    /\ kind # "change" => new = Idle.new
    /\ kind \in {"create_totp", "verify"} => password = Idle.password
    /\ kind = "create_totp" => otp = NoCode

\* The account is looked up by the name as it was sent; an unknown one is
\* refused, and so is, before that, a new password that is too short.
GetAccountByUsername(c, kind, name, password, new, otp) ==
    /\ Presented(kind, password, new, otp)
    /\ kind = "change" => TrimSpace[new] \in LongEnough
    /\ Exists(name)
    /\ Continue(c, [kind |-> kind, pc |-> "ban", name |-> name,
            password |-> password, new |-> new, otp |-> otp,
            stored |-> accounts[name], row |-> NoRow])
    /\ UNCHANGED <<tables, codes, created>>

\* create-totp and verify-totp go by the name alone.
ComparesPassword(kind) == kind \in {"login", "change", "remove", "regenerate"}

\* Mutant: a failing query counts as an account without a ban.
NotBannedOrUnknown(n) == TRUE

NotBanned(n) == n \notin bans

\* Mutant: the comparison with the password is left out.
CheckBanOnly(c) ==
    LET r == request[c] IN
    /\ At(c, "ban")
    /\ IF NotBanned(r.name)
       THEN Continue(c, [r EXCEPT !.pc = "totp", !.password = Idle.password,
                                  !.stored = Idle.stored])
       ELSE Answer(c)
    /\ UNCHANGED <<tables, codes, created>>

\* IsAccountBanned, then the comparison with the password read before;
\* neither password is used after it.
CheckBan(c) ==
    LET r == request[c] IN
    /\ At(c, "ban")
    /\ IF /\ NotBanned(r.name)
          /\ ComparesPassword(r.kind) => r.password = r.stored
       THEN Continue(c, [r EXCEPT !.pc = "totp", !.password = Idle.password,
                                  !.stored = Idle.stored])
       ELSE Answer(c)
    /\ UNCHANGED <<tables, codes, created>>

\* Mutant: a recovery code does for any request, a validated row or not.
AcceptsAnyRow(kind, row, otp) ==
    CASE kind \in {"login", "change"} -> row.validated => otp = row.secret
      [] kind = "create_totp" -> row = NoRow
      [] kind = "verify" -> row # NoRow /\ ~row.validated /\ otp = row.secret
      [] OTHER -> row # NoRow /\ otp \in {row.secret, row.recovery}

\* Whether a request may go on with a TOTP row and the code it presented.
\* create-totp only counts the rows.
Accepts(kind, row, otp) ==
    CASE kind \in {"login", "change"} -> row.validated => otp = row.secret
      [] kind = "create_totp" -> row = NoRow
      [] kind = "verify" -> row # NoRow /\ ~row.validated /\ otp = row.secret
      [] OTHER -> row.validated /\ otp \in {row.secret, row.recovery}

\* What a request still needs once its checks are done: verify and
\* regenerate write the row they have read back.
Proceed(r, row) ==
    [Idle EXCEPT !.kind = r.kind, !.pc = "write", !.name = r.name,
        !.new = r.new,
        !.row = IF r.kind \in {"verify", "regenerate"} THEN row ELSE NoRow]

\* Mutant: a query that fails leaves the same variable as one without a row.
CheckTOTPForgetful(c) ==
    LET r == request[c] IN
    /\ At(c, "totp")
    /\ \E row \in {totps[r.name], NoRow} :
            IF Accepts(r.kind, row, r.otp)
            THEN Continue(c, Proceed(r, row)) ELSE Answer(c)
    /\ UNCHANGED <<tables, codes, created>>

\* GetAccountTOTPByAccountID or AccountHasTOTPEnabled, then the checks.
CheckTOTP(c) ==
    LET r == request[c]
        row == totps[r.name] IN
    /\ At(c, "totp")
    /\ IF Accepts(r.kind, row, r.otp)
       THEN Continue(c, Proceed(r, row)) ELSE Answer(c)
    /\ UNCHANGED <<tables, codes, created>>

\* Any query may fail, and the server may stop between two of them.
QueryFails(c) ==
    /\ ~At(c, "idle")
    /\ Answer(c)
    /\ UNCHANGED <<tables, codes, created>>

-----------------------------------------------------------------------------
(* attempt-login, change-password                                          *)

\* From here a login replaces the account's session, and answers.
CompleteLogin(c) ==
    /\ At(c, "write") /\ Is(c, "login")
    /\ Answer(c)
    /\ UNCHANGED <<tables, codes, created>>

\* The new password is stored as it was sent, not trimmed.
UpdateAccount(c) ==
    LET r == request[c] IN
    /\ At(c, "write") /\ Is(c, "change")
    /\ accounts' = [accounts EXCEPT ![r.name] = r.new]
    /\ Answer(c)
    /\ UNCHANGED <<bans, totps, codes, created>>

-----------------------------------------------------------------------------
(* create-totp, verify-totp, remove-totp, regenerate-recovery              *)

\* Mutant: no recovery code is drawn.
NewRowWithoutRecovery(secret, recovery) ==
    [secret |-> secret, recovery |-> NoCode, validated |-> FALSE]

NewRow(secret, recovery) ==
    [secret |-> secret, recovery |-> recovery, validated |-> FALSE]

\* The account id is the primary key; the answer holds the secret only.
CreateAccountTOTP(c) ==
    LET n == request[c].name IN
    /\ At(c, "write") /\ Is(c, "create_totp")
    /\ ~HasTOTP(n)
    /\ drawn + 2 <= MaxCodes
    /\ drawn' = drawn + 2
    /\ totps' = [totps EXCEPT ![n] = NewRow(drawn + 1, drawn + 2)]
    /\ Tell(drawn + 1)
    /\ Answer(c)
    /\ UNCHANGED <<accounts, bans, created>>

\* Every column is written; without a row the query changes nothing and
\* succeeds all the same.
UpdateAccountTOTP(n, row) ==
    totps' = IF HasTOTP(n) THEN [totps EXCEPT ![n] = row] ELSE totps

VerifyTOTP(c) ==
    LET r == request[c] IN
    /\ At(c, "write") /\ Is(c, "verify")
    /\ UpdateAccountTOTP(r.name, [r.row EXCEPT !.validated = TRUE])
    /\ Tell(r.row.recovery)
    /\ Answer(c)
    /\ UNCHANGED <<accounts, bans, drawn, created>>

DeleteAccountTOTP(c) ==
    LET r == request[c] IN
    /\ At(c, "write") /\ Is(c, "remove")
    /\ totps' = [totps EXCEPT ![r.name] = NoRow]
    /\ Answer(c)
    /\ UNCHANGED <<accounts, bans, codes, created>>

\* Mutant: the answer holds the recovery code that was read.
RegenerateRecoveryTellsOld(c) ==
    LET r == request[c] IN
    /\ At(c, "write") /\ Is(c, "regenerate")
    /\ drawn < MaxCodes
    /\ drawn' = drawn + 1
    /\ UpdateAccountTOTP(r.name, [r.row EXCEPT !.recovery = drawn + 1])
    /\ Tell(r.row.recovery)
    /\ Answer(c)
    /\ UNCHANGED <<accounts, bans, created>>

RegenerateRecovery(c) ==
    LET r == request[c] IN
    /\ At(c, "write") /\ Is(c, "regenerate")
    /\ drawn < MaxCodes
    /\ drawn' = drawn + 1
    /\ UpdateAccountTOTP(r.name, [r.row EXCEPT !.recovery = drawn + 1])
    /\ Tell(drawn + 1)
    /\ Answer(c)
    /\ UNCHANGED <<accounts, bans, created>>

-----------------------------------------------------------------------------
(* What others do to the tables                                            *)

Ban(n) ==
    /\ Exists(n)
    /\ bans' = bans \cup {n}
    /\ UNCHANGED <<accounts, totps, codes, created, request>>

BanRunsOut(n) ==
    /\ bans' = bans \ {n}
    /\ UNCHANGED <<accounts, totps, codes, created, request>>

-----------------------------------------------------------------------------

\* The checks that a request would pass right now.
Pass(r, stored, row, banned) ==
    (IF r.pc = "ban" /\ r.password = stored THEN {"password"} ELSE {})
        \cup (IF Accepts(r.kind, row, r.otp) THEN {"code"} ELSE {})
        \cup (IF r.name \notin banned THEN {"unbanned"} ELSE {})

\* held collects them until the request has made its checks.
Observe ==
    held' = [c \in Connections |->
        IF request'[c].kind \notin Kinds THEN {}
        ELSE IF request'[c].pc = "write" THEN held[c]
        ELSE held[c] \cup Pass(request'[c], accounts'[request'[c].name],
                               totps'[request'[c].name], bans')]

parseIncomingRequest(c) ==
    /\ At(c, "idle")
    /\ \E name \in Names, password \in Passwords :
        \/ CheckAccountExists(c, name, password)
        \/ \E kind \in Kinds, new \in Passwords,
              otp \in answered \cup {NoCode} :
                GetAccountByUsername(c, kind, name, password, new, otp)

Handle(c) ==
    \/ parseIncomingRequest(c)
    \/ InsertAccount(c)
    \/ CheckBan(c) \/ CheckTOTP(c) \/ QueryFails(c)
    \/ CompleteLogin(c) \/ UpdateAccount(c)
    \/ CreateAccountTOTP(c) \/ VerifyTOTP(c) \/ DeleteAccountTOTP(c)
    \/ RegenerateRecovery(c)

Others == \E n \in Names : Ban(n) \/ BanRunsOut(n)

Next == (Others \/ \E c \in Connections : Handle(c)) /\ Observe

Spec == Init /\ [][Next]_vars

-----------------------------------------------------------------------------
(* Properties.                                                             *)

Acting(c) == request[c].pc = "write"

\* A request that goes on to write presented the password the account had
\* at some moment of the request, although the row was read two queries ago
\* and another connection may have changed it since.
PasswordProven ==
    \A c \in Connections :
        Acting(c) /\ ComparesPassword(request[c].kind)
            => "password" \in held[c]

\* Nobody logs in, changes a password, removes TOTP or replaces a recovery
\* code without the second factor, unless the account had none (or, to
\* create or verify one, had the row this calls for) at some moment of the
\* request: a failed query never passes for an absent row.
SecondFactorProven ==
    \A c \in Connections : Acting(c) => "code" \in held[c]

\* A ban in force while a request comes in, and until it writes, stops it.
BanRespected ==
    \A c \in Connections : Acting(c) => "unbanned" \in held[c]

\* A client can use what protects its account: the secret and the recovery
\* code of a validated row were both sent to a client, although they are
\* sent by different requests and whichever rows are written back late.
ValidatedIsUsable ==
    \A n \in Names : totps[n].validated =>
        totps[n].secret \in answered /\ totps[n].recovery \in answered

\* Protection once validated only ends with a remove request: a row that is
\* written back late, or created twice, does not undo the validation.
ProtectionStays ==
    [][\A n \in Names : totps[n].validated /\ ~totps'[n].validated =>
        \E c \in Connections : /\ Is(c, "remove") /\ At(c, "write")
                               /\ request[c].name = n /\ request'[c] = Idle]_vars

\* At most one client is told that it has created an account of a name: the
\* password in the table is its own, or one that a change request put there.
CreatedOnce == \A n \in Names : created[n] <= 1
=============================================================================
