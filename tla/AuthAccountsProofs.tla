-------------------------- MODULE AuthAccountsProofs --------------------------
(***************************************************************************)
(* Theorems about AuthAccounts, for any connections, names, passwords and  *)
(* number of codes.                                                        *)
(***************************************************************************)
EXTENDS AuthAccounts, TLAPS

\* The codes of a row, if there is one, have been drawn.
Drawn(row, n) ==
    row = NoRow \/ (row.secret \in 1..n /\ row.recovery \in 1..n)

Checking(r) == r.pc \in {"ban", "totp", "write"}

WritesBack(r) == r.pc = "write" /\ r.kind \in {"verify", "regenerate"}

\* The tables and what a request that writes a row back has of it.
CodesInv ==
    /\ \A n \in Names : Drawn(totps[n], drawn)
    /\ \A c \in Connections :
        /\ Checking(request[c]) => request[c].kind \in Kinds
        /\ Drawn(request[c].row, drawn)
        /\ WritesBack(request[c]) => request[c].row # NoRow

TypeInv == TypeOK /\ CodesInv

\* held has, of every check, what makes request r pass it; row is the row of
\* its account.
Kept(r, has, row, banned) ==
    /\ r.pc = "ban" =>
        /\ r.password = r.stored => "password" \in has
        /\ r.name \notin banned => "unbanned" \in has
    /\ r.pc \in {"ban", "totp"} =>
        (Accepts(r.kind, row, r.otp) => "code" \in has)
    /\ r.pc \in {"totp", "write"} =>
        /\ ComparesPassword(r.kind) => "password" \in has
        /\ "unbanned" \in has
    /\ r.pc = "write" => "code" \in has

HeldInv ==
    \A c \in Connections :
        Kept(request[c], held[c], totps[request[c].name], bans)

\* A client has the secret of every row, and the recovery code of a row that
\* is validated or about to be replaced by one that is.
Told(row, codesTold) ==
    /\ row # NoRow => row.secret \in codesTold
    /\ row.validated => row.recovery \in codesTold

ToldInv ==
    /\ \A n \in Names : Told(totps[n], answered)
    /\ \A c \in Connections : WritesBack(request[c]) =>
        /\ Told(request[c].row, answered)
        /\ request[c].kind = "regenerate" => request[c].row.validated

NamesInv ==
    \A n \in Names : /\ created[n] <= 1
                     /\ accounts[n] = NoPassword => created[n] = 0

-----------------------------------------------------------------------------
(* Types.                                                                  *)

LEMMA IdleType ==
    /\ Idle \in Request
    /\ Idle.kind = "none" /\ Idle.pc = "idle" /\ Idle.row = NoRow
    /\ NoRow \in TOTPRow /\ NoRow.validated = FALSE
<1>1. NoRow \in TOTPRow /\ NoRow.validated = FALSE
  BY DEF NoRow, TOTPRow, NoCode
<1>2. (CHOOSE n \in Names : TRUE) \in Names
  BY AccountsAssumption
<1>3. (CHOOSE p \in Passwords : TRUE) \in Passwords
  BY AccountsAssumption
<1>. QED BY <1>1, <1>2, <1>3 DEF Idle, Request, NoCode

LEMMA InitType == Init => TypeInv
<1>. SUFFICES ASSUME Init PROVE TypeInv
  OBVIOUS
<1>1. \A c \in Connections : request[c] = Idle
  BY DEF Init
<1>2. TypeOK
  BY IdleType, AccountsAssumption DEF Init, TypeOK
<1>3. CodesInv
  BY <1>1, IdleType DEF Init, CodesInv, Drawn, Checking, WritesBack
<1>. QED BY <1>2, <1>3 DEF TypeInv

\* The requests after a step of connection c.
LEMMA RequestStep ==
    ASSUME TypeOK, NEW c \in Connections, NEW r \in Request, Continue(c, r)
    PROVE  /\ request' \in [Connections -> Request]
           /\ request'[c] = r
           /\ \A d \in Connections \ {c} : request'[d] = request[d]
BY DEF TypeOK, Continue

LEMMA PassType ==
    ASSUME NEW r, NEW stored, NEW row, NEW banned
    PROVE  Pass(r, stored, row, banned) \subseteq Checks
BY DEF Pass, Checks

LEMMA HeldType == TypeOK /\ Observe => held' \in [Connections -> SUBSET Checks]
<1>. SUFFICES ASSUME TypeOK, Observe PROVE held' \in [Connections -> SUBSET Checks]
  OBVIOUS
<1>1. \A c \in Connections : held[c] \subseteq Checks
  BY DEF TypeOK
<1>. QED BY <1>1, PassType DEF Observe

LEMMA DrawnGrows ==
    ASSUME NEW row, NEW m \in Nat, NEW n \in Nat, m <= n, Drawn(row, m)
    PROVE  Drawn(row, n)
BY DEF Drawn

\* What a step that goes on with request r must show of types and codes; the
\* rows and the codes in use only grow by what it draws.
LEMMA TypeSuffices ==
    ASSUME TypeInv, Observe, NEW c \in Connections, NEW r \in Request,
           Continue(c, r), drawn' \in 0..MaxCodes, drawn <= drawn',
           accounts' \in [Names -> Passwords \cup {NoPassword}],
           bans' \subseteq Names, totps' \in [Names -> TOTPRow],
           answered' \subseteq 1..drawn', created' \in [Names -> Nat],
           \A n \in Names : Drawn(totps'[n], drawn'),
           Checking(r) => r.kind \in Kinds, Drawn(r.row, drawn'),
           WritesBack(r) => r.row # NoRow
    PROVE  TypeInv'
<1>1. /\ request' \in [Connections -> Request] /\ request'[c] = r
      /\ \A d \in Connections \ {c} : request'[d] = request[d]
  BY RequestStep DEF TypeInv
<1>2. TypeOK'
  BY <1>1, HeldType DEF TypeInv, TypeOK
<1>3. drawn \in Nat /\ drawn' \in Nat
  BY AccountsAssumption DEF TypeInv, TypeOK
<1>4. \A d \in Connections : Drawn(request'[d].row, drawn')
  BY <1>1, <1>3, DrawnGrows DEF TypeInv, CodesInv
<1>5. \A d \in Connections :
        /\ Checking(request'[d]) => request'[d].kind \in Kinds
        /\ WritesBack(request'[d]) => request'[d].row # NoRow
  BY <1>1 DEF TypeInv, CodesInv
<1>6. CodesInv'
  BY <1>4, <1>5 DEF CodesInv
<1>. QED BY <1>2, <1>6 DEF TypeInv

\* The same, for a step that only changes the request.
LEMMA TypeUnmoved ==
    ASSUME TypeInv, Observe, NEW c \in Connections, NEW r \in Request,
           Continue(c, r), UNCHANGED <<tables, codes, created>>,
           Checking(r) => r.kind \in Kinds, Drawn(r.row, drawn),
           WritesBack(r) => r.row # NoRow
    PROVE  TypeInv'
<1>1. /\ drawn' = drawn /\ drawn \in 0..MaxCodes /\ drawn <= drawn
      /\ \A n \in Names : Drawn(totps'[n], drawn)
  BY AccountsAssumption DEF TypeInv, TypeOK, CodesInv, tables, codes
<1>. QED BY <1>1, TypeSuffices DEF TypeInv, TypeOK, tables, codes

\* Answering is going on with no request.
LEMMA AnswerContinues ==
    ASSUME NEW c, Answer(c)
    PROVE  /\ Continue(c, Idle) /\ ~Checking(Idle) /\ ~WritesBack(Idle)
           /\ \A n : Drawn(Idle.row, n)
BY IdleType DEF Answer, Continue, Checking, WritesBack, Drawn

\* A step that answers and changes no table.
LEMMA TypeAnswered ==
    ASSUME TypeInv, Observe, NEW c \in Connections, Answer(c),
           UNCHANGED <<tables, codes, created>>
    PROVE  TypeInv'
<1>1. Continue(c, Idle) /\ ~Checking(Idle) /\ ~WritesBack(Idle) /\ Drawn(Idle.row, drawn)
  BY AnswerContinues
<1>. QED BY <1>1, IdleType, TypeUnmoved

LEMMA TypeCreateAccount ==
    ASSUME TypeInv, Observe, NEW c \in Connections, NEW name \in Names,
           NEW password \in Passwords, CheckAccountExists(c, name, password)
    PROVE  TypeInv'
<1>. DEFINE r == [Idle EXCEPT !.kind = "create_account", !.pc = "insert",
            !.name = TrimSpace[name], !.password = TrimSpace[password]]
<1>1. r \in Request /\ r.pc = "insert" /\ r.row = NoRow
  <2>1. TrimSpace[name] \in Names /\ TrimSpace[password] \in Passwords
    BY AccountsAssumption
  <2>. QED BY <2>1, IdleType DEF Request
<1>2. Continue(c, r) /\ UNCHANGED <<tables, codes, created>>
  BY DEF CheckAccountExists
<1>. HIDE DEF r
<1>3. ~Checking(r) /\ ~WritesBack(r) /\ Drawn(r.row, drawn)
  BY <1>1 DEF Checking, WritesBack, Drawn
<1>. QED BY <1>1, <1>2, <1>3, TypeUnmoved

LEMMA TypeInsertAccount ==
    ASSUME TypeInv, Observe, NEW c \in Connections, InsertAccount(c)
    PROVE  TypeInv'
<1>1. request[c] \in Request
  BY DEF TypeInv, TypeOK
<1>2. request[c].name \in Names /\ request[c].password \in Passwords
  BY <1>1 DEF Request
<1>3. accounts' \in [Names -> Passwords \cup {NoPassword}]
  BY <1>2 DEF InsertAccount, TypeInv, TypeOK
<1>4. created' \in [Names -> Nat]
  BY <1>2 DEF InsertAccount, TypeInv, TypeOK
<1>5. Continue(c, Idle) /\ ~Checking(Idle) /\ ~WritesBack(Idle) /\ Drawn(Idle.row, drawn)
  BY AnswerContinues DEF InsertAccount
<1>6. /\ drawn' = drawn /\ drawn \in 0..MaxCodes /\ drawn <= drawn
      /\ answered' = answered /\ totps' = totps /\ bans' = bans
      /\ \A n \in Names : Drawn(totps'[n], drawn)
  BY AccountsAssumption DEF TypeInv, TypeOK, CodesInv, InsertAccount, codes
<1>. QED BY <1>3, <1>4, <1>5, <1>6, IdleType, TypeSuffices DEF TypeInv, TypeOK

LEMMA TypeLookup ==
    ASSUME TypeInv, Observe, NEW c \in Connections, NEW kind \in Kinds,
           NEW name \in Names, NEW password \in Passwords, NEW new \in Passwords,
           NEW otp \in answered \cup {NoCode},
           GetAccountByUsername(c, kind, name, password, new, otp)
    PROVE  TypeInv'
<1>. DEFINE r == [kind |-> kind, pc |-> "ban", name |-> name,
            password |-> password, new |-> new, otp |-> otp,
            stored |-> accounts[name], row |-> NoRow]
<1>1. r \in Request /\ r.pc = "ban" /\ r.row = NoRow /\ r.kind \in Kinds
  <2>1. accounts[name] \in Passwords
    BY DEF GetAccountByUsername, Exists, TypeInv, TypeOK
  <2>2. otp \in Codes \cup {NoCode}
    BY AccountsAssumption DEF TypeInv, TypeOK, Codes
  <2>. QED BY <2>1, <2>2, IdleType DEF Request
<1>2. Continue(c, r) /\ UNCHANGED <<tables, codes, created>>
  BY DEF GetAccountByUsername
<1>. HIDE DEF r
<1>3. ~WritesBack(r) /\ Drawn(r.row, drawn)
  BY <1>1 DEF WritesBack, Drawn
<1>. QED BY <1>1, <1>2, <1>3, TypeUnmoved

LEMMA TypeCheckBan ==
    ASSUME TypeInv, Observe, NEW c \in Connections, CheckBan(c)
    PROVE  TypeInv'
<1>. DEFINE r == [request[c] EXCEPT !.pc = "totp", !.password = Idle.password,
                                    !.stored = Idle.stored]
<1>1. CASE Answer(c)
  BY <1>1, TypeAnswered DEF CheckBan
<1>2. CASE Continue(c, r)
  <2>1. request[c] \in Request /\ Idle \in Request
    BY IdleType DEF TypeInv, TypeOK
  <2>2. request[c].kind \in Kinds /\ Drawn(request[c].row, drawn)
    BY DEF TypeInv, CodesInv, CheckBan, At, Checking
  <2>3. /\ r \in Request /\ r.pc = "totp" /\ r.kind = request[c].kind
        /\ r.row = request[c].row
    BY <2>1 DEF Request
  <2>. HIDE DEF r
  <2>4. ~WritesBack(r) /\ Drawn(r.row, drawn) /\ r.kind \in Kinds
    BY <2>2, <2>3 DEF WritesBack
  <2>. QED BY <1>2, <2>3, <2>4, TypeUnmoved DEF CheckBan
<1>. QED BY <1>1, <1>2 DEF CheckBan

\* The row a request goes on with has been accepted.
LEMMA ProceedType ==
    ASSUME TypeOK, NEW c \in Connections, NEW row \in TOTPRow,
           request[c].kind \in Kinds
    PROVE  LET r == Proceed(request[c], row) IN
           /\ r \in Request /\ r.pc = "write" /\ r.kind = request[c].kind
           /\ r.name = request[c].name
           /\ r.row = IF r.kind \in {"verify", "regenerate"} THEN row ELSE NoRow
<1>1. request[c] \in Request
  BY DEF TypeOK
<1>. QED BY <1>1, IdleType DEF Proceed, Request, Kinds

LEMMA TypeCheckTOTP ==
    ASSUME TypeInv, Observe, NEW c \in Connections, CheckTOTP(c)
    PROVE  TypeInv'
<1>. DEFINE row == totps[request[c].name]
            r == Proceed(request[c], row)
<1>1. CASE Answer(c)
  BY <1>1, TypeAnswered DEF CheckTOTP
<1>2. CASE Accepts(request[c].kind, row, request[c].otp) /\ Continue(c, r)
  <2>1. request[c].kind \in Kinds /\ request[c].name \in Names
    BY DEF TypeInv, TypeOK, CodesInv, CheckTOTP, At, Checking, Request
  <2>2. row \in TOTPRow /\ Drawn(row, drawn)
    BY <2>1 DEF TypeInv, TypeOK, CodesInv
  <2>3. /\ r \in Request /\ r.pc = "write" /\ r.kind = request[c].kind
        /\ r.row = IF r.kind \in {"verify", "regenerate"} THEN row ELSE NoRow
    BY <2>1, <2>2, ProceedType DEF TypeInv
  <2>4. request[c].kind \in {"verify", "regenerate"} => row # NoRow
    BY <1>2, IdleType DEF Accepts
  <2>. HIDE DEF r, row
  <2>5. Drawn(r.row, drawn) /\ r.kind \in Kinds /\ (WritesBack(r) => r.row # NoRow)
    BY <2>1, <2>2, <2>3, <2>4 DEF Drawn, WritesBack
  <2>. QED BY <1>2, <2>3, <2>5, TypeUnmoved DEF CheckTOTP
<1>. QED BY <1>1, <1>2 DEF CheckTOTP

\* What a request about to write is known to be.
LEMMA ActingType ==
    ASSUME TypeInv, NEW c \in Connections, At(c, "write")
    PROVE  /\ request[c] \in Request /\ request[c].name \in Names
           /\ request[c].new \in Passwords /\ request[c].row \in TOTPRow
           /\ Drawn(request[c].row, drawn)
           /\ request[c].kind \in {"verify", "regenerate"} => request[c].row # NoRow
<1>1. request[c] \in Request
  BY DEF TypeInv, TypeOK
<1>2. /\ Drawn(request[c].row, drawn)
      /\ WritesBack(request[c]) => request[c].row # NoRow
  BY DEF TypeInv, CodesInv
<1>. QED BY <1>1, <1>2 DEF At, WritesBack, Request

LEMMA TypeUpdateAccount ==
    ASSUME TypeInv, Observe, NEW c \in Connections, UpdateAccount(c)
    PROVE  TypeInv'
<1>1. request[c].new \in Passwords
  BY ActingType DEF UpdateAccount
<1>2. accounts' \in [Names -> Passwords \cup {NoPassword}]
  BY <1>1 DEF UpdateAccount, TypeInv, TypeOK
<1>3. Continue(c, Idle) /\ ~Checking(Idle) /\ ~WritesBack(Idle) /\ Drawn(Idle.row, drawn)
  BY AnswerContinues DEF UpdateAccount
<1>4. /\ drawn' = drawn /\ drawn \in 0..MaxCodes /\ drawn <= drawn
      /\ answered' = answered /\ totps' = totps /\ bans' = bans
      /\ created' = created /\ \A n \in Names : Drawn(totps'[n], drawn)
  BY AccountsAssumption DEF TypeInv, TypeOK, CodesInv, UpdateAccount, codes
<1>. QED BY <1>2, <1>3, <1>4, IdleType, TypeSuffices DEF TypeInv, TypeOK

\* A step that answers, having written the row of one account.
LEMMA TypeRowWritten ==
    ASSUME TypeInv, Observe, NEW c \in Connections, Answer(c),
           NEW n \in Names, NEW row \in TOTPRow, Drawn(row, drawn'),
           \/ totps' = [totps EXCEPT ![n] = row]
           \/ totps' = totps,
           drawn' \in 0..MaxCodes, drawn <= drawn',
           answered' \subseteq 1..drawn', UNCHANGED <<accounts, bans, created>>
    PROVE  TypeInv'
<1>1. Continue(c, Idle) /\ ~Checking(Idle) /\ ~WritesBack(Idle) /\ Drawn(Idle.row, drawn')
  BY AnswerContinues
<1>2. drawn \in Nat /\ drawn' \in Nat
  BY AccountsAssumption DEF TypeInv, TypeOK
<1>3. totps' \in [Names -> TOTPRow]
  BY DEF TypeInv, TypeOK
<1>4. \A k \in Names : totps'[k] = totps[k] \/ totps'[k] = row
  BY DEF TypeInv, TypeOK
<1>5. \A k \in Names : Drawn(totps'[k], drawn')
  BY <1>2, <1>4, DrawnGrows DEF TypeInv, CodesInv
<1>. QED BY <1>1, <1>3, <1>5, IdleType, TypeSuffices DEF TypeInv, TypeOK

LEMMA TypeCreateTOTP ==
    ASSUME TypeInv, Observe, NEW c \in Connections, CreateAccountTOTP(c)
    PROVE  TypeInv'
<1>. DEFINE row == NewRow(drawn + 1, drawn + 2)
            n == request[c].name
<1>1. drawn \in 0..MaxCodes /\ drawn + 2 <= MaxCodes /\ drawn' = drawn + 2
      /\ MaxCodes \in Nat
  BY AccountsAssumption DEF TypeInv, TypeOK, CreateAccountTOTP
<1>2. drawn' \in 0..MaxCodes /\ drawn <= drawn'
  BY <1>1
<1>3. row \in TOTPRow /\ Drawn(row, drawn')
  <2>1. drawn + 1 \in 1..MaxCodes /\ drawn + 2 \in 1..MaxCodes
        /\ drawn + 1 \in 1..drawn + 2 /\ drawn + 2 \in 1..drawn + 2
    BY <1>1
  <2>. QED BY <1>1, <2>1 DEF NewRow, TOTPRow, Drawn, Codes
<1>4. answered' \subseteq 1..drawn'
  <2>1. answered \subseteq 1..drawn /\ answered' = answered \cup {drawn + 1}
    BY DEF TypeInv, TypeOK, CreateAccountTOTP, Tell
  <2>. QED BY <1>1, <2>1
<1>5. Answer(c) /\ totps' = [totps EXCEPT ![n] = row]
      /\ UNCHANGED <<accounts, bans, created>>
  BY DEF CreateAccountTOTP
<1>6. n \in Names
  BY ActingType DEF CreateAccountTOTP
<1>. HIDE DEF row, n
<1>. QED BY <1>2, <1>3, <1>4, <1>5, <1>6, TypeRowWritten

LEMMA TypeVerify ==
    ASSUME TypeInv, Observe, NEW c \in Connections, VerifyTOTP(c)
    PROVE  TypeInv'
<1>. DEFINE row == [request[c].row EXCEPT !.validated = TRUE]
            n == request[c].name
<1>1. /\ n \in Names /\ request[c].row \in TOTPRow
      /\ request[c].row.secret \in 1..drawn /\ request[c].row.recovery \in 1..drawn
  BY ActingType DEF VerifyTOTP, Is, Drawn
<1>2. row \in TOTPRow /\ Drawn(row, drawn)
  BY <1>1 DEF TOTPRow, Drawn
<1>3. drawn' = drawn /\ drawn \in 0..MaxCodes /\ drawn <= drawn
  BY AccountsAssumption DEF TypeInv, TypeOK, VerifyTOTP
<1>4. answered' \subseteq 1..drawn
  BY <1>1 DEF TypeInv, TypeOK, VerifyTOTP, Tell
<1>5. /\ Answer(c) /\ UNCHANGED <<accounts, bans, created>>
      /\ totps' = [totps EXCEPT ![n] = row] \/ totps' = totps
  BY DEF VerifyTOTP, UpdateAccountTOTP
<1>. HIDE DEF row, n
<1>. QED BY <1>1, <1>2, <1>3, <1>4, <1>5, TypeRowWritten

LEMMA TypeRegenerate ==
    ASSUME TypeInv, Observe, NEW c \in Connections, RegenerateRecovery(c)
    PROVE  TypeInv'
<1>. DEFINE row == [request[c].row EXCEPT !.recovery = drawn + 1]
            n == request[c].name
<1>1. /\ n \in Names /\ request[c].row \in TOTPRow
      /\ request[c].row.secret \in 1..drawn
  BY ActingType DEF RegenerateRecovery, Is, Drawn
<1>2. drawn \in 0..MaxCodes /\ drawn < MaxCodes /\ drawn' = drawn + 1
      /\ MaxCodes \in Nat
  BY AccountsAssumption DEF TypeInv, TypeOK, RegenerateRecovery
<1>3. drawn' \in 0..MaxCodes /\ drawn <= drawn'
  BY <1>2
<1>4. row \in TOTPRow /\ Drawn(row, drawn')
  <2>1. drawn + 1 \in 1..MaxCodes /\ drawn + 1 \in 1..drawn + 1
        /\ request[c].row.secret \in 1..drawn + 1
    BY <1>1, <1>2
  <2>. QED BY <1>1, <1>2, <2>1 DEF TOTPRow, Drawn, Codes
<1>5. answered' \subseteq 1..drawn'
  <2>1. answered \subseteq 1..drawn /\ answered' = answered \cup {drawn + 1}
    BY DEF TypeInv, TypeOK, RegenerateRecovery, Tell
  <2>. QED BY <1>2, <2>1
<1>6. /\ Answer(c) /\ UNCHANGED <<accounts, bans, created>>
      /\ totps' = [totps EXCEPT ![n] = row] \/ totps' = totps
  BY DEF RegenerateRecovery, UpdateAccountTOTP
<1>. HIDE DEF row, n
<1>. QED BY <1>1, <1>3, <1>4, <1>5, <1>6, TypeRowWritten

LEMMA TypeDelete ==
    ASSUME TypeInv, Observe, NEW c \in Connections, DeleteAccountTOTP(c)
    PROVE  TypeInv'
<1>1. request[c].name \in Names
  BY ActingType DEF DeleteAccountTOTP
<1>2. drawn' = drawn /\ drawn \in 0..MaxCodes /\ drawn <= drawn
      /\ answered' \subseteq 1..drawn
  BY AccountsAssumption DEF TypeInv, TypeOK, DeleteAccountTOTP, codes
<1>3. NoRow \in TOTPRow /\ Drawn(NoRow, drawn)
  BY IdleType DEF Drawn
<1>4. /\ Answer(c) /\ UNCHANGED <<accounts, bans, created>>
      /\ totps' = [totps EXCEPT ![request[c].name] = NoRow]
  BY DEF DeleteAccountTOTP
<1>. QED BY <1>1, <1>2, <1>3, <1>4, TypeRowWritten

LEMMA TypeOthers == TypeInv /\ Observe /\ Others => TypeInv'
<1>. SUFFICES ASSUME TypeInv, Observe, Others PROVE TypeInv'
  OBVIOUS
<1>1. /\ UNCHANGED <<accounts, totps, codes, created, request>>
      /\ bans' \subseteq Names
  BY DEF Others, Ban, BanRunsOut, TypeInv, TypeOK
<1>2. held' \in [Connections -> SUBSET Checks]
  BY HeldType DEF TypeInv
<1>3. TypeOK'
  BY <1>1, <1>2 DEF TypeInv, TypeOK, codes
<1>4. CodesInv'
  BY <1>1 DEF TypeInv, CodesInv, codes
<1>. QED BY <1>3, <1>4 DEF TypeInv

LEMMA TypeStep == TypeInv /\ [Next]_vars => TypeInv'
<1>. SUFFICES ASSUME TypeInv, [Next]_vars PROVE TypeInv'
  OBVIOUS
<1>1. CASE UNCHANGED vars
  BY <1>1 DEF vars, tables, codes, TypeInv, TypeOK, CodesInv
<1>2. CASE Others /\ Observe
  BY <1>2, TypeOthers
<1>3. ASSUME NEW c \in Connections, Handle(c), Observe PROVE TypeInv'
  <2>1. CASE parseIncomingRequest(c)
    BY <1>3, <2>1, TypeCreateAccount, TypeLookup DEF parseIncomingRequest
  <2>2. CASE InsertAccount(c)
    BY <1>3, <2>2, TypeInsertAccount
  <2>3. CASE CheckBan(c)
    BY <1>3, <2>3, TypeCheckBan
  <2>4. CASE CheckTOTP(c)
    BY <1>3, <2>4, TypeCheckTOTP
  <2>5. CASE QueryFails(c) \/ CompleteLogin(c)
    BY <1>3, <2>5, TypeAnswered DEF QueryFails, CompleteLogin
  <2>6. CASE UpdateAccount(c)
    BY <1>3, <2>6, TypeUpdateAccount
  <2>7. CASE CreateAccountTOTP(c)
    BY <1>3, <2>7, TypeCreateTOTP
  <2>8. CASE VerifyTOTP(c)
    BY <1>3, <2>8, TypeVerify
  <2>9. CASE DeleteAccountTOTP(c)
    BY <1>3, <2>9, TypeDelete
  <2>10. CASE RegenerateRecovery(c)
    BY <1>3, <2>10, TypeRegenerate
  <2>. QED
    BY <1>3, <2>1, <2>2, <2>3, <2>4, <2>5, <2>6, <2>7, <2>8, <2>9, <2>10 DEF Handle
<1>. QED BY <1>1, <1>2, <1>3 DEF Next

\* The tables, the requests and the codes of AuthAccounts stay well typed, for
\* any names, passwords and connections.
THEOREM TypeCorrect == Spec => []TypeOK
<1>1. Spec => []TypeInv
  BY InitType, TypeStep, PTL DEF Spec
<1>2. TypeInv => TypeOK
  BY DEF TypeInv
<1>. QED BY <1>1, <1>2, PTL

-----------------------------------------------------------------------------
(* Accounts are created once.                                              *)

LEMMA NamesStep == TypeInv /\ NamesInv /\ [Next]_vars => NamesInv'
<1>. SUFFICES ASSUME TypeInv, NamesInv, [Next]_vars PROVE NamesInv'
  OBVIOUS
<1>1. /\ accounts \in [Names -> Passwords \cup {NoPassword}]
      /\ created \in [Names -> Nat]
  BY DEF TypeInv, TypeOK
<1>2. CASE UNCHANGED <<accounts, created>>
  BY <1>2 DEF NamesInv
<1>3. ASSUME NEW c \in Connections, InsertAccount(c) PROVE NamesInv'
  <2>1. request[c].name \in Names /\ request[c].password \in Passwords
    BY DEF TypeInv, TypeOK, Request
  <2>2. /\ accounts[request[c].name] = NoPassword
        /\ accounts' = [accounts EXCEPT ![request[c].name] = request[c].password]
        /\ created' = [created EXCEPT ![request[c].name] = @ + 1]
    BY <1>3 DEF InsertAccount, NameIsFree, Exists
  <2>3. created'[request[c].name] = 1
    BY <1>1, <2>1, <2>2 DEF NamesInv
  <2>. QED BY <1>1, <2>1, <2>2, <2>3, AccountsAssumption DEF NamesInv
<1>4. ASSUME NEW c \in Connections, UpdateAccount(c) PROVE NamesInv'
  <2>1. request[c].name \in Names /\ request[c].new \in Passwords
    BY <1>4, ActingType DEF UpdateAccount
  <2>. QED BY <1>1, <1>4, <2>1, AccountsAssumption DEF UpdateAccount, NamesInv
<1>5. CASE UNCHANGED vars
  BY <1>2, <1>5 DEF vars, tables
<1>6. CASE Others
  BY <1>2, <1>6 DEF Others, Ban, BanRunsOut
<1>7. ASSUME NEW c \in Connections, Handle(c), ~InsertAccount(c), ~UpdateAccount(c)
      PROVE  UNCHANGED <<accounts, created>>
  BY <1>7 DEF Handle, parseIncomingRequest, CheckAccountExists,
      GetAccountByUsername, CheckBan, CheckTOTP, QueryFails, CompleteLogin,
      CreateAccountTOTP, VerifyTOTP, DeleteAccountTOTP, RegenerateRecovery, tables
<1>. QED BY <1>2, <1>3, <1>4, <1>5, <1>6, <1>7 DEF Next

\* However the create-account requests for a name interleave, the queries of
\* all of them made before the insertion of any, one at most is answered with
\* success.
THEOREM AccountsAreCreatedOnce == Spec => []CreatedOnce
<1>1. Init => NamesInv
  BY DEF Init, NamesInv
<1>2. Spec => [](TypeInv /\ NamesInv)
  BY <1>1, InitType, TypeStep, NamesStep, PTL DEF Spec
<1>3. NamesInv => CreatedOnce
  BY DEF NamesInv, CreatedOnce
<1>. QED BY <1>2, <1>3, PTL

-----------------------------------------------------------------------------
(* What protects an account is known to a client.                          *)

LEMMA NoRowTold == ASSUME NEW known PROVE Told(NoRow, known)
BY IdleType DEF Told

\* More codes may be sent, one row written, and one request go on.
LEMMA ToldSuffices ==
    ASSUME TypeInv, ToldInv, NEW c \in Connections, NEW r \in Request,
           Continue(c, r), answered \subseteq answered', NEW n \in Names, NEW row,
           \/ totps' = [totps EXCEPT ![n] = row]
           \/ totps' = totps,
           Told(row, answered'),
           WritesBack(r) =>
              /\ Told(r.row, answered')
              /\ r.kind = "regenerate" => r.row.validated
    PROVE  ToldInv'
<1>1. /\ request'[c] = r
      /\ \A d \in Connections \ {c} : request'[d] = request[d]
  BY RequestStep DEF TypeInv
<1>2. ASSUME NEW old, Told(old, answered) PROVE Told(old, answered')
  BY <1>2 DEF Told
<1>3. \A k \in Names : totps'[k] = totps[k] \/ totps'[k] = row
  BY DEF TypeInv, TypeOK
<1>4. \A k \in Names : Told(totps'[k], answered')
  BY <1>2, <1>3 DEF ToldInv
<1>5. \A d \in Connections : WritesBack(request'[d]) =>
        /\ Told(request'[d].row, answered')
        /\ request'[d].kind = "regenerate" => request'[d].row.validated
  BY <1>1, <1>2 DEF ToldInv
<1>. QED BY <1>4, <1>5 DEF ToldInv

\* The same, for a step that answers.
LEMMA ToldAnswered ==
    ASSUME TypeInv, ToldInv, NEW c \in Connections, Answer(c),
           answered \subseteq answered', NEW n \in Names, NEW row,
           \/ totps' = [totps EXCEPT ![n] = row]
           \/ totps' = totps,
           Told(row, answered')
    PROVE  ToldInv'
BY AnswerContinues, IdleType, ToldSuffices

\* The same, for a step that changes neither rows nor codes.
LEMMA ToldUnmoved ==
    ASSUME TypeInv, ToldInv, NEW c \in Connections, NEW r \in Request,
           Continue(c, r), UNCHANGED <<totps, answered>>,
           WritesBack(r) =>
              /\ Told(r.row, answered)
              /\ r.kind = "regenerate" => r.row.validated
    PROVE  ToldInv'
<1>1. PICK n \in Names : TRUE
  BY AccountsAssumption
<1>. QED BY NoRowTold, ToldSuffices

LEMMA ToldCheckTOTP ==
    ASSUME TypeInv, ToldInv, NEW c \in Connections, CheckTOTP(c)
    PROVE  ToldInv'
<1>. DEFINE row == totps[request[c].name]
            r == Proceed(request[c], row)
<1>1. CASE Answer(c)
  BY <1>1, AnswerContinues, IdleType, ToldUnmoved DEF CheckTOTP, tables, codes
<1>2. CASE Accepts(request[c].kind, row, request[c].otp) /\ Continue(c, r)
  <2>1. request[c].kind \in Kinds /\ request[c].name \in Names
    BY DEF TypeInv, TypeOK, CodesInv, CheckTOTP, At, Checking, Request
  <2>2. row \in TOTPRow /\ Told(row, answered)
    BY <2>1 DEF TypeInv, TypeOK, ToldInv
  <2>3. /\ r \in Request /\ r.kind = request[c].kind
        /\ r.row = IF r.kind \in {"verify", "regenerate"} THEN row ELSE NoRow
    BY <2>1, <2>2, ProceedType DEF TypeInv
  <2>4. request[c].kind = "regenerate" => row.validated
    BY <1>2 DEF Accepts
  <2>5. UNCHANGED <<totps, answered>>
    BY DEF CheckTOTP, tables, codes
  <2>. HIDE DEF r, row
  <2>6. WritesBack(r) => /\ Told(r.row, answered)
                         /\ r.kind = "regenerate" => r.row.validated
    BY <2>2, <2>3, <2>4 DEF WritesBack
  <2>. QED BY <1>2, <2>3, <2>5, <2>6, ToldUnmoved
<1>. QED BY <1>1, <1>2 DEF CheckTOTP

\* The rows that verify and regenerate write back.
LEMMA WrittenBack ==
    ASSUME TypeInv, ToldInv, NEW c \in Connections, At(c, "write"),
           request[c].kind \in {"verify", "regenerate"}
    PROVE  LET row == request[c].row IN
           /\ row \in TOTPRow /\ row # NoRow /\ row.secret \in answered
           /\ row.validated => row.recovery \in answered
           /\ Is(c, "regenerate") => row.validated
<1>1. WritesBack(request[c])
  BY DEF WritesBack, At
<1>2. request[c].row \in TOTPRow /\ request[c].row # NoRow
  BY ActingType
<1>. QED BY <1>1, <1>2 DEF ToldInv, Told, Is

LEMMA ToldVerify ==
    ASSUME TypeInv, ToldInv, NEW c \in Connections, VerifyTOTP(c)
    PROVE  ToldInv'
<1>. DEFINE row == [request[c].row EXCEPT !.validated = TRUE]
<1>1. request[c].row \in TOTPRow /\ request[c].row.secret \in answered
  BY WrittenBack DEF VerifyTOTP, Is
<1>2. answered' = answered \cup {request[c].row.recovery}
  BY DEF VerifyTOTP, Tell
<1>3. Told(row, answered')
  <2>1. row.secret = request[c].row.secret /\ row.recovery = request[c].row.recovery
    BY <1>1 DEF TOTPRow
  <2>. QED BY <1>1, <1>2, <2>1 DEF Told
<1>4. Answer(c) /\ request[c].name \in Names
  BY ActingType DEF VerifyTOTP
<1>5. \/ totps' = [totps EXCEPT ![request[c].name] = row]
      \/ totps' = totps
  BY DEF VerifyTOTP, UpdateAccountTOTP
<1>. HIDE DEF row
<1>. QED BY <1>2, <1>3, <1>4, <1>5, ToldAnswered

LEMMA ToldRegenerate ==
    ASSUME TypeInv, ToldInv, NEW c \in Connections, RegenerateRecovery(c)
    PROVE  ToldInv'
<1>. DEFINE row == [request[c].row EXCEPT !.recovery = drawn + 1]
<1>1. request[c].row \in TOTPRow /\ request[c].row.secret \in answered
  BY WrittenBack DEF RegenerateRecovery, Is
<1>2. answered' = answered \cup {drawn + 1}
  BY DEF RegenerateRecovery, Tell
<1>3. Told(row, answered')
  <2>1. row.secret = request[c].row.secret /\ row.recovery = drawn + 1
    BY <1>1 DEF TOTPRow
  <2>. QED BY <1>1, <1>2, <2>1 DEF Told
<1>4. Answer(c) /\ request[c].name \in Names
  BY ActingType DEF RegenerateRecovery
<1>5. \/ totps' = [totps EXCEPT ![request[c].name] = row]
      \/ totps' = totps
  BY DEF RegenerateRecovery, UpdateAccountTOTP
<1>. HIDE DEF row
<1>. QED BY <1>2, <1>3, <1>4, <1>5, ToldAnswered

LEMMA ToldCreateTOTP ==
    ASSUME TypeInv, ToldInv, NEW c \in Connections, CreateAccountTOTP(c)
    PROVE  ToldInv'
<1>. DEFINE row == NewRow(drawn + 1, drawn + 2)
<1>1. answered' = answered \cup {drawn + 1}
  BY DEF CreateAccountTOTP, Tell
<1>2. Told(row, answered')
  BY <1>1 DEF NewRow, Told
<1>3. /\ Answer(c) /\ request[c].name \in Names
      /\ totps' = [totps EXCEPT ![request[c].name] = row]
  BY ActingType DEF CreateAccountTOTP
<1>. HIDE DEF row
<1>. QED BY <1>1, <1>2, <1>3, ToldAnswered

\* A request that comes in is not about to write.
LEMMA ParsedContinues ==
    ASSUME TypeInv, NEW c \in Connections, parseIncomingRequest(c)
    PROVE  /\ \E r \in Request : Continue(c, r) /\ r.pc \in {"insert", "ban"}
           /\ UNCHANGED <<tables, codes, created>>
<1>1. PICK name \in Names, password \in Passwords :
        \/ CheckAccountExists(c, name, password)
        \/ \E kind \in Kinds, new \in Passwords, otp \in answered \cup {NoCode} :
                GetAccountByUsername(c, kind, name, password, new, otp)
  BY DEF parseIncomingRequest
<1>2. CASE CheckAccountExists(c, name, password)
  <2>. DEFINE r == [Idle EXCEPT !.kind = "create_account", !.pc = "insert",
              !.name = TrimSpace[name], !.password = TrimSpace[password]]
  <2>1. TrimSpace[name] \in Names /\ TrimSpace[password] \in Passwords
    BY AccountsAssumption
  <2>2. r \in Request /\ r.pc = "insert"
    BY <2>1, IdleType DEF Request
  <2>3. Continue(c, r) /\ UNCHANGED <<tables, codes, created>>
    BY <1>2 DEF CheckAccountExists
  <2>. HIDE DEF r
  <2>. QED BY <2>2, <2>3
<1>3. ASSUME NEW kind \in Kinds, NEW new \in Passwords,
             NEW otp \in answered \cup {NoCode},
             GetAccountByUsername(c, kind, name, password, new, otp)
      PROVE  /\ \E r \in Request : Continue(c, r) /\ r.pc \in {"insert", "ban"}
             /\ UNCHANGED <<tables, codes, created>>
  <2>. DEFINE r == [kind |-> kind, pc |-> "ban", name |-> name,
              password |-> password, new |-> new, otp |-> otp,
              stored |-> accounts[name], row |-> NoRow]
  <2>1. accounts[name] \in Passwords /\ otp \in Codes \cup {NoCode}
    BY <1>3, AccountsAssumption DEF GetAccountByUsername, Exists, TypeInv, TypeOK, Codes
  <2>2. r \in Request /\ r.pc = "ban"
    BY <2>1, IdleType DEF Request
  <2>3. Continue(c, r) /\ UNCHANGED <<tables, codes, created>>
    BY <1>3 DEF GetAccountByUsername
  <2>. HIDE DEF r
  <2>. QED BY <2>2, <2>3
<1>. QED BY <1>1, <1>2, <1>3

LEMMA ToldStep == TypeInv /\ ToldInv /\ [Next]_vars => ToldInv'
<1>. SUFFICES ASSUME TypeInv, ToldInv, [Next]_vars PROVE ToldInv'
  OBVIOUS
<1>1. CASE UNCHANGED <<totps, answered, request>>
  BY <1>1 DEF ToldInv
<1>2. CASE UNCHANGED vars
  BY <1>1, <1>2 DEF vars, tables, codes
<1>3. CASE Others
  BY <1>1, <1>3 DEF Others, Ban, BanRunsOut, codes
<1>4. ASSUME NEW c \in Connections, Handle(c) PROVE ToldInv'
  <2>1. CASE parseIncomingRequest(c)
    <3>1. UNCHANGED <<totps, answered>>
      BY <2>1, ParsedContinues DEF tables, codes
    <3>2. PICK r \in Request : Continue(c, r) /\ r.pc \in {"insert", "ban"}
      BY <2>1, ParsedContinues
    <3>3. ~WritesBack(r)
      BY <3>2 DEF WritesBack
    <3>. QED BY <3>1, <3>2, <3>3, ToldUnmoved
  <2>2. CASE CheckBan(c)
    <3>. DEFINE r == [request[c] EXCEPT !.pc = "totp", !.password = Idle.password,
                                        !.stored = Idle.stored]
    <3>1. UNCHANGED <<totps, answered>>
      BY <2>2 DEF CheckBan, tables, codes
    <3>2. r \in Request /\ r.pc = "totp"
      <4>1. request[c] \in Request
        BY DEF TypeInv, TypeOK
      <4>. QED BY <4>1, IdleType DEF Request
    <3>3. Continue(c, r) \/ Answer(c)
      BY <2>2 DEF CheckBan
    <3>. HIDE DEF r
    <3>4. ~WritesBack(r)
      BY <3>2 DEF WritesBack
    <3>. QED BY <3>1, <3>2, <3>3, <3>4, AnswerContinues, IdleType, ToldUnmoved
  <2>3. CASE CheckTOTP(c)
    BY <2>3, ToldCheckTOTP
  <2>4. CASE Answer(c) /\ UNCHANGED <<totps, answered>>
    BY <2>4, AnswerContinues, IdleType, ToldUnmoved
  <2>5. CASE InsertAccount(c) \/ QueryFails(c) \/ CompleteLogin(c) \/ UpdateAccount(c)
    BY <2>4, <2>5 DEF InsertAccount, QueryFails, CompleteLogin, UpdateAccount,
        tables, codes
  <2>6. CASE CreateAccountTOTP(c)
    BY <2>6, ToldCreateTOTP
  <2>7. CASE VerifyTOTP(c)
    BY <2>7, ToldVerify
  <2>8. CASE DeleteAccountTOTP(c)
    <3>1. /\ Answer(c) /\ request[c].name \in Names /\ answered' = answered
          /\ totps' = [totps EXCEPT ![request[c].name] = NoRow]
      BY <2>8, ActingType DEF DeleteAccountTOTP, codes
    <3>. QED BY <3>1, NoRowTold, ToldAnswered
  <2>9. CASE RegenerateRecovery(c)
    BY <2>9, ToldRegenerate
  <2>. QED BY <1>4, <2>1, <2>2, <2>3, <2>5, <2>6, <2>7, <2>8, <2>9 DEF Handle
<1>. QED BY <1>2, <1>3, <1>4 DEF Next

LEMMA ToldAlways == Spec => [](TypeInv /\ ToldInv)
<1>1. Init => ToldInv
  BY IdleType, NoRowTold DEF Init, ToldInv, WritesBack
<1>. QED BY <1>1, InitType, TypeStep, ToldStep, PTL DEF Spec

\* Whoever is asked for a code was sent it: the secret and the recovery code
\* of a validated row both reached a client, however the requests interleave
\* and whatever rows they write back late.
THEOREM ValidatedAreUsable == Spec => []ValidatedIsUsable
<1>1. TypeInv /\ ToldInv => ValidatedIsUsable
  BY IdleType DEF ToldInv, Told, ValidatedIsUsable
<1>. QED BY <1>1, ToldAlways, PTL

\* No step but the deletion of a remove-totp request undoes a validation: not
\* a second create-totp, and not a row that verify-totp or
\* regenerate-recovery read long before they write it back.
THEOREM ProtectionLasts == Spec => ProtectionStays
<1>1. ASSUME TypeInv, ToldInv, [Next]_vars, NEW n \in Names,
             totps[n].validated, ~totps'[n].validated
      PROVE  \E c \in Connections : /\ Is(c, "remove") /\ At(c, "write")
                                    /\ request[c].name = n /\ request'[c] = Idle
  <2>1. totps \in [Names -> TOTPRow] /\ totps' # totps /\ totps[n] # NoRow
    BY <1>1, IdleType DEF TypeInv, TypeOK
  <2>2. ~UNCHANGED vars /\ ~Others
    BY <2>1 DEF vars, tables, Others, Ban, BanRunsOut
  <2>3. PICK c \in Connections : Handle(c)
    BY <1>1, <2>2 DEF Next
  <2>4. ~CreateAccountTOTP(c)
    <3>1. SUFFICES ASSUME CreateAccountTOTP(c) PROVE FALSE
      OBVIOUS
    <3>2. totps[request[c].name] = NoRow
          /\ totps' = [totps EXCEPT ![request[c].name] = NewRow(drawn + 1, drawn + 2)]
      BY <3>1 DEF CreateAccountTOTP, HasTOTP
    <3>3. request[c].name # n
      BY <2>1, <3>2
    <3>. QED BY <1>1, <2>1, <3>2, <3>3
  <2>5. ~VerifyTOTP(c)
    <3>1. SUFFICES ASSUME VerifyTOTP(c) PROVE FALSE
      OBVIOUS
    <3>2. totps' = [totps EXCEPT
                ![request[c].name] = [request[c].row EXCEPT !.validated = TRUE]]
      BY <2>1, <3>1 DEF VerifyTOTP, UpdateAccountTOTP
    <3>3. request[c].row \in TOTPRow
      BY <1>1, <3>1, ActingType DEF VerifyTOTP
    <3>4. [request[c].row EXCEPT !.validated = TRUE].validated
      BY <3>3 DEF TOTPRow
    <3>. QED BY <1>1, <2>1, <3>2, <3>4
  <2>6. ~RegenerateRecovery(c)
    <3>1. SUFFICES ASSUME RegenerateRecovery(c) PROVE FALSE
      OBVIOUS
    <3>2. totps' = [totps EXCEPT
                ![request[c].name] = [request[c].row EXCEPT !.recovery = drawn + 1]]
      BY <2>1, <3>1 DEF RegenerateRecovery, UpdateAccountTOTP
    <3>3. request[c].row \in TOTPRow /\ request[c].row.validated
      BY <1>1, <3>1, WrittenBack DEF RegenerateRecovery, Is
    <3>4. [request[c].row EXCEPT !.recovery = drawn + 1].validated
      BY <3>3 DEF TOTPRow
    <3>. QED BY <1>1, <2>1, <3>2, <3>4
  <2>7. DeleteAccountTOTP(c)
    BY <2>1, <2>3, <2>4, <2>5, <2>6 DEF Handle, parseIncomingRequest,
        CheckAccountExists, GetAccountByUsername, InsertAccount, CheckBan,
        CheckTOTP, QueryFails, CompleteLogin, UpdateAccount, tables
  <2>8. request[c].name = n
    BY <1>1, <2>1, <2>7 DEF DeleteAccountTOTP
  <2>9. request'[c] = Idle
    BY <1>1, <2>7 DEF DeleteAccountTOTP, Answer, TypeInv, TypeOK
  <2>. QED BY <2>7, <2>8, <2>9 DEF DeleteAccountTOTP
<1>2. TypeInv /\ ToldInv /\ [Next]_vars =>
        [\A n \in Names : totps[n].validated /\ ~totps'[n].validated =>
            \E c \in Connections : /\ Is(c, "remove") /\ At(c, "write")
                                   /\ request[c].name = n /\ request'[c] = Idle]_vars
  BY <1>1
<1>. QED BY <1>2, ToldAlways, PTL DEF Spec, ProtectionStays

-----------------------------------------------------------------------------
(* The checks of a request.                                                *)

\* held after a step, for a request that is not about to write ...
LEMMA HeldPass ==
    ASSUME Observe, NEW d \in Connections, request'[d].kind \in Kinds,
           request'[d].pc # "write"
    PROVE  held'[d] = held[d] \cup Pass(request'[d], accounts'[request'[d].name],
                                        totps'[request'[d].name], bans')
BY DEF Observe

\* ... and for one that is.
LEMMA HeldActs ==
    ASSUME Observe, NEW d \in Connections, request'[d].kind \in Kinds,
           request'[d].pc = "write"
    PROVE  held'[d] = held[d]
BY DEF Observe

\* What a request has kept does not depend on the tables after its checks, and
\* before them it is observed again in every step.
LEMMA KeptUnmoved ==
    ASSUME TypeInv', HeldInv, Observe, NEW d \in Connections,
           request'[d] = request[d]
    PROVE  Kept(request'[d], held'[d], totps'[request'[d].name], bans')
<1>1. Kept(request[d], held[d], totps[request[d].name], bans)
  BY DEF HeldInv
<1>2. Checking(request'[d]) => request'[d].kind \in Kinds
  BY DEF TypeInv, CodesInv
<1>3. CASE ~Checking(request'[d])
  BY <1>3 DEF Checking, Kept
<1>4. CASE Checking(request'[d]) /\ request'[d].pc = "write"
  <2>1. held'[d] = held[d]
    BY <1>2, <1>4, HeldActs
  <2>. QED BY <1>1, <1>4, <2>1 DEF Kept
<1>5. CASE Checking(request'[d]) /\ request'[d].pc # "write"
  <2>1. /\ held[d] \subseteq held'[d]
        /\ Accepts(request'[d].kind, totps'[request'[d].name], request'[d].otp)
              => "code" \in held'[d]
        /\ request'[d].name \notin bans' => "unbanned" \in held'[d]
    BY <1>2, <1>5, HeldPass DEF Pass
  <2>. QED BY <1>1, <1>5, <2>1 DEF Kept
<1>. QED BY <1>3, <1>4, <1>5

\* A step of connection c need only show what its own request keeps.
LEMMA HeldSuffices ==
    ASSUME TypeInv, TypeInv', HeldInv, Observe, NEW c \in Connections,
           NEW r \in Request, Continue(c, r),
           Kept(r, held'[c], totps'[r.name], bans')
    PROVE  HeldInv'
<1>1. /\ request'[c] = r
      /\ \A d \in Connections \ {c} : request'[d] = request[d]
  BY RequestStep DEF TypeInv
<1>2. \A d \in Connections :
        Kept(request'[d], held'[d], totps'[request'[d].name], bans')
  BY <1>1, KeptUnmoved
<1>. QED BY <1>2 DEF HeldInv

LEMMA HeldAnswered ==
    ASSUME TypeInv, TypeInv', HeldInv, Observe, NEW c \in Connections, Answer(c)
    PROVE  HeldInv'
<1>1. Kept(Idle, held'[c], totps'[Idle.name], bans')
  BY IdleType DEF Kept
<1>. QED BY <1>1, IdleType, AnswerContinues, HeldSuffices

LEMMA HeldCreateAccount ==
    ASSUME TypeInv, TypeInv', HeldInv, Observe, NEW c \in Connections,
           NEW name \in Names, NEW password \in Passwords,
           CheckAccountExists(c, name, password)
    PROVE  HeldInv'
<1>. DEFINE r == [Idle EXCEPT !.kind = "create_account", !.pc = "insert",
            !.name = TrimSpace[name], !.password = TrimSpace[password]]
<1>1. r \in Request /\ r.pc = "insert"
  <2>1. TrimSpace[name] \in Names /\ TrimSpace[password] \in Passwords
    BY AccountsAssumption
  <2>. QED BY <2>1, IdleType DEF Request
<1>2. Continue(c, r)
  BY DEF CheckAccountExists
<1>. HIDE DEF r
<1>3. Kept(r, held'[c], totps'[r.name], bans')
  BY <1>1 DEF Kept
<1>. QED BY <1>1, <1>2, <1>3, HeldSuffices

\* The password read is the one in the table in the step that reads it.
LEMMA HeldLookup ==
    ASSUME TypeInv, TypeInv', HeldInv, Observe, NEW c \in Connections,
           NEW kind \in Kinds, NEW name \in Names, NEW password \in Passwords,
           NEW new \in Passwords, NEW otp \in answered \cup {NoCode},
           GetAccountByUsername(c, kind, name, password, new, otp)
    PROVE  HeldInv'
<1>. DEFINE r == [kind |-> kind, pc |-> "ban", name |-> name,
            password |-> password, new |-> new, otp |-> otp,
            stored |-> accounts[name], row |-> NoRow]
<1>1. /\ r \in Request /\ r.pc = "ban" /\ r.kind \in Kinds
      /\ r.stored = accounts[r.name]
  <2>1. accounts[name] \in Passwords /\ otp \in Codes \cup {NoCode}
    BY AccountsAssumption DEF GetAccountByUsername, Exists, TypeInv, TypeOK, Codes
  <2>. QED BY <2>1, IdleType DEF Request
<1>2. Continue(c, r) /\ accounts' = accounts
  BY DEF GetAccountByUsername, tables
<1>. HIDE DEF r
<1>3. request'[c] = r
  BY <1>1, <1>2, RequestStep DEF TypeInv
<1>4. held'[c] = held[c] \cup Pass(r, accounts'[r.name], totps'[r.name], bans')
  BY <1>1, <1>3, HeldPass
<1>5. Kept(r, held'[c], totps'[r.name], bans')
  BY <1>1, <1>2, <1>4 DEF Kept, Pass
<1>. QED BY <1>1, <1>2, <1>5, HeldSuffices

LEMMA HeldCheckBan ==
    ASSUME TypeInv, TypeInv', HeldInv, Observe, NEW c \in Connections, CheckBan(c)
    PROVE  HeldInv'
<1>. DEFINE r == [request[c] EXCEPT !.pc = "totp", !.password = Idle.password,
                                    !.stored = Idle.stored]
<1>1. CASE Answer(c)
  BY <1>1, HeldAnswered
<1>2. CASE /\ request[c].name \notin bans
           /\ ComparesPassword(request[c].kind) =>
                request[c].password = request[c].stored
           /\ Continue(c, r)
  <2>1. /\ request[c] \in Request /\ Idle \in Request /\ request[c].pc = "ban"
        /\ request[c].kind \in Kinds
    BY IdleType DEF TypeInv, TypeOK, CodesInv, CheckBan, At, Checking
  <2>2. r \in Request /\ r.pc = "totp" /\ r.kind = request[c].kind
    BY <2>1 DEF Request
  <2>3. /\ "unbanned" \in held[c]
        /\ ComparesPassword(request[c].kind) => "password" \in held[c]
    BY <1>2, <2>1 DEF HeldInv, Kept
  <2>. HIDE DEF r
  <2>4. request'[c] = r
    BY <1>2, <2>2, RequestStep DEF TypeInv
  <2>5. held'[c] = held[c] \cup Pass(r, accounts'[r.name], totps'[r.name], bans')
    BY <2>1, <2>2, <2>4, HeldPass
  <2>6. Kept(r, held'[c], totps'[r.name], bans')
    BY <2>2, <2>3, <2>5 DEF Kept, Pass
  <2>. QED BY <1>2, <2>2, <2>6, HeldSuffices
<1>. QED BY <1>1, <1>2 DEF CheckBan, NotBanned

LEMMA HeldCheckTOTP ==
    ASSUME TypeInv, TypeInv', HeldInv, Observe, NEW c \in Connections, CheckTOTP(c)
    PROVE  HeldInv'
<1>. DEFINE row == totps[request[c].name]
            r == Proceed(request[c], row)
<1>1. CASE Answer(c)
  BY <1>1, HeldAnswered
<1>2. CASE Accepts(request[c].kind, row, request[c].otp) /\ Continue(c, r)
  <2>1. /\ request[c].kind \in Kinds /\ request[c].name \in Names
        /\ request[c].pc = "totp"
    BY DEF TypeInv, TypeOK, CodesInv, CheckTOTP, At, Checking, Request
  <2>2. row \in TOTPRow
    BY <2>1 DEF TypeInv, TypeOK
  <2>3. r \in Request /\ r.pc = "write" /\ r.kind = request[c].kind
    BY <2>1, <2>2, ProceedType DEF TypeInv
  <2>4. /\ "unbanned" \in held[c] /\ "code" \in held[c]
        /\ ComparesPassword(request[c].kind) => "password" \in held[c]
    BY <1>2, <2>1 DEF HeldInv, Kept
  <2>. HIDE DEF r, row
  <2>5. request'[c] = r
    BY <1>2, <2>3, RequestStep DEF TypeInv
  <2>6. held'[c] = held[c]
    BY <2>1, <2>3, <2>5, HeldActs
  <2>7. Kept(r, held'[c], totps'[r.name], bans')
    BY <2>3, <2>4, <2>6 DEF Kept
  <2>. QED BY <1>2, <2>3, <2>7, HeldSuffices
<1>. QED BY <1>1, <1>2 DEF CheckTOTP

LEMMA HeldStep == TypeInv /\ TypeInv' /\ HeldInv /\ [Next]_vars => HeldInv'
<1>. SUFFICES ASSUME TypeInv, TypeInv', HeldInv, [Next]_vars PROVE HeldInv'
  OBVIOUS
<1>1. CASE UNCHANGED vars
  BY <1>1 DEF vars, tables, HeldInv
<1>2. CASE Others /\ Observe
  <2>1. request' = request
    BY <1>2 DEF Others, Ban, BanRunsOut
  <2>2. \A d \in Connections :
          Kept(request'[d], held'[d], totps'[request'[d].name], bans')
    BY <1>2, <2>1, KeptUnmoved
  <2>. QED BY <2>2 DEF HeldInv
<1>3. ASSUME NEW c \in Connections, Handle(c), Observe PROVE HeldInv'
  <2>1. CASE parseIncomingRequest(c)
    BY <1>3, <2>1, HeldCreateAccount, HeldLookup DEF parseIncomingRequest
  <2>2. CASE CheckBan(c)
    BY <1>3, <2>2, HeldCheckBan
  <2>3. CASE CheckTOTP(c)
    BY <1>3, <2>3, HeldCheckTOTP
  <2>4. CASE Answer(c)
    BY <1>3, <2>4, HeldAnswered
  <2>. QED
    BY <1>3, <2>1, <2>2, <2>3, <2>4 DEF Handle, InsertAccount, QueryFails,
        CompleteLogin, UpdateAccount, CreateAccountTOTP, VerifyTOTP,
        DeleteAccountTOTP, RegenerateRecovery
<1>. QED BY <1>1, <1>2, <1>3 DEF Next

LEMMA HeldAlways == Spec => []HeldInv
<1>1. Init => HeldInv
  BY IdleType DEF Init, HeldInv, Kept
<1>. QED BY <1>1, InitType, TypeStep, HeldStep, PTL DEF Spec

\* Every request that writes, and compares passwords, was sent with the
\* password that the account had at some moment of the request.
THEOREM PasswordsAreProven == Spec => []PasswordProven
<1>1. HeldInv => PasswordProven
  BY DEF HeldInv, Kept, PasswordProven, Acting
<1>. QED BY <1>1, HeldAlways, PTL

\* Every request that writes was accepted with the TOTP row that the account
\* had at some moment of the request.
THEOREM SecondFactorsAreProven == Spec => []SecondFactorProven
<1>1. HeldInv => SecondFactorProven
  BY DEF HeldInv, Kept, SecondFactorProven, Acting
<1>. QED BY <1>1, HeldAlways, PTL

\* No request writes whose account was banned from the moment it came in.
THEOREM BansAreRespected == Spec => []BanRespected
<1>1. HeldInv => BanRespected
  BY DEF HeldInv, Kept, BanRespected, Acting
<1>. QED BY <1>1, HeldAlways, PTL
=============================================================================
