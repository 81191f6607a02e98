---------------------------- MODULE TenancyProofs ----------------------------
(* Accounts and memberships, for any number of accounts, places, persons,   *)
(* invitations, codes and calls at once: an account is claimed exactly when *)
(* somebody can enter it, and whoever accepted an invitation is a member.   *)
EXTENDS Tenancy, TLAPS
-----------------------------------------------------------------------------
(* The invariant: what each table holds, and what each call under way may   *)
(* still save.                                                              *)
Enterable(r) == r \in Account /\ (r.claimed <=> r.password \/ r.google)
Known(e) == account[e] # Nil
OwnerOK(r) == DOMAIN r = {"email", "phone", "of", "dead"} /\ (r.of # Nil => r.of \in Emails /\ Known(r.of))

AccountsOK == DOMAIN account = Emails /\ \A e \in Emails : Known(e) => Enterable(account[e])
ProsOK == DOMAIN pro = Emails /\ \A e \in Emails : pro[e] # Nil => Known(e)
PlacesOK ==
  /\ DOMAIN place = Slugs
  /\ \A s \in Slugs : place[s] # Nil =>
       DOMAIN place[s] = {"owner", "personal", "dead"} /\ place[s].owner \in Emails /\ Known(place[s].owner)
PersonsOK == DOMAIN person = People /\ \A p \in People : person[p] # Nil => OwnerOK(person[p])
MembersOK == member \in [Emails \X Slugs -> Member \cup {Nil}]
IsInvite(r) == r \in Invite /\ r # Nil
InvitesOK ==
  /\ DOMAIN invite = Invites
  /\ \A i \in Invites : invite[i] # Nil =>
       /\ IsInvite(invite[i])
       /\ invite[i].is = "accepted" => member[<<invite[i].to, invite[i].place>>] # Nil
IsCode(r) == r \in Code
CodesOK == DOMAIN code = Codes /\ \A k \in Codes : code[k] # Nil => IsCode(code[k])
TablesOK == AccountsOK /\ ProsOK /\ PlacesOK /\ PersonsOK /\ MembersOK /\ InvitesOK /\ CodesOK

Seekers == {"client", "entry", "professional", "tenant"}
WithAccount == {"person", "found", "newPerson", "onboard", "comercio", "issue", "logout", "status", "reclaim"}
HandlerOK(h) ==
  /\ DOMAIN h = {"at", "as", "e", "slug", "email", "phone", "id", "copy"} /\ h.e \in Emails
  /\ h.at = "claim" => h.as \in {"client", "professional", "comercial"}
  /\ h.at = "google" => h.as = "entry"
  /\ h.at = "person" => h.as \in Seekers
  /\ h.at = "newPerson" => h.as \in Seekers \cup {"own"}
  /\ h.at \in {"claim", "google"} => h.copy = Nil \/ Enterable(h.copy)
  /\ h.at \in {"status", "reclaim"} => Enterable(h.copy)
  /\ h.at \in WithAccount => Known(h.e)
  /\ h.at = "found" => OwnerOK(h.copy)
  /\ h.at = "use" => h.id \in Codes /\ IsCode(code[h.id])
  /\ h.at = "unassign" => h.slug \in Slugs /\ member[<<h.e, h.slug>>] # Nil
  /\ h.at \in {"join", "rejoin", "invite"} =>
       h.id \in Invites /\ IsInvite(invite[h.id]) /\ h.copy.is \in {"accepted", "cancelled", "expired"}
  /\ h.at \in {"join", "rejoin"} => h.e = invite[h.id].to /\ h.slug = invite[h.id].place
  /\ h.at = "invite" /\ h.copy.is = "accepted" => member[<<invite[h.id].to, invite[h.id].place>>] # Nil
HandlersOK == DOMAIN handler = Handlers /\ \A c \in Handlers : handler[c] # Nil => HandlerOK(handler[c])

DeedInv == TablesOK /\ HandlersOK

(* No row is ever taken out, and an invitation stays for whom it was.       *)
Grows ==
  /\ \A e \in Emails : Known(e) => account'[e] # Nil
  /\ \A k \in Emails \X Slugs : member[k] # Nil => member'[k] # Nil
  /\ \A k \in Codes : IsCode(code[k]) => IsCode(code'[k])
  /\ \A i \in Invites : IsInvite(invite[i]) =>
       IsInvite(invite'[i]) /\ invite'[i].to = invite[i].to /\ invite'[i].place = invite[i].place
-----------------------------------------------------------------------------
(* Rows of accounts.                                                        *)

LEMMA FreshRows ==
  /\ Enterable(NewAccount)
  /\ Enterable([NewAccount EXCEPT !.claimed = FALSE, !.password = FALSE])
  BY DEF Enterable, NewAccount, Account

LEMMA EditedRows ==
  ASSUME NEW r, Enterable(r), NEW b \in BOOLEAN, NEW d \in BOOLEAN
  PROVE  /\ Enterable([r EXCEPT !.password = TRUE, !.claimed = TRUE])
         /\ Enterable([r EXCEPT !.google = TRUE, !.claimed = TRUE, !.verified = TRUE])
         /\ Enterable([r EXCEPT !.blocked = b, !.session = d])
         /\ Enterable([r EXCEPT !.blocked = b])
         /\ Enterable([r EXCEPT !.session = b])
         /\ Enterable([r EXCEPT !.verified = TRUE])
  BY DEF Enterable, Account

LEMMA RowsAreRows == ASSUME NEW r, Enterable(r) PROVE r # Nil
  BY StartAssumption DEF Enterable

LEMMA InvitesAreRows == ASSUME NEW r \in Invite PROVE IsInvite(r)
  BY StartAssumption DEF IsInvite

LEMMA MembersAreRows == ASSUME NEW m \in Member, NEW b \in BOOLEAN
  PROVE  /\ [m EXCEPT !.active = b] \in Member /\ [m EXCEPT !.assigned = b] \in Member
         /\ [m EXCEPT !.dead = b] \in Member /\ NewMember \in Member /\ m # Nil
  BY StartAssumption DEF Member, NewMember

(* One row of the accounts written, or none.                                *)
LEMMA AccountWritten ==
  ASSUME AccountsOK, NEW e, NEW r, Enterable(r), account' = [account EXCEPT ![e] = r]
  PROVE  AccountsOK' /\ \A x \in Emails : Known(x) => account'[x] # Nil
  BY RowsAreRows DEF AccountsOK, Known

(* Tables that hold accounts by name only need accounts to stay.            *)
LEMMA NamesKept ==
  ASSUME \A e \in Emails : Known(e) => account'[e] # Nil
  PROVE  /\ ProsOK /\ pro' = pro => ProsOK'
         /\ PlacesOK /\ place' = place => PlacesOK'
         /\ PersonsOK /\ person' = person => PersonsOK'
  BY DEF ProsOK, PlacesOK, PersonsOK, OwnerOK, Known

LEMMA InvitesKept ==
  ASSUME InvitesOK, invite' = invite, \A k \in Emails \X Slugs : member[k] # Nil => member'[k] # Nil
  PROVE  InvitesOK'
  BY DEF InvitesOK, IsInvite, Invite

(* A call is what it was while the tables grow.                             *)
LEMMA HandlerKept ==
  ASSUME Grows, NEW d, HandlerOK(handler[d]), handler'[d] = handler[d], InvitesOK
  PROVE  HandlerOK(handler[d])'
  BY DEF Grows, HandlerOK, InvitesOK, IsInvite, Invite, OwnerOK, Known, Enterable, Account, WithAccount, Seekers

LEMMA HandlersKept ==
  ASSUME DeedInv, Grows, NEW c \in Handlers, NEW v, handler' = [handler EXCEPT ![c] = v],
         handler'[c] # Nil => HandlerOK(handler[c])'
  PROVE  HandlersOK'
<1>1. ASSUME NEW d \in Handlers, handler'[d] # Nil PROVE HandlerOK(handler[d])'
  <2>1. CASE d = c
    BY <1>1, <2>1
  <2>2. CASE d # c
    <3>1. handler'[d] = handler[d]
      BY <2>2 DEF DeedInv, HandlersOK
    <3>2. HandlerOK(handler[d])
      BY <3>1, <1>1 DEF DeedInv, HandlersOK
    <3>. QED
      BY <3>1, <3>2, HandlerKept DEF DeedInv, TablesOK
  <2>. QED
    BY <2>1, <2>2
<1>. QED
  BY <1>1 DEF DeedInv, HandlersOK

LEMMA HandlersStay ==
  ASSUME DeedInv, Grows, handler' = handler PROVE HandlersOK'
<1>1. ASSUME NEW d \in Handlers, handler'[d] # Nil PROVE HandlerOK(handler[d])'
  BY <1>1, HandlerKept DEF DeedInv, TablesOK, HandlersOK
<1>. QED
  BY <1>1 DEF DeedInv, HandlersOK
-----------------------------------------------------------------------------
(* Steps by the tables they write.                                          *)

LEMMA NothingWritten ==
  ASSUME DeedInv, UNCHANGED <<identityVars, workVars, mailVars>>
  PROVE  TablesOK' /\ Grows
<1>1. AccountsOK' /\ \A e \in Emails : Known(e) => account'[e] # Nil
  BY DEF DeedInv, TablesOK, AccountsOK, Known, identityVars
<1>2. ProsOK' /\ PlacesOK' /\ PersonsOK'
  BY <1>1, NamesKept DEF DeedInv, TablesOK, identityVars, workVars
<1>3. MembersOK' /\ InvitesOK' /\ CodesOK'
  BY InvitesKept DEF DeedInv, TablesOK, MembersOK, CodesOK, workVars, mailVars
<1>. QED
  BY <1>1, <1>2, <1>3 DEF TablesOK, Grows, workVars, mailVars

LEMMA OnlyAccounts ==
  ASSUME DeedInv, UNCHANGED <<person, workVars, mailVars>>,
         AccountsOK', \A e \in Emails : Known(e) => account'[e] # Nil
  PROVE  TablesOK' /\ Grows
<1>1. ProsOK' /\ PlacesOK' /\ PersonsOK'
  BY NamesKept DEF DeedInv, TablesOK, workVars
<1>2. MembersOK' /\ InvitesOK' /\ CodesOK'
  BY InvitesKept DEF DeedInv, TablesOK, MembersOK, CodesOK, workVars, mailVars
<1>. QED
  BY <1>1, <1>2 DEF TablesOK, Grows, workVars, mailVars

(* Accounts as they were or grown; of the rest, each table for itself.      *)
LEMMA OnlyMembers ==
  ASSUME DeedInv, UNCHANGED <<identityVars, pro, place, mailVars>>,
         MembersOK', \A k \in Emails \X Slugs : member[k] # Nil => member'[k] # Nil
  PROVE  TablesOK' /\ Grows
<1>1. AccountsOK' /\ \A e \in Emails : Known(e) => account'[e] # Nil
  BY DEF DeedInv, TablesOK, AccountsOK, Known, identityVars
<1>2. ProsOK' /\ PlacesOK' /\ PersonsOK'
  BY <1>1, NamesKept DEF DeedInv, TablesOK, identityVars
<1>3. InvitesOK' /\ CodesOK'
  BY InvitesKept DEF DeedInv, TablesOK, CodesOK, mailVars
<1>. QED
  BY <1>1, <1>2, <1>3 DEF TablesOK, Grows, mailVars

LEMMA OnlyMail ==
  ASSUME DeedInv, UNCHANGED <<identityVars, workVars>>, InvitesOK', CodesOK',
         \A k \in Codes : IsCode(code[k]) => IsCode(code'[k]),
         \A i \in Invites : IsInvite(invite[i]) =>
           IsInvite(invite'[i]) /\ invite'[i].to = invite[i].to /\ invite'[i].place = invite[i].place
  PROVE  TablesOK' /\ Grows
<1>1. AccountsOK' /\ \A e \in Emails : Known(e) => account'[e] # Nil
  BY DEF DeedInv, TablesOK, AccountsOK, Known, identityVars
<1>2. ProsOK' /\ PlacesOK' /\ PersonsOK'
  BY <1>1, NamesKept DEF DeedInv, TablesOK, identityVars, workVars
<1>3. MembersOK'
  BY DEF DeedInv, TablesOK, MembersOK, workVars
<1>. QED
  BY <1>1, <1>2, <1>3 DEF TablesOK, Grows, workVars

LEMMA OnlyNames ==
  ASSUME DeedInv, UNCHANGED <<account, member, mailVars>>, ProsOK', PlacesOK', PersonsOK'
  PROVE  TablesOK' /\ Grows
<1>1. AccountsOK' /\ \A e \in Emails : Known(e) => account'[e] # Nil
  BY DEF DeedInv, TablesOK, AccountsOK, Known
<1>2. MembersOK' /\ InvitesOK' /\ CodesOK'
  BY InvitesKept DEF DeedInv, TablesOK, MembersOK, CodesOK, mailVars
<1>. QED
  BY <1>1, <1>2 DEF TablesOK, Grows, mailVars
-----------------------------------------------------------------------------
(* Calls that begin.                                                        *)

LEMMA FreshCall ==
  ASSUME NEW at, NEW as, NEW e \in Emails
  PROVE  LET h == Call(at, as, e) IN
           /\ DOMAIN h = {"at", "as", "e", "slug", "email", "phone", "id", "copy"}
           /\ h.at = at /\ h.as = as /\ h.e = e /\ h.copy = Nil /\ h.slug = Nil /\ h.id = Nil
  BY DEF Call

LEMMA BeginsKept ==
  ASSUME DeedInv, NEW c \in Handlers, HandlerBegins(c)
  PROVE  TablesOK' /\ Grows /\ HandlersOK'
<1>. USE DEF DeedInv
<1>1. ASSUME NEW e \in Emails, NEW s \in Slugs \cup {Nil}, NEW as \in {"client", "professional", "comercial"},
             Register(c, as, e, s)
      PROVE  TablesOK' /\ Grows /\ HandlersOK'
  <2>1. TablesOK' /\ Grows
    BY <1>1, NothingWritten DEF Register
  <2>2. handler'[c] # Nil => HandlerOK(handler[c])'
    <3>1. account[e] = Nil \/ Enterable(account[e])
      BY DEF TablesOK, AccountsOK, Known
    <3>2. handler'[c] = [Call("claim", as, e) EXCEPT !.slug = s, !.email = e, !.copy = account[e]]
      BY <1>1 DEF Register, Begins, HandlersOK
    <3>3. /\ DOMAIN handler'[c] = {"at", "as", "e", "slug", "email", "phone", "id", "copy"}
          /\ handler'[c].at = "claim" /\ handler'[c].as = as /\ handler'[c].e = e /\ handler'[c].copy = account[e]
      BY <3>2 DEF Call
    <3>. HIDE DEF DeedInv
    <3>. QED
      BY <3>1, <3>3 DEF HandlerOK, Enterable, WithAccount
  <2>. QED
    BY <1>1, <2>1, <2>2, HandlersKept DEF Register, Begins
<1>2. ASSUME NEW e \in Emails, NEW s \in Slugs, BeginOnboard(c, e, s)
      PROVE  TablesOK' /\ Grows /\ HandlersOK'
  <2>1. AccountsOK' /\ (\A x \in Emails : Known(x) => account'[x] # Nil) /\ account'[e] # Nil
    BY <1>2, FreshRows, RowsAreRows DEF BeginOnboard, TablesOK, AccountsOK, Known
  <2>2. TablesOK' /\ Grows
    BY <1>2, <2>1, OnlyAccounts DEF BeginOnboard
  <2>3. handler'[c] # Nil => HandlerOK(handler[c])'
    BY <1>2, <2>1 DEF BeginOnboard, Begins, HandlersOK, HandlerOK, Known, WithAccount, Call
  <2>. QED
    BY <1>2, <2>2, <2>3, HandlersKept DEF BeginOnboard, Begins
<1>3. ASSUME NEW e \in Emails, NEW s \in Slugs, DeactivateMembership(c, e, s)
      PROVE  TablesOK' /\ Grows /\ HandlersOK'
  <2>1. member[<<e, s>>] \in Member /\ member[<<e, s>>] # Nil
    BY <1>3 DEF DeactivateMembership, Live, MemberOf, TablesOK, MembersOK
  <2>2. /\ MembersOK' /\ (\A k \in Emails \X Slugs : member[k] # Nil => member'[k] # Nil)
        /\ member'[<<e, s>>] # Nil
    BY <1>3, <2>1, MembersAreRows DEF DeactivateMembership, TablesOK, MembersOK
  <2>3. TablesOK' /\ Grows
    BY <1>3, <2>2, OnlyMembers DEF DeactivateMembership
  <2>4. handler'[c] # Nil => HandlerOK(handler[c])'
    BY <1>3, <2>2 DEF DeactivateMembership, Begins, HandlersOK, HandlerOK, WithAccount, Call
  <2>. QED
    BY <1>3, <2>3, <2>4, HandlersKept DEF DeactivateMembership, Begins
<1>4. ASSUME NEW e \in Emails, StartSession(c, e) \/ BeginGoogle(c, e)
      PROVE  TablesOK' /\ Grows /\ HandlersOK'
  <2>1. TablesOK' /\ Grows
    BY <1>4, NothingWritten DEF StartSession, BeginGoogle
  <2>2. handler'[c] # Nil => HandlerOK(handler[c])'
    <3>1. CASE StartSession(c, e)
      BY <3>1, <2>1
      DEF StartSession, Begins, HandlersOK, HandlerOK, Known, WithAccount, Call, Grows
    <3>2. CASE BeginGoogle(c, e)
      BY <3>2, <2>1
      DEF BeginGoogle, Begins, HandlersOK, HandlerOK, TablesOK, AccountsOK, Known, Enterable, WithAccount, Call, Grows
    <3>. QED
      BY <1>4, <3>1, <3>2
  <2>. QED
    BY <1>4, <2>1, <2>2, HandlersKept DEF StartSession, BeginGoogle, Begins
<1>5. ASSUME NEW e \in Emails, NEW as \in {"block", "activate"}, BeginSetStatus(c, e, as)
      PROVE  TablesOK' /\ Grows /\ HandlersOK'
  <2>1. TablesOK' /\ Grows
    BY <1>5, NothingWritten DEF BeginSetStatus
  <2>2. handler'[c] # Nil => HandlerOK(handler[c])'
    BY <1>5, <2>1
    DEF BeginSetStatus, Begins, HandlersOK, HandlerOK, TablesOK, AccountsOK, Known, Enterable, WithAccount, Call, Grows
  <2>. QED
    BY <1>5, <2>1, <2>2, HandlersKept DEF BeginSetStatus, Begins
<1>6. ASSUME NEW k \in Codes, BeginConsume(c, k)
      PROVE  TablesOK' /\ Grows /\ HandlersOK'
  <2>1. TablesOK' /\ Grows
    BY <1>6, NothingWritten DEF BeginConsume
  <2>2. handler'[c] # Nil => HandlerOK(handler[c])'
    BY <1>6, <2>1
    DEF BeginConsume, Begins, HandlersOK, HandlerOK, TablesOK, CodesOK, IsCode, Code, WithAccount, Call, Grows
  <2>. QED
    BY <1>6, <2>1, <2>2, HandlersKept DEF BeginConsume, Begins
<1>7. ASSUME NEW e \in Emails, NEW ph \in Phones \cup {Nil}, PersonForAccount(c, e, ph)
      PROVE  TablesOK' /\ Grows /\ HandlersOK'
  <2>1. TablesOK' /\ Grows
    BY <1>7, NothingWritten DEF PersonForAccount
  <2>. DEFINE call == [Call("newPerson", "own", e) EXCEPT !.email = e, !.phone = ph]
  <2>2. CASE Begins(c, call)
    <3>1. handler'[c] # Nil => HandlerOK(handler[c])'
      <4>1. handler'[c] = call
        BY <2>2 DEF Begins, HandlersOK
      <4>2. Known(e)'
        BY <1>7, <2>1 DEF PersonForAccount, Known, Grows
      <4>. QED
        BY <4>1, <4>2 DEF HandlerOK, WithAccount, Call, Known
    <3>. QED
      BY <2>1, <2>2, <3>1, HandlersKept DEF Begins
  <2>3. ASSUME NEW p \in People, Live(person[p]), person[p].of = Nil,
               Begins(c, [call EXCEPT !.at = "found", !.id = p, !.copy = person[p]])
        PROVE  HandlersOK'
    <3>1. OwnerOK(person[p])
      BY <2>3 DEF Live, TablesOK, PersonsOK
    <3>2. handler'[c] # Nil => HandlerOK(handler[c])'
      <4>1. handler'[c] = [call EXCEPT !.at = "found", !.id = p, !.copy = person[p]]
        BY <2>3 DEF Begins, HandlersOK
      <4>2. Known(e)'
        BY <1>7, <2>1 DEF PersonForAccount, Known, Grows
      <4>3. OwnerOK(person[p])'
        BY <2>3, <3>1, <1>7 DEF OwnerOK, PersonForAccount, identityVars
      <4>4. person' = person
        BY <1>7 DEF PersonForAccount, identityVars
      <4>. QED
        BY <4>1, <4>2, <4>3, <4>4 DEF HandlerOK, OwnerOK, WithAccount, Call, Known
    <3>. QED
      BY <2>1, <2>3, <3>2, HandlersKept DEF Begins
  <2>. QED
    BY <1>7, <2>1, <2>2, <2>3 DEF PersonForAccount, Matches, Of
<1>8. ASSUME NEW e \in Emails, NEW x \in Emails \cup {Nil}, NEW ph \in Phones \cup {Nil},
             CreateClient(c, e, x, ph)
      PROVE  TablesOK' /\ Grows /\ HandlersOK'
  <2>1. TablesOK' /\ Grows
    BY <1>8, NothingWritten DEF CreateClient
  <2>2. Known(e)
    BY <1>8 DEF CreateClient, ThePros, Live, TablesOK, ProsOK
  <2>3. handler'[c] # Nil => HandlerOK(handler[c])'
    BY <1>8, <2>1, <2>2
    DEF CreateClient, Begins, HandlersOK, HandlerOK, Known, WithAccount, Call, Grows, Seekers
  <2>. QED
    BY <1>8, <2>1, <2>3, HandlersKept DEF CreateClient, Begins
<1>9. ASSUME NEW i \in Invites, BeginCancel(c, i) \/ BeginAccept(c, i)
      PROVE  TablesOK' /\ Grows /\ HandlersOK'
  <2>1. PICK at \in {"invite", "join", "rejoin"}, is \in {"cancelled", "expired", "accepted"} :
          /\ InviteCall(c, at, i, is) /\ invite[i] # Nil
          /\ at = "invite" => is # "accepted"
    BY <1>9 DEF BeginCancel, BeginAccept, CanAccept, AcceptAt
  <2>2. TablesOK' /\ Grows
    BY <2>1, NothingWritten DEF InviteCall
  <2>3. handler'[c] # Nil => HandlerOK(handler[c])'
    BY <2>1, <2>2
    DEF InviteCall, Begins, HandlersOK, HandlerOK, WithAccount, Call, Grows, TablesOK, InvitesOK, IsInvite, Invite
  <2>. QED
    BY <2>1, <2>2, <2>3, HandlersKept DEF InviteCall, Begins
<1>. QED
  BY <1>1, <1>2, <1>3, <1>4, <1>5, <1>6, <1>7, <1>8, <1>9 DEF HandlerBegins
-----------------------------------------------------------------------------
(* Statements of calls under way.                                           *)

(* The row of the call, saved: every edit leaves it enterable.              *)
LEMMA RowSaved ==
  ASSUME DeedInv, NEW c \in Handlers, NEW r, Enterable(r), handler[c] # Nil,
         account' = [account EXCEPT ![handler[c].e] = r], UNCHANGED <<person, workVars, mailVars>>
  PROVE  TablesOK' /\ Grows /\ account'[handler[c].e] # Nil
<1>1. handler[c].e \in Emails
  BY DEF DeedInv, HandlersOK, HandlerOK
<1>2. AccountsOK' /\ (\A x \in Emails : Known(x) => account'[x] # Nil) /\ account'[handler[c].e] # Nil
  BY <1>1, RowsAreRows DEF DeedInv, TablesOK, AccountsOK, Known
<1>. QED
  BY <1>2, OnlyAccounts

LEMMA AccountStepsKept ==
  ASSUME DeedInv, NEW c \in Handlers,
         Claim(c) \/ Issue(c) \/ Google(c) \/ SetStatus(c) \/ Apply(c) \/ Reclaim(c) \/ ResetLogsOut(c)
  PROVE  TablesOK' /\ Grows /\ HandlersOK'
<1>. USE DEF DeedInv
<1>. DEFINE h == handler[c]
<1>1. handler[c] # Nil /\ HandlerOK(handler[c]) /\ handler[c].e \in Emails
  BY DEF Claim, Issue, Google, SetStatus, Apply, Reclaim, ResetLogsOut, At, HandlersOK, HandlerOK
<1>2. CASE Claim(c)
  <2>. DEFINE new == IF h.copy = Nil THEN NewAccount ELSE [h.copy EXCEPT !.password = TRUE, !.claimed = TRUE]
  <2>1. Enterable(new)
    BY <1>1, <1>2, FreshRows, EditedRows DEF Claim, At, HandlerOK
  <2>2. CASE Ends(c) /\ UNCHANGED account
    <3>1. TablesOK' /\ Grows
      BY <1>2, <2>2, NothingWritten DEF Claim, identityVars
    <3>2. handler'[c] # Nil => HandlerOK(handler[c])'
      BY <2>2 DEF Ends, HandlersOK
    <3>. QED
      BY <2>2, <3>1, <3>2, HandlersKept DEF Ends
  <2>3. CASE /\ account' = [account EXCEPT ![h.e] = new]
             /\ Goes(c, IF h.as = "comercial" THEN "comercio" ELSE "person")
    <3>1. TablesOK' /\ Grows /\ account'[handler[c].e] # Nil
      BY <1>1, <1>2, <2>1, <2>3, RowSaved DEF Claim
    <3>2. handler'[c] # Nil => HandlerOK(handler[c])'
      BY <1>1, <1>2, <2>3, <3>1
      DEF Claim, At, Goes, HandlersOK, HandlerOK, Known, Seekers, WithAccount
    <3>. QED
      BY <2>3, <3>1, <3>2, HandlersKept DEF Goes
  <2>. QED
    BY <1>2, <2>2, <2>3 DEF Claim
<1>3. CASE Issue(c) \/ ResetLogsOut(c)
  <2>1. PICK b \in BOOLEAN : account' = [account EXCEPT ![h.e] = [account[h.e] EXCEPT !.session = b]]
    BY <1>3 DEF Issue, ResetLogsOut
  <2>2. Known(h.e)
    BY <1>1, <1>3 DEF Issue, ResetLogsOut, At, HandlerOK, WithAccount
  <2>3. Enterable(account[h.e])
    BY <1>1, <2>2 DEF TablesOK, AccountsOK
  <2>4. Enterable([account[h.e] EXCEPT !.session = b])
    BY <2>3, EditedRows
  <2>5. TablesOK' /\ Grows
    BY <1>1, <1>3, <2>1, <2>4, RowSaved DEF Issue, ResetLogsOut
  <2>6. handler'[c] # Nil => HandlerOK(handler[c])'
    BY <1>3 DEF Issue, ResetLogsOut, Ends, HandlersOK
  <2>. QED
    BY <1>3, <2>5, <2>6, HandlersKept DEF Issue, ResetLogsOut, Ends
<1>4. CASE Google(c)
  <2>. DEFINE old == IF h.copy = Nil THEN [NewAccount EXCEPT !.password = FALSE] ELSE h.copy
              new == [old EXCEPT !.google = TRUE, !.claimed = TRUE, !.verified = TRUE]
  <2>1. Enterable(new)
    <3>1. CASE h.copy = Nil
      BY <3>1 DEF NewAccount, Enterable, Account
    <3>2. CASE h.copy # Nil
      BY <3>2, <1>1, <1>4, EditedRows DEF Google, At, HandlerOK
    <3>. QED
      BY <3>1, <3>2
  <2>2. CASE Ends(c) /\ UNCHANGED account
    <3>1. TablesOK' /\ Grows
      BY <1>4, <2>2, NothingWritten DEF Google, identityVars
    <3>2. handler'[c] # Nil => HandlerOK(handler[c])'
      BY <2>2 DEF Ends, HandlersOK
    <3>. QED
      BY <2>2, <3>1, <3>2, HandlersKept DEF Ends
  <2>3. CASE /\ account' = [account EXCEPT ![h.e] = new]
             /\ Goes(c, "person") \/ Goes(c, "issue") \/ Ends(c)
    <3>1. TablesOK' /\ Grows /\ account'[handler[c].e] # Nil
      BY <1>1, <1>4, <2>1, <2>3, RowSaved DEF Google
    <3>2. handler'[c] # Nil => HandlerOK(handler[c])'
      BY <1>1, <1>4, <2>3, <3>1
      DEF Google, At, Goes, Ends, HandlersOK, HandlerOK, Known, Seekers, WithAccount
    <3>. QED
      BY <2>3, <3>1, <3>2, HandlersKept DEF Goes, Ends
  <2>. QED
    BY <1>4, <2>2, <2>3 DEF Google
<1>5. CASE SetStatus(c)
  <2>. DEFINE blocks == h.as = "block"
              new == [h.copy EXCEPT !.blocked = blocks, !.session = @ /\ ~blocks]
  <2>1. Enterable(new)
    <3>1. Enterable(h.copy)
      BY <1>1, <1>5 DEF SetStatus, At, HandlerOK
    <3>2. CASE h.as = "block"
      <4>1. new = [h.copy EXCEPT !.blocked = TRUE, !.session = FALSE]
        BY <3>2
      <4>. QED
        BY <3>1, <4>1, EditedRows
    <3>3. CASE h.as # "block"
      <4>1. h.copy.session \in BOOLEAN /\ h.copy \in Account
        BY <3>1 DEF Enterable, Account
      <4>2. new = [h.copy EXCEPT !.blocked = FALSE, !.session = h.copy.session]
        BY <3>3, <4>1
      <4>. QED
        BY <3>1, <4>1, <4>2, EditedRows
    <3>. QED
      BY <3>2, <3>3
  <2>2. TablesOK' /\ Grows
    BY <1>1, <1>5, <2>1, RowSaved DEF SetStatus
  <2>3. handler'[c] # Nil => HandlerOK(handler[c])'
    BY <1>5 DEF SetStatus, Ends, HandlersOK
  <2>. QED
    BY <1>5, <2>2, <2>3, HandlersKept DEF SetStatus, Ends
<1>6. CASE Apply(c)
  <2>1. ASSUME Ends(c) /\ UNCHANGED account
        PROVE  TablesOK' /\ Grows /\ HandlersOK'
    <3>1. TablesOK' /\ Grows
      BY <1>6, <2>1, NothingWritten DEF Apply, identityVars
    <3>2. handler'[c] # Nil => HandlerOK(handler[c])'
      BY <2>1 DEF Ends, HandlersOK
    <3>. QED
      BY <2>1, <3>1, <3>2, HandlersKept DEF Ends
  <2>2. ASSUME Known(h.e), Ends(c) \/ Goes(c, "logout"), NEW r,
               account' = [account EXCEPT ![h.e] = r],
               \/ r = [account[h.e] EXCEPT !.verified = TRUE]
               \/ r = [account[h.e] EXCEPT !.password = TRUE, !.claimed = TRUE]
        PROVE  TablesOK' /\ Grows /\ HandlersOK'
    <3>1. Enterable(account[h.e])
      BY <1>1, <2>2 DEF TablesOK, AccountsOK
    <3>2. Enterable(r)
      BY <2>2, <3>1, EditedRows
    <3>3. TablesOK' /\ Grows /\ account'[handler[c].e] # Nil
      BY <1>1, <1>6, <2>2, <3>2, RowSaved DEF Apply
    <3>4. handler'[c] # Nil => HandlerOK(handler[c])'
      BY <1>1, <2>2, <3>3 DEF Goes, Ends, HandlersOK, HandlerOK, Known, WithAccount
    <3>. QED
      BY <2>2, <3>3, <3>4, HandlersKept DEF Goes, Ends
  <2>3. ASSUME Known(h.e), handler' = [handler EXCEPT ![c].at = "reclaim", ![c].copy = account[h.e]],
               UNCHANGED account
        PROVE  TablesOK' /\ Grows /\ HandlersOK'
    <3>1. TablesOK' /\ Grows
      BY <1>6, <2>3, NothingWritten DEF Apply, identityVars
    <3>2. Enterable(account[h.e])
      BY <1>1, <2>3 DEF TablesOK, AccountsOK
    <3>3. handler'[c] # Nil => HandlerOK(handler[c])'
      BY <1>1, <2>3, <3>1, <3>2
      DEF HandlersOK, HandlerOK, Known, Enterable, Grows, WithAccount
    <3>. QED
      BY <2>3, <3>1, <3>3, HandlersKept
  <2>. QED
    BY <1>6, <2>1, <2>2, <2>3 DEF Apply, WithPassword, Known
<1>7. CASE Reclaim(c)
  <2>. DEFINE new == [[h.copy EXCEPT !.password = TRUE, !.claimed = TRUE] EXCEPT !.verified = TRUE]
  <2>1. Enterable(new)
    <3>1. Enterable(h.copy)
      BY <1>1, <1>7 DEF Reclaim, At, HandlerOK
    <3>2. Enterable([h.copy EXCEPT !.password = TRUE, !.claimed = TRUE])
      BY <3>1, EditedRows
    <3>. QED
      BY <3>2, EditedRows
  <2>2. TablesOK' /\ Grows /\ account'[handler[c].e] # Nil
    BY <1>1, <1>7, <2>1, RowSaved DEF Reclaim, WithPassword
  <2>3. handler'[c] # Nil => HandlerOK(handler[c])'
    BY <1>1, <1>7, <2>2 DEF Reclaim, Goes, HandlersOK, HandlerOK, Known, WithAccount
  <2>. QED
    BY <1>7, <2>2, <2>3, HandlersKept DEF Reclaim, Goes
<1>. QED
  BY <1>2, <1>3, <1>4, <1>5, <1>6, <1>7

LEMMA WorkStepsKept ==
  ASSUME DeedInv, NEW c \in Handlers,
         \/ FindPerson(c) \/ (\E p \in People : InsertPerson(c, p)) \/ Onboard(c) \/ NewComercio(c)
         \/ LinkPerson(c) \/ InsertClient(c) \/ Unassign(c)
  PROVE  TablesOK' /\ Grows /\ HandlersOK'
<1>. USE DEF DeedInv
<1>. DEFINE h == handler[c]
<1>1. handler[c] # Nil /\ HandlerOK(handler[c]) /\ handler[c].e \in Emails
  BY DEF FindPerson, InsertPerson, Onboard, NewComercio, LinkPerson, InsertClient, Unassign, At,
         HandlersOK, HandlerOK
<1>2. h.as \in Seekers => AfterPerson(h) \in {"issue", "onboard", "client"}
  BY DEF Seekers, AfterPerson
<1>3. CASE FindPerson(c)
  <2>1. TablesOK' /\ Grows
    BY <1>3, NothingWritten DEF FindPerson
  <2>2. PICK at \in {"newPerson", "issue", "onboard", "client"} :
          Goes(c, at) \/ \E p \in People : handler' = [handler EXCEPT ![c].at = at, ![c].id = p]
    BY <1>1, <1>2, <1>3 DEF FindPerson, HandlerOK, Matches, Of, At
  <2>3. handler'[c] # Nil => HandlerOK(handler[c])'
    BY <1>1, <1>3, <2>1, <2>2
    DEF FindPerson, At, Goes, HandlersOK, HandlerOK, Known, WithAccount, Grows, Seekers
  <2>. QED
    BY <2>1, <2>2, <2>3, HandlersKept DEF Goes
<1>4. ASSUME NEW p \in People, InsertPerson(c, p)
      PROVE  TablesOK' /\ Grows /\ HandlersOK'
  <2>1. PersonsOK'
    BY <1>1, <1>4 DEF InsertPerson, At, HandlerOK, TablesOK, PersonsOK, OwnerOK, Known, WithAccount
  <2>2. ProsOK' /\ PlacesOK'
    BY <1>4, NamesKept DEF InsertPerson, TablesOK, workVars, Known
  <2>3. TablesOK' /\ Grows
    BY <1>4, <2>1, <2>2, OnlyNames DEF InsertPerson, workVars
  <2>4. PICK at \in {"issue", "onboard", "client"} :
          Ends(c) \/ handler' = [handler EXCEPT ![c].at = at, ![c].id = p]
    BY <1>1, <1>2, <1>4 DEF InsertPerson, HandlerOK, At
  <2>5. handler'[c] # Nil => HandlerOK(handler[c])'
    BY <1>1, <1>4, <2>3, <2>4
    DEF InsertPerson, At, Ends, HandlersOK, HandlerOK, Known, WithAccount, Grows
  <2>. QED
    BY <2>3, <2>4, <2>5, HandlersKept DEF Ends
<1>5. CASE Onboard(c)
  <2>1. Known(h.e)
    BY <1>1, <1>5 DEF Onboard, At, HandlerOK, WithAccount
  <2>2. CASE Ends(c) /\ UNCHANGED <<pro, place, member>>
    <3>1. TablesOK' /\ Grows
      BY <1>5, <2>2, NothingWritten DEF Onboard, workVars
    <3>2. handler'[c] # Nil => HandlerOK(handler[c])'
      BY <2>2 DEF Ends, HandlersOK
    <3>. QED
      BY <2>2, <3>1, <3>2, HandlersKept DEF Ends
  <2>3. CASE Onboards(h.e, h.slug) /\ (Goes(c, "issue") \/ Ends(c))
    <3>1. AccountsOK' /\ \A e \in Emails : Known(e) => account'[e] # Nil
      BY <1>5 DEF Onboard, TablesOK, AccountsOK, Known, identityVars
    <3>2. ProsOK'
      BY <1>1, <1>5, <2>1, <2>3 DEF Onboard, Onboards, TablesOK, ProsOK, Known, identityVars
    <3>3. PlacesOK'
      <4>1. CASE place' = place
        BY <4>1, <3>1, NamesKept DEF TablesOK
      <4>2. CASE place' = [place EXCEPT ![h.slug] = [owner |-> h.e, personal |-> TRUE, dead |-> FALSE]]
        BY <1>1, <2>1, <3>1, <4>2 DEF TablesOK, PlacesOK, Known
      <4>. QED
        BY <2>3, <4>1, <4>2 DEF Onboards
    <3>4. PersonsOK'
      BY <1>5, <3>1, NamesKept DEF Onboard, TablesOK, identityVars
    <3>5. MembersOK' /\ \A k \in Emails \X Slugs : member[k] # Nil => member'[k] # Nil
      <4>1. NewMember \in Member
        BY DEF Member, NewMember
      <4>2. NewMember # Nil
        BY <4>1, MembersAreRows
      <4>. QED
        BY <2>3, <4>1, <4>2 DEF Onboards, TablesOK, MembersOK
    <3>6. InvitesOK' /\ CodesOK'
      BY <1>5, <3>5, InvitesKept DEF Onboard, TablesOK, CodesOK, mailVars
    <3>7. TablesOK' /\ Grows
      BY <1>5, <3>1, <3>2, <3>3, <3>4, <3>5, <3>6 DEF Onboard, TablesOK, Grows, mailVars
    <3>8. handler'[c] # Nil => HandlerOK(handler[c])'
      BY <1>1, <2>1, <2>3, <3>7 DEF Goes, Ends, HandlersOK, HandlerOK, Known, WithAccount, Grows
    <3>. QED
      BY <2>3, <3>7, <3>8, HandlersKept DEF Goes, Ends
  <2>. QED
    BY <1>5, <2>2, <2>3 DEF Onboard
<1>6. CASE NewComercio(c)
  <2>1. Known(h.e)
    BY <1>1, <1>6 DEF NewComercio, At, HandlerOK, WithAccount
  <2>2. PlacesOK'
    <3>1. CASE place' = place
      BY <1>6, <3>1, NamesKept DEF NewComercio, TablesOK, identityVars, Known
    <3>2. CASE place' = [place EXCEPT ![h.slug] = [owner |-> h.e, personal |-> FALSE, dead |-> FALSE]]
      BY <1>1, <1>6, <2>1, <3>2 DEF NewComercio, TablesOK, PlacesOK, Known, identityVars
    <3>. QED
      BY <1>6, <3>1, <3>2 DEF NewComercio
  <2>3. ProsOK' /\ PersonsOK'
    BY <1>6, NamesKept DEF NewComercio, TablesOK, identityVars, Known
  <2>4. TablesOK' /\ Grows
    BY <1>6, <2>2, <2>3, OnlyNames DEF NewComercio, identityVars
  <2>5. Goes(c, "issue") \/ Ends(c)
    BY <1>6 DEF NewComercio
  <2>6. handler'[c] # Nil => HandlerOK(handler[c])'
    BY <1>1, <2>1, <2>4, <2>5 DEF Goes, Ends, HandlersOK, HandlerOK, Known, WithAccount, Grows
  <2>. QED
    BY <2>4, <2>5, <2>6, HandlersKept DEF Goes, Ends
<1>7. CASE LinkPerson(c)
  <2>1. PersonsOK'
    BY <1>1, <1>7 DEF LinkPerson, At, HandlerOK, TablesOK, PersonsOK, OwnerOK, Known, WithAccount
  <2>2. ProsOK' /\ PlacesOK'
    BY <1>7, NamesKept DEF LinkPerson, TablesOK, workVars, Known
  <2>3. TablesOK' /\ Grows
    BY <1>7, <2>1, <2>2, OnlyNames DEF LinkPerson, workVars
  <2>4. handler'[c] # Nil => HandlerOK(handler[c])'
    BY <1>7 DEF LinkPerson, Ends, HandlersOK
  <2>. QED
    BY <1>7, <2>3, <2>4, HandlersKept DEF LinkPerson, Ends
<1>8. CASE InsertClient(c)
  <2>1. TablesOK' /\ Grows
    BY <1>8, OnlyMembers DEF InsertClient, TablesOK, MembersOK
  <2>2. handler'[c] # Nil => HandlerOK(handler[c])'
    BY <1>8 DEF InsertClient, Ends, HandlersOK
  <2>. QED
    BY <1>8, <2>1, <2>2, HandlersKept DEF InsertClient, Ends
<1>9. CASE Unassign(c)
  <2>. DEFINE k == <<h.e, h.slug>>
  <2>1. k \in Emails \X Slugs /\ member[k] \in Member
    BY <1>1, <1>9 DEF Unassign, At, HandlerOK, TablesOK, MembersOK
  <2>2. [member[k] EXCEPT !.assigned = FALSE] \in Member
    BY <2>1, MembersAreRows
  <2>3. MembersOK' /\ \A x \in Emails \X Slugs : member[x] # Nil => member'[x] # Nil
    BY <1>9, <2>1, <2>2, MembersAreRows DEF Unassign, TablesOK, MembersOK
  <2>4. TablesOK' /\ Grows
    BY <1>9, <2>3, OnlyMembers DEF Unassign
  <2>5. handler'[c] # Nil => HandlerOK(handler[c])'
    BY <1>9 DEF Unassign, Ends, HandlersOK
  <2>. QED
    BY <1>9, <2>4, <2>5, HandlersKept DEF Unassign, Ends
<1>. QED
  BY <1>3, <1>4, <1>5, <1>6, <1>7, <1>8, <1>9

LEMMA MailStepsKept ==
  ASSUME DeedInv, NEW c \in Handlers, Join(c) \/ SaveInvite(c) \/ Consume(c) \/ HandlerCut(c)
  PROVE  TablesOK' /\ Grows /\ HandlersOK'
<1>. USE DEF DeedInv
<1>. DEFINE h == handler[c]
<1>1. handler[c] # Nil /\ HandlerOK(handler[c]) /\ handler[c].e \in Emails
  BY DEF Join, SaveInvite, Consume, HandlerCut, At, HandlersOK, HandlerOK
<1>2. CASE Join(c)
  <2>. DEFINE k == <<h.e, h.slug>>
  <2>1. /\ h.id \in Invites /\ IsInvite(invite[h.id])
        /\ h.e = invite[h.id].to /\ h.slug = invite[h.id].place
    BY <1>1, <1>2 DEF Join, At, HandlerOK
  <2>2. k \in Emails \X Slugs
    BY <2>1 DEF IsInvite, Invite
  <2>3. CASE Refused(h.e, h.slug)
    <3>1. TablesOK' /\ Grows
      BY <1>2, <2>3, OnlyMembers DEF Join, TablesOK, MembersOK
    <3>2. handler'[c] # Nil => HandlerOK(handler[c])'
      BY <1>2, <2>3 DEF Join, Ends, HandlersOK
    <3>. QED
      BY <1>2, <2>3, <3>1, <3>2, HandlersKept DEF Join, Ends
  <2>4. CASE ~Refused(h.e, h.slug)
    <3>1. member' = Joined(h.e, h.slug)
      BY <1>2, <2>4 DEF Join
    <3>2. PICK m \in Member : member' = [member EXCEPT ![k] = m]
      <4>1. CASE member[k] = Nil
        <5>1. NewMember \in Member
          BY DEF Member, NewMember
        <5>. QED
          BY <3>1, <4>1, <5>1 DEF Joined, MemberOf
      <4>2. CASE member[k] # Nil
        <5>1. member[k] \in Member
          BY <2>2, <4>2 DEF TablesOK, MembersOK
        <5>2. [member[k] EXCEPT !.active = TRUE] \in Member
          BY <5>1, MembersAreRows
        <5>. QED
          BY <3>1, <4>2, <5>2 DEF Joined, MemberOf
      <4>. QED
        BY <4>1, <4>2
    <3>3. /\ MembersOK' /\ (\A x \in Emails \X Slugs : member[x] # Nil => member'[x] # Nil)
          /\ member'[k] # Nil
      BY <2>2, <3>2, MembersAreRows DEF TablesOK, MembersOK
    <3>4. TablesOK' /\ Grows
      BY <1>2, <3>3, OnlyMembers DEF Join
    <3>5. Goes(c, "invite") \/ Ends(c)
      BY <1>2 DEF Join
    <3>6. handler'[c] # Nil => HandlerOK(handler[c])'
      <4>1. CASE Ends(c)
        BY <4>1 DEF Ends, HandlersOK
      <4>2. CASE Goes(c, "invite")
        <5>1. handler'[c] = [handler[c] EXCEPT !.at = "invite"] /\ invite' = invite
          BY <1>2, <4>2 DEF Join, Goes, HandlersOK, mailVars
        <5>2. handler[c].copy.is \in {"accepted", "cancelled", "expired"}
          BY <1>1, <1>2 DEF Join, At, HandlerOK
        <5>. QED
          BY <1>1, <2>1, <3>3, <5>1, <5>2 DEF HandlerOK, WithAccount, IsInvite
      <4>. QED
        BY <3>5, <4>1, <4>2
    <3>. QED
      BY <3>4, <3>5, <3>6, HandlersKept DEF Goes, Ends
  <2>. QED
    BY <2>3, <2>4
<1>3. CASE SaveInvite(c)
  <2>1. /\ h.id \in Invites /\ IsInvite(invite[h.id])
        /\ h.copy.is = "accepted" => member[<<invite[h.id].to, invite[h.id].place>>] # Nil
        /\ h.copy.is \in {"accepted", "cancelled", "expired"}
    BY <1>1, <1>3 DEF SaveInvite, At, HandlerOK
  <2>. DEFINE new == [invite[h.id] EXCEPT !.is = h.copy.is]
  <2>6. IsInvite(new) /\ new.to = invite[h.id].to /\ new.place = invite[h.id].place /\ new.is = h.copy.is
    <3>1. new \in Invite
      BY <2>1 DEF IsInvite, Invite
    <3>. QED
      BY <2>1, <3>1, InvitesAreRows DEF IsInvite, Invite
  <2>2. InvitesOK' /\ \A i \in Invites : IsInvite(invite[i]) =>
          IsInvite(invite'[i]) /\ invite'[i].to = invite[i].to /\ invite'[i].place = invite[i].place
    <3>1. invite' = [invite EXCEPT ![h.id] = new] /\ UNCHANGED member
      BY <1>3 DEF SaveInvite, workVars
    <3>. HIDE DEF new
    <3>. QED
      BY <2>1, <2>6, <3>1 DEF TablesOK, InvitesOK
  <2>3. CodesOK' /\ \A k \in Codes : IsCode(code[k]) => IsCode(code'[k])
    BY <1>3 DEF SaveInvite, TablesOK, CodesOK, IsCode, Code
  <2>4. TablesOK' /\ Grows
    BY <1>3, <2>2, <2>3, OnlyMail DEF SaveInvite
  <2>5. handler'[c] # Nil => HandlerOK(handler[c])'
    BY <1>3 DEF SaveInvite, Ends, HandlersOK
  <2>. QED
    BY <1>3, <2>4, <2>5, HandlersKept DEF SaveInvite, Ends
<1>4. CASE Consume(c)
  <2>1. h.id \in Codes /\ IsCode(code[h.id])
    BY <1>1, <1>4 DEF Consume, At, HandlerOK
  <2>2. CodesOK' /\ \A k \in Codes : IsCode(code[k]) => IsCode(code'[k])
    BY <1>4, <2>1 DEF Consume, TablesOK, CodesOK, IsCode, Code
  <2>3. InvitesOK' /\ \A i \in Invites : IsInvite(invite[i]) =>
          IsInvite(invite'[i]) /\ invite'[i].to = invite[i].to /\ invite'[i].place = invite[i].place
    BY <1>4 DEF Consume, TablesOK, InvitesOK, IsInvite, workVars
  <2>4. TablesOK' /\ Grows
    BY <1>4, <2>2, <2>3, OnlyMail DEF Consume
  <2>5. handler'[c] # Nil => HandlerOK(handler[c])'
    BY <1>1, <1>4, <2>4 DEF Consume, Goes, HandlersOK, HandlerOK, WithAccount
  <2>. QED
    BY <1>4, <2>4, <2>5, HandlersKept DEF Consume, Goes
<1>5. CASE HandlerCut(c)
  <2>1. TablesOK' /\ Grows
    BY <1>5, NothingWritten DEF HandlerCut
  <2>2. handler'[c] # Nil => HandlerOK(handler[c])'
    BY <1>5 DEF HandlerCut, HandlersOK
  <2>. QED
    BY <1>5, <2>1, <2>2, HandlersKept DEF HandlerCut
<1>. QED
  BY <1>2, <1>3, <1>4, <1>5
-----------------------------------------------------------------------------
(* Calls of one statement, and deletion.                                    *)

LEMMA AtOnceKept ==
  ASSUME DeedInv,
         \/ \E e \in Emails : Logout(e)
         \/ \E k \in Codes, e \in Emails, for \in Purposes : RequestCode(k, e, for)
         \/ \E k \in Codes : CodeLapses(k)
         \/ \E k \in Emails \X People : ArchiveClient(k)
         \/ \E e \in Emails, s \in Slugs : AssignServices(e, s)
         \/ \E i \in Invites, e \in Emails, s \in Slugs : SendInvitation(i, e, s)
         \/ \E i \in Invites : InviteLapses(i)
  PROVE  TablesOK' /\ Grows /\ HandlersOK'
<1>. USE DEF DeedInv
<1>1. ASSUME NEW e \in Emails, Logout(e) PROVE TablesOK' /\ Grows /\ HandlersOK'
  <2>1. Enterable([account[e] EXCEPT !.session = FALSE])
    BY <1>1, EditedRows DEF Logout, TablesOK, AccountsOK, Known
  <2>2. account' = [account EXCEPT ![e] = [account[e] EXCEPT !.session = FALSE]]
    BY <1>1 DEF Logout
  <2>3. AccountsOK' /\ \A x \in Emails : Known(x) => account'[x] # Nil
    BY <2>1, <2>2, AccountWritten DEF TablesOK
  <2>4. TablesOK' /\ Grows
    BY <1>1, <2>3, OnlyAccounts DEF Logout
  <2>. QED
    BY <1>1, <2>4, HandlersStay DEF Logout, AtOnce
<1>2. ASSUME NEW k \in Codes, NEW e \in Emails, NEW for \in Purposes, RequestCode(k, e, for)
      PROVE  TablesOK' /\ Grows /\ HandlersOK'
  <2>1. CodesOK' /\ \A x \in Codes : IsCode(code[x]) => IsCode(code'[x])
    BY <1>2 DEF RequestCode, TablesOK, CodesOK, IsCode, Code
  <2>2. InvitesOK' /\ \A i \in Invites : IsInvite(invite[i]) =>
          IsInvite(invite'[i]) /\ invite'[i].to = invite[i].to /\ invite'[i].place = invite[i].place
    BY <1>2 DEF RequestCode, TablesOK, InvitesOK, IsInvite, workVars
  <2>3. TablesOK' /\ Grows
    BY <1>2, <2>1, <2>2, OnlyMail DEF RequestCode
  <2>. QED
    BY <1>2, <2>3, HandlersStay DEF RequestCode, AtOnce
<1>3. ASSUME NEW k \in Codes, CodeLapses(k) PROVE TablesOK' /\ Grows /\ HandlersOK'
  <2>1. CodesOK' /\ \A x \in Codes : IsCode(code[x]) => IsCode(code'[x])
    BY <1>3 DEF CodeLapses, TablesOK, CodesOK, IsCode, Code
  <2>2. InvitesOK' /\ \A i \in Invites : IsInvite(invite[i]) =>
          IsInvite(invite'[i]) /\ invite'[i].to = invite[i].to /\ invite'[i].place = invite[i].place
    BY <1>3 DEF CodeLapses, TablesOK, InvitesOK, IsInvite, workVars
  <2>3. TablesOK' /\ Grows
    BY <1>3, <2>1, <2>2, OnlyMail DEF CodeLapses
  <2>. QED
    BY <1>3, <2>3, HandlersStay DEF CodeLapses
<1>4. ASSUME NEW k \in Emails \X People, ArchiveClient(k) PROVE TablesOK' /\ Grows /\ HandlersOK'
  <2>1. TablesOK' /\ Grows
    BY <1>4, OnlyMembers DEF ArchiveClient, TablesOK, MembersOK
  <2>. QED
    BY <1>4, <2>1, HandlersStay DEF ArchiveClient, AtOnce
<1>5. ASSUME NEW e \in Emails, NEW s \in Slugs, AssignServices(e, s) PROVE TablesOK' /\ Grows /\ HandlersOK'
  <2>1. member[<<e, s>>] \in Member
    BY <1>5 DEF AssignServices, Live, MemberOf, TablesOK, MembersOK
  <2>2. MembersOK' /\ \A x \in Emails \X Slugs : member[x] # Nil => member'[x] # Nil
    BY <1>5, <2>1, MembersAreRows DEF AssignServices, TablesOK, MembersOK
  <2>3. TablesOK' /\ Grows
    BY <1>5, <2>2, OnlyMembers DEF AssignServices
  <2>. QED
    BY <1>5, <2>3, HandlersStay DEF AssignServices, AtOnce
<1>6. ASSUME NEW i \in Invites, \/ InviteLapses(i)
                               \/ \E e \in Emails, s \in Slugs : SendInvitation(i, e, s)
      PROVE  TablesOK' /\ Grows /\ HandlersOK'
  <2>1. UNCHANGED <<identityVars, workVars, code, handler>>
    BY <1>6 DEF InviteLapses, SendInvitation, AtOnce
  <2>2. CodesOK' /\ \A x \in Codes : IsCode(code[x]) => IsCode(code'[x])
    BY <2>1 DEF TablesOK, CodesOK, IsCode, Code
  <2>3. InvitesOK' /\ \A x \in Invites : IsInvite(invite[x]) =>
          IsInvite(invite'[x]) /\ invite'[x].to = invite[x].to /\ invite'[x].place = invite[x].place
    <3>1. CASE InviteLapses(i)
      <4>. DEFINE new == [invite[i] EXCEPT !.lapsed = TRUE]
      <4>1. invite' = [invite EXCEPT ![i] = new] /\ UNCHANGED member /\ invite[i] # Nil
        BY <2>1, <3>1 DEF InviteLapses, workVars
      <4>2. invite[i] \in Invite
        BY <4>1 DEF TablesOK, InvitesOK, IsInvite
      <4>3. new \in Invite /\ new.to = invite[i].to /\ new.place = invite[i].place /\ new.is = invite[i].is
        BY <4>2 DEF Invite
      <4>4. IsInvite(new)
        BY <4>3, InvitesAreRows
      <4>. HIDE DEF new
      <4>. QED
        BY <4>1, <4>3, <4>4 DEF TablesOK, InvitesOK
    <3>2. ASSUME NEW e \in Emails, NEW s \in Slugs, SendInvitation(i, e, s)
          PROVE  InvitesOK' /\ \A x \in Invites : IsInvite(invite[x]) =>
                   IsInvite(invite'[x]) /\ invite'[x].to = invite[x].to /\ invite'[x].place = invite[x].place
      <4>. DEFINE new == [to |-> e, place |-> s, is |-> "pending", lapsed |-> FALSE]
      <4>1. invite' = [invite EXCEPT ![i] = new] /\ UNCHANGED member /\ invite[i] = Nil
        BY <2>1, <3>2 DEF SendInvitation, workVars
      <4>2. new \in Invite /\ new.is = "pending"
        BY DEF Invite
      <4>3. IsInvite(new)
        BY <4>2, InvitesAreRows
      <4>. HIDE DEF new
      <4>. QED
        BY <4>1, <4>2, <4>3 DEF TablesOK, InvitesOK, IsInvite
    <3>. QED
      BY <1>6, <3>1, <3>2
  <2>4. TablesOK' /\ Grows
    BY <2>1, <2>2, <2>3, OnlyMail
  <2>. QED
    BY <2>1, <2>4, HandlersStay
<1>. QED
  BY <1>1, <1>2, <1>3, <1>4, <1>5, <1>6

(* Rows marked as deleted, or no longer so.                                 *)
LEMMA MembersDie ==
  ASSUME MembersOK, NEW S, NEW d \in BOOLEAN
  PROVE  /\ Dies(member, S, d) \in [Emails \X Slugs -> Member \cup {Nil}]
         /\ \A k \in Emails \X Slugs : member[k] # Nil => Dies(member, S, d)[k] # Nil
<1>1. ASSUME NEW k \in Emails \X Slugs, member[k] # Nil
      PROVE  Dies(member, S, d)[k] \in Member /\ Dies(member, S, d)[k] # Nil
  <2>1. member[k] \in Member /\ [member[k] EXCEPT !.dead = d] \in Member
    BY <1>1, MembersAreRows DEF MembersOK
  <2>2. Dies(member, S, d)[k] \in {member[k], [member[k] EXCEPT !.dead = d]}
    BY DEF Dies, MembersOK
  <2>. QED
    BY <2>1, <2>2, MembersAreRows
<1>2. ASSUME NEW k \in Emails \X Slugs, member[k] = Nil PROVE Dies(member, S, d)[k] = Nil
  BY <1>2 DEF Dies, MembersOK
<1>3. Dies(member, S, d) = [k \in Emails \X Slugs |-> Dies(member, S, d)[k]]
  BY DEF Dies, MembersOK
<1>. QED
  BY <1>1, <1>2, <1>3

(* An account blocked or reactivated, if it exists.                         *)
LEMMA AccountRuled ==
  ASSUME AccountsOK, NEW e,
         account' = Revoked(e) \/ (account' = Reactivated(e) /\ (e \in Emails => Known(e))) \/ account' = account
  PROVE  AccountsOK' /\ \A x \in Emails : Known(x) => account'[x] # Nil
<1>1. CASE e \notin Emails \/ ~Known(e) \/ account' = account
  <2>1. DOMAIN account' = Emails /\ \A x \in Emails : account'[x] = account[x]
    BY <1>1 DEF AccountsOK, Revoked, Reactivated, Known
  <2>. QED
    BY <2>1 DEF AccountsOK, Known
<1>2. CASE e \in Emails /\ Known(e) /\ account' # account
  <2>1. Enterable(account[e])
    BY <1>2 DEF AccountsOK
  <2>2. \/ account' = [account EXCEPT ![e] = [account[e] EXCEPT !.blocked = TRUE, !.session = FALSE]]
        \/ account' = [account EXCEPT ![e] = [account[e] EXCEPT !.blocked = FALSE]]
    BY <1>2 DEF Revoked, Reactivated, Known, AccountsOK
  <2>. QED
    BY <2>1, <2>2, EditedRows, AccountWritten
<1>. QED
  BY <1>1, <1>2

LEMMA DeletionKept ==
  ASSUME DeedInv,
         \/ \E k \in Emails \X People : DeleteClient(k) \/ RestoreClient(k)
         \/ \E e \in Emails, d \in BOOLEAN : SetProfessionalDead(e, d)
         \/ \E s \in Slugs, d \in BOOLEAN : SetComercioDead(s, d)
  PROVE  TablesOK' /\ Grows /\ HandlersOK'
<1>. USE DEF DeedInv
<1>1. ASSUME NEW k \in Emails \X People, DeleteClient(k) PROVE TablesOK' /\ Grows /\ HandlersOK'
  <2>1. k[2] \in People
    OBVIOUS
  <2>. DEFINE owner == IF person[k[2]] = Nil THEN Nil ELSE person[k[2]].of
  <2>2. account' = Revoked(owner) \/ account' = account
    BY <1>1 DEF DeleteClient
  <2>3. AccountsOK' /\ \A x \in Emails : Known(x) => account'[x] # Nil
    BY <2>2, AccountRuled DEF TablesOK
  <2>4. PersonsOK'
    <3>1. person' = Dies(person, {k[2]}, TRUE) \/ person' = person
      BY <1>1 DEF DeleteClient
    <3>. QED
      BY <2>3, <3>1 DEF Dies, TablesOK, PersonsOK, OwnerOK, Known
  <2>5. ProsOK' /\ PlacesOK'
    BY <1>1, <2>3, NamesKept DEF DeleteClient, TablesOK
  <2>6. MembersOK' /\ InvitesOK' /\ CodesOK'
    BY <1>1, InvitesKept DEF DeleteClient, TablesOK, MembersOK, CodesOK, mailVars
  <2>7. TablesOK' /\ Grows
    BY <1>1, <2>3, <2>4, <2>5, <2>6 DEF DeleteClient, TablesOK, Grows, mailVars
  <2>. QED
    BY <1>1, <2>7, HandlersStay DEF DeleteClient, AtOnce
<1>2. ASSUME NEW k \in Emails \X People, RestoreClient(k) PROVE TablesOK' /\ Grows /\ HandlersOK'
  <2>1. k[2] \in People
    OBVIOUS
  <2>. DEFINE owner == person[k[2]].of
  <2>2. \/ account' = Reactivated(owner) /\ Known(owner)
        \/ account' = account
    BY <1>2, <2>1 DEF RestoreClient, TablesOK, PersonsOK, OwnerOK
  <2>3. AccountsOK' /\ \A x \in Emails : Known(x) => account'[x] # Nil
    BY <2>2, AccountRuled DEF TablesOK
  <2>4. PersonsOK'
    BY <1>2, <2>3 DEF RestoreClient, Dies, TablesOK, PersonsOK, OwnerOK, Known
  <2>5. ProsOK' /\ PlacesOK'
    BY <1>2, <2>3, NamesKept DEF RestoreClient, TablesOK
  <2>6. MembersOK' /\ InvitesOK' /\ CodesOK'
    BY <1>2, InvitesKept DEF RestoreClient, TablesOK, MembersOK, CodesOK, mailVars
  <2>7. TablesOK' /\ Grows
    BY <1>2, <2>3, <2>4, <2>5, <2>6 DEF RestoreClient, TablesOK, Grows, mailVars
  <2>. QED
    BY <1>2, <2>7, HandlersStay DEF RestoreClient, AtOnce
<1>3. ASSUME NEW e \in Emails, NEW d \in BOOLEAN, SetProfessionalDead(e, d)
      PROVE  TablesOK' /\ Grows /\ HandlersOK'
  <2>1. AccountsOK' /\ \A x \in Emails : Known(x) => account'[x] # Nil
    BY <1>3, AccountRuled DEF SetProfessionalDead, TablesOK, ProsOK
  <2>2. ProsOK'
    BY <1>3, <2>1 DEF SetProfessionalDead, Dies, TablesOK, ProsOK, Known
  <2>3. PlacesOK' /\ PersonsOK'
    BY <1>3, <2>1, NamesKept DEF SetProfessionalDead, TablesOK
  <2>4. MembersOK' /\ \A x \in Emails \X Slugs : member[x] # Nil => member'[x] # Nil
    BY <1>3, MembersDie DEF SetProfessionalDead, TablesOK, MembersOK
  <2>5. InvitesOK' /\ CodesOK'
    BY <1>3, <2>4, InvitesKept DEF SetProfessionalDead, TablesOK, CodesOK, mailVars
  <2>6. TablesOK' /\ Grows
    BY <1>3, <2>1, <2>2, <2>3, <2>4, <2>5 DEF SetProfessionalDead, TablesOK, Grows, mailVars
  <2>. QED
    BY <1>3, <2>6, HandlersStay DEF SetProfessionalDead, AtOnce
<1>4. ASSUME NEW s \in Slugs, NEW d \in BOOLEAN, SetComercioDead(s, d)
      PROVE  TablesOK' /\ Grows /\ HandlersOK'
  <2>1. AccountsOK' /\ \A x \in Emails : Known(x) => account'[x] # Nil
    BY <1>4, AccountRuled DEF SetComercioDead, TablesOK, PlacesOK
  <2>2. PlacesOK'
    BY <1>4, <2>1 DEF SetComercioDead, Dies, TablesOK, PlacesOK, Known
  <2>3. ProsOK' /\ PersonsOK'
    BY <1>4, <2>1, NamesKept DEF SetComercioDead, TablesOK
  <2>4. MembersOK' /\ \A x \in Emails \X Slugs : member[x] # Nil => member'[x] # Nil
    BY <1>4, MembersDie DEF SetComercioDead, TablesOK, MembersOK
  <2>5. InvitesOK' /\ CodesOK'
    BY <1>4, <2>4, InvitesKept DEF SetComercioDead, TablesOK, CodesOK, mailVars
  <2>6. TablesOK' /\ Grows
    BY <1>4, <2>1, <2>2, <2>3, <2>4, <2>5 DEF SetComercioDead, TablesOK, Grows, mailVars
  <2>. QED
    BY <1>4, <2>6, HandlersStay DEF SetComercioDead, AtOnce
<1>. QED
  BY <1>1, <1>2, <1>3, <1>4
-----------------------------------------------------------------------------
LEMMA InitDeed == TenancyInit => DeedInv
<1>. SUFFICES ASSUME TenancyInit PROVE DeedInv
  OBVIOUS
<1>1. PICK w \in Worlds :
        /\ account = w.account /\ person = w.person /\ pro = w.pro /\ place = w.place
        /\ member = w.member /\ invite = w.invite
  BY DEF TenancyInit
<1>2. Coherent(w)
  BY StartAssumption
<1>3. AccountsOK /\ ProsOK
  BY <1>1, <1>2 DEF Coherent, AccountsOK, ProsOK, Known, Enterable
<1>4. PlacesOK /\ PersonsOK
  BY <1>1, <1>2 DEF Coherent, PlacesOK, PersonsOK, OwnerOK, Known, Place, Person
<1>5. MembersOK /\ InvitesOK
  BY <1>1, <1>2 DEF Coherent, MembersOK, InvitesOK, IsInvite
<1>6. CodesOK /\ HandlersOK
  BY DEF TenancyInit, CodesOK, HandlersOK
<1>. QED
  BY <1>3, <1>4, <1>5, <1>6 DEF DeedInv, TablesOK

LEMMA DeedStays == DeedInv /\ [TenancyNext]_tenancyVars => DeedInv'
<1>. SUFFICES ASSUME DeedInv, [TenancyNext]_tenancyVars PROVE DeedInv'
  OBVIOUS
<1>1. CASE TenancyNext
  <2>1. ASSUME NEW c \in Handlers, HandlerStep(c) PROVE DeedInv'
    BY <2>1, AccountStepsKept, WorkStepsKept, MailStepsKept DEF HandlerStep, DeedInv
  <2>2. ASSUME NEW c \in Handlers, HandlerBegins(c) PROVE DeedInv'
    BY <2>2, BeginsKept DEF DeedInv
  <2>3. ASSUME NEW c \in Handlers, HandlerCut(c) PROVE DeedInv'
    BY <2>3, MailStepsKept DEF DeedInv
  <2>4. ASSUME \/ \E e \in Emails : Logout(e)
               \/ \E k \in Codes, e \in Emails, for \in Purposes : RequestCode(k, e, for)
               \/ \E k \in Codes : CodeLapses(k)
               \/ \E k \in Emails \X People : ArchiveClient(k)
               \/ \E e \in Emails, s \in Slugs : AssignServices(e, s)
               \/ \E i \in Invites, e \in Emails, s \in Slugs : SendInvitation(i, e, s)
               \/ \E i \in Invites : InviteLapses(i)
        PROVE  DeedInv'
    BY <2>4, AtOnceKept DEF DeedInv
  <2>5. ASSUME \/ \E k \in Emails \X People : DeleteClient(k) \/ RestoreClient(k)
               \/ \E e \in Emails, d \in BOOLEAN : SetProfessionalDead(e, d)
               \/ \E s \in Slugs, d \in BOOLEAN : SetComercioDead(s, d)
        PROVE  DeedInv'
    BY <2>5, DeletionKept DEF DeedInv
  <2>. QED
    BY <1>1, <2>1, <2>2, <2>3, <2>4, <2>5 DEF TenancyNext
<1>2. CASE UNCHANGED tenancyVars
  <2>1. UNCHANGED <<identityVars, workVars, mailVars, handler>>
    BY <1>2 DEF tenancyVars, identityVars, workVars, mailVars
  <2>. QED
    BY <2>1, NothingWritten, HandlersStay DEF DeedInv
<1>. QED
  BY <1>1, <1>2

(* From any coherent start and however calls overlap, are cut short and     *)
(* save copies of an account read before others wrote it (auth.service,     *)
(* accounts.service): register refuses an e-mail exactly when its account   *)
(* can be entered with a password or with Google.                           *)
THEOREM ClaimedCanEnterHolds == TenancySpec => []ClaimedCanEnter
<1>1. DeedInv => ClaimedCanEnter
  BY DEF DeedInv, TablesOK, AccountsOK, Known, Enterable, ClaimedCanEnter
<1>. QED
  BY InitDeed, DeedStays, <1>1, PTL DEF TenancySpec

(* InvitationsService.accept marks an invitation only after the membership  *)
(* is there, and no deletion, restoration or stale save takes it out.       *)
THEOREM AcceptedIsMemberHolds == TenancySpec => []AcceptedIsMember
<1>1. DeedInv => AcceptedIsMember
  BY DEF DeedInv, TablesOK, InvitesOK, MemberOf, AcceptedIsMember
<1>. QED
  BY InitDeed, DeedStays, <1>1, PTL DEF TenancySpec
-----------------------------------------------------------------------------
(* Types.  A call names a slug, a person or a copy only from the step that  *)
(* found one on, so the type needs what each step will use.                 *)
SeekOK(h) ==
  /\ h.at = "claim" /\ h.as # "client" => h.slug \in Slugs
  /\ h.at \in {"person", "newPerson"} /\ h.as = "professional" => h.slug \in Slugs
  /\ h.at \in {"onboard", "comercio"} => h.slug \in Slugs
  /\ h.at = "found" => h.copy \in Person /\ h.id \in People
  /\ h.at = "client" => h.id \in People

AccountType == account \in [Emails -> Account \cup {Nil}]
PersonType == person \in [People -> Person \cup {Nil}]
ProType == pro \in [Emails -> Pro \cup {Nil}]
PlaceType == place \in [Slugs -> Place \cup {Nil}]
ClientType == client \in [Emails \X People -> Client \cup {Nil}]
InviteType == invite \in [Invites -> Invite \cup {Nil}]
CodeType == code \in [Codes -> Code \cup {Nil}]
HandlersType ==
  /\ handler \in [Handlers -> Handler \cup {Nil}] /\ calls \in Nat /\ drops \in Nat
  /\ \A c \in Handlers : handler[c] # Nil => SeekOK(handler[c])
RowTypes == AccountType /\ PersonType /\ ProType /\ PlaceType /\ ClientType /\ InviteType /\ CodeType
TypeInv == DeedInv /\ RowTypes /\ HandlersType

LEMMA TypeInvIsType == TypeInv => TenancyTypeOK
  BY DEF TypeInv, DeedInv, TablesOK, MembersOK, RowTypes, AccountType, PersonType, ProType, PlaceType,
         ClientType, InviteType, CodeType, HandlersType, TenancyTypeOK

LEMMA AllTyped ==
  ASSUME DeedInv', AccountType', PersonType', ProType', PlaceType', ClientType', InviteType', CodeType', HandlersType'
  PROVE  TypeInv'
  BY DEF TypeInv, RowTypes

LEMMA IdentityKept == ASSUME TypeInv, UNCHANGED identityVars PROVE AccountType' /\ PersonType'
  BY DEF TypeInv, RowTypes, AccountType, PersonType, identityVars
LEMMA WorkKept == ASSUME TypeInv, UNCHANGED <<pro, place, client>> PROVE ProType' /\ PlaceType' /\ ClientType'
  BY DEF TypeInv, RowTypes, ProType, PlaceType, ClientType
LEMMA MailKept == ASSUME TypeInv, UNCHANGED mailVars PROVE InviteType' /\ CodeType'
  BY DEF TypeInv, RowTypes, InviteType, CodeType, mailVars

(* What the invariant of the tables says of an account or an invitation     *)
(* that was written is its type.                                            *)
LEMMA AccountsTyped ==
  ASSUME DeedInv', account' = [e \in Emails |-> account'[e]] PROVE AccountType'
  BY DEF DeedInv, TablesOK, AccountsOK, Enterable, Known, AccountType
LEMMA InvitesTyped ==
  ASSUME DeedInv', invite' = [i \in Invites |-> invite'[i]] PROVE InviteType'
  BY DEF DeedInv, TablesOK, InvitesOK, IsInvite, InviteType

LEMMA NothingTyped ==
  ASSUME TypeInv, DeedInv', UNCHANGED <<identityVars, workVars, mailVars>>, HandlersType' PROVE TypeInv'
  BY AllTyped, IdentityKept, WorkKept, MailKept DEF workVars
LEMMA OnlyAccountsTyped ==
  ASSUME TypeInv, DeedInv', UNCHANGED <<person, workVars, mailVars>>, HandlersType',
         account' = [e \in Emails |-> account'[e]]
  PROVE  TypeInv'
<1>1. PersonType'
  BY DEF TypeInv, RowTypes, PersonType
<1>. QED
  BY <1>1, AllTyped, AccountsTyped, WorkKept, MailKept DEF workVars
LEMMA OnlyMembersTyped ==
  ASSUME TypeInv, DeedInv', UNCHANGED <<identityVars, pro, place, client, mailVars>>, HandlersType'
  PROVE  TypeInv'
  BY AllTyped, IdentityKept, WorkKept, MailKept
LEMMA OnlyInvitesTyped ==
  ASSUME TypeInv, DeedInv', UNCHANGED <<identityVars, workVars, code>>, HandlersType',
         invite' = [i \in Invites |-> invite'[i]]
  PROVE  TypeInv'
<1>1. CodeType'
  BY DEF TypeInv, RowTypes, CodeType
<1>. QED
  BY <1>1, AllTyped, IdentityKept, WorkKept, InvitesTyped DEF workVars
LEMMA OnlyCodesTyped ==
  ASSUME TypeInv, DeedInv', UNCHANGED <<identityVars, workVars, invite>>, HandlersType', CodeType'
  PROVE  TypeInv'
<1>1. InviteType'
  BY DEF TypeInv, RowTypes, InviteType
<1>. QED
  BY <1>1, AllTyped, IdentityKept, WorkKept DEF workVars
-----------------------------------------------------------------------------
(* How a call moves.                                                        *)
LEMMA HandlerBegun ==
  ASSUME TypeInv, NEW c \in Handlers, NEW h \in Handler, SeekOK(h), Begins(c, h) PROVE HandlersType'
  BY DEF TypeInv, HandlersType, Begins, Counts
LEMMA CallWritten ==
  ASSUME TypeInv, NEW c \in Handlers, NEW h \in Handler \cup {Nil}, h # Nil => SeekOK(h),
         handler' = [handler EXCEPT ![c] = h], UNCHANGED <<calls, drops>>
  PROVE  HandlersType'
  BY DEF TypeInv, HandlersType
LEMMA HandlerEnded == ASSUME TypeInv, NEW c \in Handlers, Ends(c) PROVE HandlersType'
  BY CallWritten DEF Ends
LEMMA CallsStay == ASSUME TypeInv, AtOnce PROVE HandlersType'
  BY DEF TypeInv, HandlersType, AtOnce, Counts
LEMMA CallTyped ==
  ASSUME TypeInv, NEW c \in Handlers, NEW l, At(c, l)
  PROVE  handler[c] \in Handler /\ handler[c].at = l /\ SeekOK(handler[c]) /\ HandlerOK(handler[c])
  BY DEF TypeInv, HandlersType, At, DeedInv, HandlersOK

(* To a step that asks nothing of the call, or asks what it already had.    *)
FreeSteps == {"claim", "issue", "google", "use", "apply", "reclaim", "logout", "status", "unassign",
              "join", "rejoin", "invite"}
LEMMA CallGoes ==
  ASSUME TypeInv, NEW c \in Handlers, NEW k, At(c, k),
         NEW l \in FreeSteps \cup {"person", "newPerson", "onboard", "comercio"}, Goes(c, l),
         l \in {"person", "newPerson"} /\ handler[c].as = "professional" => handler[c].slug \in Slugs,
         l \in {"onboard", "comercio"} => handler[c].slug \in Slugs, l # "claim"
  PROVE  HandlersType'
<1> DEFINE h == [handler[c] EXCEPT !.at = l]
<1>1. handler[c] \in Handler
  BY CallTyped
<1>2. h \in Handler /\ h.at = l /\ h.as = handler[c].as /\ h.slug = handler[c].slug
  BY <1>1 DEF Handler, FreeSteps
<1>3. handler' = [handler EXCEPT ![c] = h] /\ UNCHANGED <<calls, drops>>
  BY DEF Goes
<1> HIDE DEF h
<1>4. SeekOK(h)
  BY <1>2 DEF SeekOK, FreeSteps
<1>. QED
  BY <1>2, <1>3, <1>4, CallWritten

LEMMA FreshTyped ==
  ASSUME NEW at \in FreeSteps \cup {"person", "onboard", "newPerson", "found"},
         NEW as \in {"client", "professional", "comercial", "entry", "tenant", "block", "activate", "own"},
         NEW e \in Emails
  PROVE  Call(at, as, e) \in Handler
  BY DEF Call, Handler, FreeSteps
-----------------------------------------------------------------------------
LEMMA BeginsTyped ==
  ASSUME TypeInv, DeedInv', NEW c \in Handlers, HandlerBegins(c) PROVE TypeInv'
<1>1. ASSUME NEW e \in Emails, NEW s \in Slugs \cup {Nil}, NEW as \in {"client", "professional", "comercial"},
             Register(c, as, e, s)
      PROVE  TypeInv'
  <2> DEFINE h == [Call("claim", as, e) EXCEPT !.slug = s, !.email = e, !.copy = account[e]]
  <2>1. account[e] \in Account \cup {Nil}
    BY DEF TypeInv, RowTypes, AccountType
  <2>2. h \in Handler /\ h.at = "claim" /\ h.as = as /\ h.slug = s
    BY <2>1 DEF Call, Handler
  <2>3. as # "client" => s \in Slugs
    BY <1>1 DEF Register
  <2>4. Begins(c, h) /\ UNCHANGED <<identityVars, workVars, mailVars>>
    BY <1>1 DEF Register
  <2> HIDE DEF h
  <2>5. SeekOK(h)
    BY <2>2, <2>3 DEF SeekOK
  <2>. QED
    BY <2>2, <2>4, <2>5, HandlerBegun, NothingTyped
<1>2. ASSUME NEW e \in Emails, NEW s \in Slugs, BeginOnboard(c, e, s) PROVE TypeInv'
  <2> DEFINE h == [Call("onboard", "own", e) EXCEPT !.slug = s]
  <2>1. h \in Handler /\ h.at = "onboard" /\ h.slug = s
    BY DEF Call, Handler
  <2>2. Begins(c, h) /\ UNCHANGED <<person, workVars, mailVars>>
    BY <1>2 DEF BeginOnboard
  <2> HIDE DEF h
  <2>3. SeekOK(h)
    BY <2>1 DEF SeekOK
  <2>4. account' = [x \in Emails |-> account'[x]]
    BY <1>2 DEF BeginOnboard, TypeInv, RowTypes, AccountType
  <2>. QED
    BY <2>1, <2>2, <2>3, <2>4, HandlerBegun, OnlyAccountsTyped
<1>3. ASSUME NEW e \in Emails, NEW s \in Slugs, DeactivateMembership(c, e, s) PROVE TypeInv'
  <2> DEFINE h == [Call("unassign", "own", e) EXCEPT !.slug = s]
  <2>1. h \in Handler /\ h.at = "unassign"
    BY DEF Call, Handler
  <2>2. Begins(c, h) /\ UNCHANGED <<identityVars, pro, place, client, mailVars>>
    BY <1>3 DEF DeactivateMembership
  <2> HIDE DEF h
  <2>3. SeekOK(h)
    BY <2>1 DEF SeekOK
  <2>. QED
    BY <2>1, <2>2, <2>3, HandlerBegun, OnlyMembersTyped
<1>4. ASSUME NEW e \in Emails, StartSession(c, e) PROVE TypeInv'
  <2> DEFINE h == Call("issue", "entry", e)
  <2>1. h \in Handler /\ h.at = "issue"
    BY DEF Call, Handler
  <2>2. Begins(c, h) /\ UNCHANGED <<identityVars, workVars, mailVars>>
    BY <1>4 DEF StartSession
  <2> HIDE DEF h
  <2>3. SeekOK(h)
    BY <2>1 DEF SeekOK
  <2>. QED
    BY <2>1, <2>2, <2>3, HandlerBegun, NothingTyped
<1>5. ASSUME NEW e \in Emails, BeginGoogle(c, e) PROVE TypeInv'
  <2> DEFINE at == IF account[e] # Nil /\ account[e].google THEN "issue" ELSE "google"
             h == [Call(at, "entry", e) EXCEPT !.email = e, !.copy = account[e]]
  <2>1. account[e] \in Account \cup {Nil} /\ at \in {"issue", "google"}
    BY DEF TypeInv, RowTypes, AccountType
  <2>2. Begins(c, h) /\ UNCHANGED <<identityVars, workVars, mailVars>>
    BY <1>5 DEF BeginGoogle
  <2> HIDE DEF at
  <2>3. h \in Handler /\ h.at = at
    BY <2>1 DEF Call, Handler
  <2> HIDE DEF h
  <2>4. SeekOK(h)
    BY <2>1, <2>3 DEF SeekOK
  <2>. QED
    BY <2>2, <2>3, <2>4, HandlerBegun, NothingTyped
<1>6. ASSUME NEW e \in Emails, NEW as \in {"block", "activate"}, BeginSetStatus(c, e, as) PROVE TypeInv'
  <2> DEFINE h == [Call("status", as, e) EXCEPT !.copy = account[e]]
  <2>1. account[e] \in Account \cup {Nil}
    BY DEF TypeInv, RowTypes, AccountType
  <2>2. h \in Handler /\ h.at = "status"
    BY <2>1 DEF Call, Handler
  <2>3. Begins(c, h) /\ UNCHANGED <<identityVars, workVars, mailVars>>
    BY <1>6 DEF BeginSetStatus
  <2> HIDE DEF h
  <2>4. SeekOK(h)
    BY <2>2 DEF SeekOK
  <2>. QED
    BY <2>2, <2>3, <2>4, HandlerBegun, NothingTyped
<1>7. ASSUME NEW k \in Codes, BeginConsume(c, k) PROVE TypeInv'
  <2> DEFINE h == [Call("use", "entry", code[k].to) EXCEPT !.id = k]
  <2>1. code[k].to \in Emails
    BY <1>7 DEF BeginConsume, TypeInv, RowTypes, CodeType, Code
  <2>2. h \in Handler /\ h.at = "use"
    BY <2>1 DEF Call, Handler
  <2>3. Begins(c, h) /\ UNCHANGED <<identityVars, workVars, mailVars>>
    BY <1>7 DEF BeginConsume
  <2> HIDE DEF h
  <2>4. SeekOK(h)
    BY <2>2 DEF SeekOK
  <2>. QED
    BY <2>2, <2>3, <2>4, HandlerBegun, NothingTyped
<1>8. ASSUME NEW e \in Emails, NEW ph \in Phones \cup {Nil}, PersonForAccount(c, e, ph) PROVE TypeInv'
  <2> DEFINE h == [Call("newPerson", "own", e) EXCEPT !.email = e, !.phone = ph]
             g(p) == [h EXCEPT !.at = "found", !.id = p, !.copy = person[p]]
  <2>1. h \in Handler /\ h.at = "newPerson" /\ h.as = "own"
    BY DEF Call, Handler
  <2>2. \A p \in Matches(e, ph) : p \in People /\ person[p] \in Person
    BY DEF Matches, Of, Live, TypeInv, RowTypes, PersonType
  <2>3. UNCHANGED <<identityVars, workVars, mailVars>>
    BY <1>8 DEF PersonForAccount
  <2>4. Begins(c, h) \/ \E p \in Matches(e, ph) : Begins(c, g(p))
    BY <1>8 DEF PersonForAccount
  <2> HIDE DEF h
  <2>5. \A p \in Matches(e, ph) : g(p) \in Handler /\ g(p).at = "found" /\ g(p).id = p /\ g(p).copy = person[p]
    BY <2>1, <2>2 DEF Handler
  <2> HIDE DEF g
  <2>6. SeekOK(h) /\ \A p \in Matches(e, ph) : SeekOK(g(p))
    BY <2>1, <2>2, <2>5 DEF SeekOK
  <2>7. HandlersType'
    BY <2>1, <2>4, <2>5, <2>6, HandlerBegun
  <2>. QED
    BY <2>3, <2>7, NothingTyped
<1>9. ASSUME NEW e \in Emails, NEW x \in Emails \cup {Nil}, NEW ph \in Phones \cup {Nil}, CreateClient(c, e, x, ph)
      PROVE  TypeInv'
  <2> DEFINE h == [Call("person", "tenant", e) EXCEPT !.email = x, !.phone = ph]
  <2>1. h \in Handler /\ h.at = "person" /\ h.as = "tenant"
    BY DEF Call, Handler
  <2>2. Begins(c, h) /\ UNCHANGED <<identityVars, workVars, mailVars>>
    BY <1>9 DEF CreateClient
  <2> HIDE DEF h
  <2>3. SeekOK(h)
    BY <2>1 DEF SeekOK
  <2>. QED
    BY <2>1, <2>2, <2>3, HandlerBegun, NothingTyped
<1>10. ASSUME NEW i \in Invites, NEW at \in {"invite", "join", "rejoin"},
              NEW is \in {"accepted", "cancelled", "expired"}, invite[i] # Nil, InviteCall(c, at, i, is)
       PROVE  TypeInv'
  <2> DEFINE r == [invite[i] EXCEPT !.is = is]
             h == [Call(at, "own", invite[i].to) EXCEPT !.slug = invite[i].place, !.id = i, !.copy = r]
  <2>1. invite[i] \in Invite
    BY <1>10 DEF TypeInv, RowTypes, InviteType
  <2>2. invite[i].to \in Emails /\ invite[i].place \in Slugs /\ r \in Invite
    BY <2>1 DEF Invite
  <2>3. Begins(c, h) /\ UNCHANGED <<identityVars, workVars, mailVars>>
    BY <1>10 DEF InviteCall
  <2> HIDE DEF r
  <2>4. h \in Handler /\ h.at = at
    BY <2>2 DEF Call, Handler
  <2> HIDE DEF h
  <2>5. SeekOK(h)
    BY <2>4 DEF SeekOK
  <2>. QED
    BY <2>3, <2>4, <2>5, HandlerBegun, NothingTyped
<1>11. ASSUME NEW i \in Invites, BeginCancel(c, i) \/ BeginAccept(c, i) PROVE TypeInv'
  <2>1. AcceptAt(i) \in {"invite", "join", "rejoin"}
    BY DEF AcceptAt
  <2>. QED
    BY <1>10, <1>11, <2>1 DEF BeginCancel, BeginAccept, CanAccept
<1>. QED
  BY <1>1, <1>2, <1>3, <1>4, <1>5, <1>6, <1>7, <1>8, <1>9, <1>11 DEF HandlerBegins
-----------------------------------------------------------------------------
(* Steps that write accounts.                                               *)
LEMMA AccountStepsTyped ==
  ASSUME TypeInv, DeedInv', NEW c \in Handlers,
         \/ Claim(c) \/ Issue(c) \/ Google(c) \/ SetStatus(c) \/ Apply(c) \/ Reclaim(c) \/ ResetLogsOut(c)
  PROVE  TypeInv'
<1>1. UNCHANGED <<person, workVars, mailVars>>
  BY DEF Claim, Issue, Google, SetStatus, Apply, Reclaim, ResetLogsOut
<1>2. account \in [Emails -> Account \cup {Nil}]
  BY DEF TypeInv, RowTypes, AccountType
<1>3. account' = [e \in Emails |-> account'[e]]
  <2>1. CASE Claim(c) \/ Google(c)
    BY <1>2, <2>1 DEF Claim, Google
  <2>2. CASE Issue(c) \/ ResetLogsOut(c)
    BY <1>2, <2>2 DEF Issue, ResetLogsOut
  <2>3. CASE SetStatus(c) \/ Reclaim(c)
    BY <1>2, <2>3 DEF SetStatus, Reclaim
  <2>4. CASE Apply(c)
    BY <1>2, <2>4 DEF Apply
  <2>. QED
    BY <2>1, <2>2, <2>3, <2>4
<1>4. CASE Claim(c)
  <2>1. At(c, "claim") /\ (Ends(c) \/ Goes(c, IF handler[c].as = "comercial" THEN "comercio" ELSE "person"))
    BY <1>4 DEF Claim
  <2>2. handler[c].as # "client" => handler[c].slug \in Slugs
    BY <2>1, CallTyped DEF SeekOK
  <2>3. HandlersType'
    BY <2>1, <2>2, HandlerEnded, CallGoes
  <2>. QED
    BY <1>1, <1>3, <2>3, OnlyAccountsTyped
<1>5. CASE Issue(c) \/ SetStatus(c) \/ ResetLogsOut(c)
  <2>1. Ends(c)
    BY <1>5 DEF Issue, SetStatus, ResetLogsOut
  <2>. QED
    BY <1>1, <1>3, <2>1, HandlerEnded, OnlyAccountsTyped
<1>6. CASE Google(c)
  <2>1. At(c, "google") /\ (Ends(c) \/ Goes(c, "person") \/ Goes(c, "issue"))
    BY <1>6 DEF Google
  <2>2. handler[c].as = "entry"
    BY <2>1, CallTyped DEF HandlerOK
  <2>3. HandlersType'
    BY <2>1, <2>2, HandlerEnded, CallGoes DEF FreeSteps
  <2>. QED
    BY <1>1, <1>3, <2>3, OnlyAccountsTyped
<1>7. CASE Apply(c)
  <2> DEFINE e == handler[c].e   h == [handler[c] EXCEPT !.at = "reclaim", !.copy = account[e]]
  <2>1. At(c, "apply") /\ handler[c] \in Handler /\ e \in Emails
    BY <1>7, CallTyped DEF Apply, Handler
  <2>2. account[e] \in Account \cup {Nil}
    BY <1>2, <2>1
  <2>3. \/ Ends(c) \/ Goes(c, "logout")
        \/ handler' = [handler EXCEPT ![c].at = "reclaim", ![c].copy = account[e]] /\ UNCHANGED <<calls, drops>>
    BY <1>7 DEF Apply
  <2>4. CASE handler' = [handler EXCEPT ![c].at = "reclaim", ![c].copy = account[e]] /\ UNCHANGED <<calls, drops>>
    <3>1. handler' = [handler EXCEPT ![c] = h]
      BY <2>4 DEF TypeInv, HandlersType
    <3> HIDE DEF e
    <3>2. h \in Handler
      <4>1. account[e] \in Account \cup Person \cup Invite \cup {Nil}
        BY <2>2
      <4>. QED
        BY <2>1, <4>1 DEF Handler
    <3>3. h.at = "reclaim"
      BY <2>1 DEF Handler
    <3> HIDE DEF h
    <3>4. SeekOK(h)
      BY <3>3 DEF SeekOK
    <3>. QED
      BY <2>4, <3>1, <3>2, <3>4, <1>1, <1>3, CallWritten, OnlyAccountsTyped
  <2>5. CASE Ends(c) \/ Goes(c, "logout")
    BY <2>1, <2>5, <1>1, <1>3, HandlerEnded, CallGoes, OnlyAccountsTyped DEF FreeSteps
  <2>. QED
    BY <2>3, <2>4, <2>5
<1>8. CASE Reclaim(c)
  BY <1>1, <1>3, <1>8, CallGoes, OnlyAccountsTyped DEF Reclaim, FreeSteps
<1>. QED
  BY <1>4, <1>5, <1>6, <1>7, <1>8
-----------------------------------------------------------------------------
(* Steps that find, insert or link a person.                                *)
LEMMA AfterPersonTyped ==
  ASSUME TypeInv, NEW c \in Handlers, At(c, "person") \/ At(c, "newPerson"), handler[c].as \in Seekers,
         NEW p \in People, handler' = [handler EXCEPT ![c].at = AfterPerson(handler[c]), ![c].id = p],
         UNCHANGED <<calls, drops>>
  PROVE  HandlersType'
<1> DEFINE l == AfterPerson(handler[c])   h == [handler[c] EXCEPT !.at = l, !.id = p]
<1>1. handler[c] \in Handler /\ (handler[c].as = "professional" => handler[c].slug \in Slugs)
  BY CallTyped DEF SeekOK
<1>2. l \in {"issue", "onboard", "client"} /\ (l = "onboard" => handler[c].as = "professional")
  BY DEF AfterPerson, Seekers
<1>3. handler' = [handler EXCEPT ![c] = h]
  BY DEF TypeInv, HandlersType
<1> HIDE DEF l
<1>4. h \in Handler /\ h.at = l /\ h.id = p /\ h.slug = handler[c].slug
  <2>1. p \in Invites \cup Codes \cup People \cup {Nil}
    OBVIOUS
  <2>2. h \in Handler
    BY <1>1, <1>2, <2>1 DEF Handler
  <2>3. h.at = l /\ h.id = p /\ h.slug = handler[c].slug
    BY <1>1 DEF Handler
  <2>. QED
    BY <2>2, <2>3
<1> HIDE DEF h
<1>5. SeekOK(h)
  BY <1>1, <1>2, <1>4 DEF SeekOK
<1>. QED
  BY <1>3, <1>4, <1>5, CallWritten

LEMMA PersonStepsTyped ==
  ASSUME TypeInv, DeedInv', NEW c \in Handlers,
         FindPerson(c) \/ (\E p \in People : InsertPerson(c, p)) \/ LinkPerson(c)
  PROVE  TypeInv'
<1>1. CASE FindPerson(c)
  <2>1. At(c, "person") /\ UNCHANGED <<identityVars, workVars, mailVars>>
    BY <1>1 DEF FindPerson
  <2>2. handler[c].as \in Seekers /\ (handler[c].as = "professional" => handler[c].slug \in Slugs)
    BY <2>1, CallTyped DEF HandlerOK, SeekOK
  <2>3. \/ Goes(c, "newPerson")
        \/ \E p \in People : handler' = [handler EXCEPT ![c].at = AfterPerson(handler[c]), ![c].id = p]
                             /\ UNCHANGED <<calls, drops>>
    BY <1>1 DEF FindPerson, Matches, Of
  <2>4. HandlersType'
    BY <2>1, <2>2, <2>3, CallGoes, AfterPersonTyped
  <2>. QED
    BY <2>1, <2>4, NothingTyped
<1>2. ASSUME NEW p \in People, InsertPerson(c, p) PROVE TypeInv'
  <2> DEFINE h == handler[c]   of == IF h.as = "tenant" THEN Nil ELSE h.e
             r == [email |-> h.email, phone |-> h.phone, of |-> of, dead |-> FALSE]
  <2>1. At(c, "newPerson") /\ UNCHANGED <<account, workVars, mailVars>> /\ person' = [person EXCEPT ![p] = r]
    BY <1>2 DEF InsertPerson
  <2>2. h \in Handler /\ h.as \in Seekers \cup {"own"}
    BY <2>1, CallTyped DEF HandlerOK
  <2>3. r \in Person
    BY <2>2 DEF Handler, Person
  <2>4. h.as # "own" => handler' = [handler EXCEPT ![c].at = AfterPerson(h), ![c].id = p]
                        /\ UNCHANGED <<calls, drops>>
    BY <1>2 DEF InsertPerson
  <2>5. h.as = "own" => Ends(c)
    BY <1>2 DEF InsertPerson
  <2> HIDE DEF r
  <2>6. PersonType'
    BY <2>1, <2>3 DEF TypeInv, RowTypes, PersonType
  <2>7. HandlersType'
    BY <2>1, <2>2, <2>4, <2>5, HandlerEnded, AfterPersonTyped
  <2>8. AccountType'
    BY <2>1 DEF TypeInv, RowTypes, AccountType
  <2>. QED
    BY <2>1, <2>6, <2>7, <2>8, AllTyped, WorkKept, MailKept DEF workVars
<1>3. CASE LinkPerson(c)
  <2> DEFINE h == handler[c]   r == [h.copy EXCEPT !.of = h.e]
  <2>1. /\ At(c, "found") /\ Ends(c) /\ UNCHANGED <<account, workVars, mailVars>>
        /\ person' = [person EXCEPT ![h.id] = r]
    BY <1>3 DEF LinkPerson
  <2>2. h \in Handler /\ h.copy \in Person /\ h.id \in People
    BY <2>1, CallTyped DEF SeekOK
  <2>3. h.e \in Emails
    BY <2>2 DEF Handler
  <2>4. r \in Person
    <3> HIDE DEF h
    <3>. QED
      BY <2>2, <2>3 DEF Person
  <2> HIDE DEF r
  <2>5. PersonType'
    BY <2>1, <2>2, <2>4 DEF TypeInv, RowTypes, PersonType
  <2>6. AccountType'
    BY <2>1 DEF TypeInv, RowTypes, AccountType
  <2>. QED
    BY <2>1, <2>5, <2>6, AllTyped, HandlerEnded, WorkKept, MailKept DEF workVars
<1>. QED
  BY <1>1, <1>2, <1>3
-----------------------------------------------------------------------------
(* Steps that write professionals, comercios, clients and members.          *)
LEMMA WorkStepsTyped ==
  ASSUME TypeInv, DeedInv', NEW c \in Handlers,
         Onboard(c) \/ NewComercio(c) \/ InsertClient(c) \/ Unassign(c) \/ Join(c)
  PROVE  TypeInv'
<1>1. CASE Onboard(c)
  <2> DEFINE h == handler[c]   p == [slug |-> h.slug, dead |-> FALSE]
             q == [owner |-> h.e, personal |-> TRUE, dead |-> FALSE]
  <2>1. At(c, "onboard") /\ UNCHANGED <<identityVars, client, mailVars>>
    BY <1>1 DEF Onboard
  <2>2. h \in Handler /\ h.slug \in Slugs
    BY <2>1, CallTyped DEF SeekOK
  <2>3. p \in Pro /\ q \in Place
    BY <2>2 DEF Handler, Pro, Place
  <2>4. pro' \in {pro, [pro EXCEPT ![h.e] = p]} /\ place' \in {place, [place EXCEPT ![h.slug] = q]}
    BY <1>1 DEF Onboard, Onboards
  <2>5. Goes(c, "issue") \/ Ends(c)
    BY <1>1 DEF Onboard
  <2> HIDE DEF p, q
  <2>6. ProType' /\ PlaceType'
    BY <2>3, <2>4 DEF TypeInv, RowTypes, ProType, PlaceType
  <2>7. ClientType'
    BY <2>1 DEF TypeInv, RowTypes, ClientType
  <2>8. HandlersType'
    BY <2>1, <2>5, HandlerEnded, CallGoes DEF FreeSteps
  <2>. QED
    BY <2>1, <2>6, <2>7, <2>8, AllTyped, IdentityKept, MailKept
<1>2. CASE NewComercio(c)
  <2> DEFINE h == handler[c]   q == [owner |-> h.e, personal |-> FALSE, dead |-> FALSE]
  <2>1. At(c, "comercio") /\ UNCHANGED <<identityVars, pro, member, client, mailVars>>
    BY <1>2 DEF NewComercio
  <2>2. h \in Handler /\ h.slug \in Slugs
    BY <2>1, CallTyped DEF SeekOK
  <2>3. q \in Place
    BY <2>2 DEF Handler, Place
  <2>4. place' \in {place, [place EXCEPT ![h.slug] = q]} /\ (Goes(c, "issue") \/ Ends(c))
    BY <1>2 DEF NewComercio
  <2> HIDE DEF q
  <2>5. PlaceType'
    BY <2>3, <2>4 DEF TypeInv, RowTypes, PlaceType
  <2>6. ProType' /\ ClientType'
    BY <2>1 DEF TypeInv, RowTypes, ProType, ClientType
  <2>7. HandlersType'
    BY <2>1, <2>4, HandlerEnded, CallGoes DEF FreeSteps
  <2>. QED
    BY <2>1, <2>5, <2>6, <2>7, AllTyped, IdentityKept, MailKept
<1>3. CASE InsertClient(c)
  <2> DEFINE k == <<handler[c].e, handler[c].id>>   r == [active |-> TRUE, dead |-> FALSE]
  <2>1. At(c, "client") /\ Ends(c) /\ UNCHANGED <<identityVars, pro, place, member, mailVars>>
    BY <1>3 DEF InsertClient
  <2>2. r \in Client
    BY DEF Client
  <2>3. client' \in {client, [client EXCEPT ![k] = r]}
    BY <1>3 DEF InsertClient
  <2> HIDE DEF k, r
  <2>4. ClientType'
    BY <2>2, <2>3 DEF TypeInv, RowTypes, ClientType
  <2>5. ProType' /\ PlaceType'
    BY <2>1 DEF TypeInv, RowTypes, ProType, PlaceType
  <2>. QED
    BY <2>1, <2>4, <2>5, AllTyped, HandlerEnded, IdentityKept, MailKept
<1>4. CASE Unassign(c)
  <2>1. Ends(c) /\ UNCHANGED <<identityVars, pro, place, client, mailVars>>
    BY <1>4 DEF Unassign
  <2>. QED
    BY <2>1, HandlerEnded, OnlyMembersTyped
<1>5. CASE Join(c)
  <2>1. /\ At(c, "join") \/ At(c, "rejoin")
        /\ Goes(c, "invite") \/ Ends(c)
        /\ UNCHANGED <<identityVars, pro, place, client, mailVars>>
    BY <1>5 DEF Join
  <2>2. HandlersType'
    BY <2>1, HandlerEnded, CallGoes DEF FreeSteps
  <2>. QED
    BY <2>1, <2>2, OnlyMembersTyped
<1>. QED
  BY <1>1, <1>2, <1>3, <1>4, <1>5
-----------------------------------------------------------------------------
(* Codes and invitations, and a call cut short.                             *)
LEMMA MailStepsTyped ==
  ASSUME TypeInv, DeedInv', NEW c \in Handlers, Consume(c) \/ SaveInvite(c) \/ HandlerCut(c)
  PROVE  TypeInv'
<1>1. CASE Consume(c)
  <2> DEFINE k == handler[c].id
  <2>1. /\ At(c, "use") /\ Goes(c, "apply") /\ UNCHANGED <<identityVars, workVars, invite>>
        /\ code' = [code EXCEPT ![k].used = TRUE]
    BY <1>1 DEF Consume
  <2>2. k \in Codes /\ IsCode(code[k])
    BY <2>1, CallTyped DEF HandlerOK
  <2> HIDE DEF k
  <2>3. \A x \in Codes : x # k => code'[x] = code[x]
    BY <2>1 DEF TypeInv, RowTypes, CodeType
  <2>4. code'[k] \in Code \cup {Nil}
    <3>1. CASE code[k] \in Code
      <4>1. [code[k] EXCEPT !.used = TRUE] \in Code
        BY <3>1 DEF Code
      <4>2. code'[k] = [code[k] EXCEPT !.used = TRUE]
        BY <2>1, <2>2 DEF TypeInv, RowTypes, CodeType
      <4>. QED
        BY <4>1, <4>2
    <3>2. code[k] \in Code
      BY <2>2 DEF IsCode
    <3>. QED
      BY <3>1, <3>2
  <2>5. CodeType'
    BY <2>1, <2>3, <2>4 DEF TypeInv, RowTypes, CodeType
  <2>6. HandlersType'
    BY <2>1, CallGoes DEF FreeSteps
  <2>. QED
    BY <2>1, <2>5, <2>6, OnlyCodesTyped
<1>2. CASE SaveInvite(c)
  <2>1. Ends(c) /\ UNCHANGED <<identityVars, workVars, code>>
    BY <1>2 DEF SaveInvite
  <2>2. invite' = [i \in Invites |-> invite'[i]]
    BY <1>2 DEF SaveInvite, TypeInv, RowTypes, InviteType
  <2>. QED
    BY <2>1, <2>2, HandlerEnded, OnlyInvitesTyped
<1>3. CASE HandlerCut(c)
  <2>1. HandlersType'
    BY <1>3 DEF HandlerCut, TypeInv, HandlersType
  <2>. QED
    BY <1>3, <2>1, NothingTyped DEF HandlerCut
<1>. QED
  BY <1>1, <1>2, <1>3
-----------------------------------------------------------------------------
(* Calls of a single step.                                                  *)
LEMMA AtOnceTyped ==
  ASSUME TypeInv, DeedInv',
         \/ \E e \in Emails : Logout(e)
         \/ \E k \in Codes, e \in Emails, for \in Purposes : RequestCode(k, e, for)
         \/ \E k \in Codes : CodeLapses(k)
         \/ \E k \in Emails \X People : ArchiveClient(k)
         \/ \E e \in Emails, s \in Slugs : AssignServices(e, s)
         \/ \E i \in Invites, e \in Emails, s \in Slugs : SendInvitation(i, e, s)
         \/ \E i \in Invites : InviteLapses(i)
  PROVE  TypeInv'
<1>1. ASSUME NEW e \in Emails, Logout(e) PROVE TypeInv'
  <2>1. account' = [x \in Emails |-> account'[x]]
    BY <1>1 DEF Logout, TypeInv, RowTypes, AccountType
  <2>. QED
    BY <1>1, <2>1, CallsStay, OnlyAccountsTyped DEF Logout
<1>2. ASSUME NEW k \in Codes, NEW e \in Emails, NEW for \in Purposes, RequestCode(k, e, for) PROVE TypeInv'
  <2> DEFINE r == [to |-> e, for |-> for, used |-> FALSE, lapsed |-> FALSE]
  <2>1. r \in Code
    BY DEF Code
  <2>2. code' = [code EXCEPT ![k] = r]
    BY <1>2 DEF RequestCode
  <2> HIDE DEF r
  <2>3. CodeType'
    BY <2>1, <2>2 DEF TypeInv, RowTypes, CodeType
  <2>. QED
    BY <1>2, <2>3, CallsStay, OnlyCodesTyped DEF RequestCode
<1>3. ASSUME NEW k \in Codes, CodeLapses(k) PROVE TypeInv'
  <2> DEFINE r == [code[k] EXCEPT !.lapsed = TRUE]
  <2>1. code[k] \in Code
    BY <1>3 DEF CodeLapses, TypeInv, RowTypes, CodeType
  <2>2. r \in Code
    BY <2>1 DEF Code
  <2>3. code' = [code EXCEPT ![k] = r] /\ UNCHANGED <<handler, calls, drops>>
    BY <1>3 DEF CodeLapses
  <2> HIDE DEF r
  <2>4. CodeType' /\ HandlersType'
    BY <2>2, <2>3 DEF TypeInv, RowTypes, CodeType, HandlersType
  <2>. QED
    BY <1>3, <2>4, OnlyCodesTyped DEF CodeLapses
<1>4. ASSUME NEW k \in Emails \X People, ArchiveClient(k) PROVE TypeInv'
  <2> DEFINE r == [client[k] EXCEPT !.active = FALSE]
  <2>1. client[k] \in Client
    BY <1>4 DEF ArchiveClient, Live, TypeInv, RowTypes, ClientType
  <2>2. r \in Client
    BY <2>1 DEF Client
  <2>3. client' = [client EXCEPT ![k] = r] /\ AtOnce /\ UNCHANGED <<identityVars, pro, place, mailVars>>
    BY <1>4 DEF ArchiveClient
  <2> HIDE DEF r
  <2>4. ClientType' /\ ProType' /\ PlaceType'
    BY <2>2, <2>3 DEF TypeInv, RowTypes, ClientType, ProType, PlaceType
  <2>. QED
    BY <2>3, <2>4, AllTyped, CallsStay, IdentityKept, MailKept
<1>5. ASSUME NEW e \in Emails, NEW s \in Slugs, AssignServices(e, s) PROVE TypeInv'
  BY <1>5, CallsStay, OnlyMembersTyped DEF AssignServices
<1>6. ASSUME NEW i \in Invites, NEW e \in Emails, NEW s \in Slugs, SendInvitation(i, e, s) PROVE TypeInv'
  <2>1. invite' = [x \in Invites |-> invite'[x]]
    BY <1>6 DEF SendInvitation, TypeInv, RowTypes, InviteType
  <2>. QED
    BY <1>6, <2>1, CallsStay, OnlyInvitesTyped DEF SendInvitation
<1>7. ASSUME NEW i \in Invites, InviteLapses(i) PROVE TypeInv'
  <2>1. invite' = [x \in Invites |-> invite'[x]]
    BY <1>7 DEF InviteLapses, TypeInv, RowTypes, InviteType
  <2>2. HandlersType'
    BY <1>7 DEF InviteLapses, TypeInv, HandlersType
  <2>. QED
    BY <1>7, <2>1, <2>2, OnlyInvitesTyped DEF InviteLapses
<1>. QED
  BY <1>1, <1>2, <1>3, <1>4, <1>5, <1>6, <1>7

(* Rows marked as deleted, or no longer so, are rows.                       *)
LEMMA DiesTyped ==
  ASSUME NEW K, NEW R, NEW f \in [K -> R \cup {Nil}], NEW S, NEW d,
         \A r \in R : [r EXCEPT !.dead = d] \in R
  PROVE  Dies(f, S, d) \in [K -> R \cup {Nil}]
<1>1. ASSUME NEW k \in K PROVE (IF k \in S /\ f[k] # Nil THEN [f[k] EXCEPT !.dead = d] ELSE f[k]) \in R \cup {Nil}
  OBVIOUS
<1>. QED
  BY <1>1 DEF Dies

LEMMA DeletionTyped ==
  ASSUME TypeInv, DeedInv',
         \/ \E k \in Emails \X People : DeleteClient(k) \/ RestoreClient(k)
         \/ \E e \in Emails, d \in BOOLEAN : SetProfessionalDead(e, d)
         \/ \E s \in Slugs, d \in BOOLEAN : SetComercioDead(s, d)
  PROVE  TypeInv'
<1>1. /\ AccountType /\ PersonType /\ ProType /\ PlaceType /\ ClientType
  BY DEF TypeInv, RowTypes
<1>2. ASSUME NEW S, NEW d \in BOOLEAN
      PROVE  /\ Dies(person, S, d) \in [People -> Person \cup {Nil}] /\ Dies(pro, S, d) \in [Emails -> Pro \cup {Nil}]
             /\ Dies(place, S, d) \in [Slugs -> Place \cup {Nil}]
             /\ Dies(client, S, d) \in [Emails \X People -> Client \cup {Nil}]
  <2>1. \A r \in Person : [r EXCEPT !.dead = d] \in Person
    BY DEF Person
  <2>2. \A r \in Pro : [r EXCEPT !.dead = d] \in Pro
    BY DEF Pro
  <2>3. \A r \in Place : [r EXCEPT !.dead = d] \in Place
    BY DEF Place
  <2>4. \A r \in Client : [r EXCEPT !.dead = d] \in Client
    BY DEF Client
  <2>. QED
    BY <1>1, <2>1, <2>2, <2>3, <2>4, DiesTyped DEF PersonType, ProType, PlaceType, ClientType
<1>3. \A e : /\ Revoked(e) = [x \in Emails |-> Revoked(e)[x]]
             /\ Reactivated(e) = [x \in Emails |-> Reactivated(e)[x]]
  BY <1>1 DEF Revoked, Reactivated, AccountType
<1>4. account = [x \in Emails |-> account[x]]
  BY <1>1 DEF AccountType
<1>5. ASSUME NEW k \in Emails \X People, DeleteClient(k) PROVE TypeInv'
  <2>1. /\ client' = Dies(client, {k}, TRUE) /\ person' \in {person, Dies(person, {k[2]}, TRUE)}
        /\ account' = account \/ \E e : account' = Revoked(e)
        /\ AtOnce /\ UNCHANGED <<pro, place, mailVars>>
    BY <1>5 DEF DeleteClient
  <2>2. AccountType'
    BY <2>1, <1>3, <1>4, AccountsTyped
  <2>3. PersonType'
    <3>1. Dies(person, {k[2]}, TRUE) \in [People -> Person \cup {Nil}]
      BY <1>2
    <3>2. person \in [People -> Person \cup {Nil}]
      BY <1>1 DEF PersonType
    <3>3. person' = person \/ person' = Dies(person, {k[2]}, TRUE)
      BY <2>1
    <3>. QED
      BY <3>1, <3>2, <3>3 DEF PersonType
  <2>4. ClientType' /\ ProType' /\ PlaceType'
    BY <2>1, <1>1, <1>2 DEF ClientType, ProType, PlaceType
  <2>. QED
    BY <2>1, <2>2, <2>3, <2>4, AllTyped, CallsStay, MailKept
<1>6. ASSUME NEW k \in Emails \X People, RestoreClient(k) PROVE TypeInv'
  <2>1. /\ client' = Dies(client, {k}, FALSE) /\ person' = Dies(person, {k[2]}, FALSE)
        /\ account' = account \/ \E e : account' = Reactivated(e)
        /\ AtOnce /\ UNCHANGED <<pro, place, mailVars>>
    BY <1>6 DEF RestoreClient
  <2>2. AccountType'
    BY <2>1, <1>3, <1>4, AccountsTyped
  <2>3. PersonType' /\ ClientType' /\ ProType' /\ PlaceType'
    BY <2>1, <1>1, <1>2 DEF PersonType, ClientType, ProType, PlaceType
  <2>. QED
    BY <2>1, <2>2, <2>3, AllTyped, CallsStay, MailKept
<1>7. ASSUME NEW e \in Emails, NEW d \in BOOLEAN, SetProfessionalDead(e, d) PROVE TypeInv'
  <2>1. /\ pro' = Dies(pro, {e}, d) /\ client' = Dies(client, {e} \X People, d)
        /\ account' \in {Revoked(e), Reactivated(e)}
        /\ AtOnce /\ UNCHANGED <<person, place, mailVars>>
    BY <1>7 DEF SetProfessionalDead
  <2>2. AccountType'
    BY <2>1, <1>3, AccountsTyped
  <2>3. PersonType' /\ ClientType' /\ ProType' /\ PlaceType'
    BY <2>1, <1>1, <1>2 DEF PersonType, ClientType, ProType, PlaceType
  <2>. QED
    BY <2>1, <2>2, <2>3, AllTyped, CallsStay, MailKept
<1>8. ASSUME NEW s \in Slugs, NEW d \in BOOLEAN, SetComercioDead(s, d) PROVE TypeInv'
  <2>1. /\ place' = Dies(place, {s}, d)
        /\ account' \in {Revoked(place[s].owner), Reactivated(place[s].owner)}
        /\ AtOnce /\ UNCHANGED <<person, pro, client, mailVars>>
    BY <1>8 DEF SetComercioDead
  <2>2. AccountType'
    BY <2>1, <1>3, AccountsTyped
  <2>3. PersonType' /\ ClientType' /\ ProType' /\ PlaceType'
    BY <2>1, <1>1, <1>2 DEF PersonType, ClientType, ProType, PlaceType
  <2>. QED
    BY <2>1, <2>2, <2>3, AllTyped, CallsStay, MailKept
<1>. QED
  BY <1>5, <1>6, <1>7, <1>8
-----------------------------------------------------------------------------
LEMMA TypeInvInit == ASSUME TenancyInit PROVE TypeInv
<1>1. PICK w \in Worlds :
        /\ account = w.account /\ person = w.person /\ pro = w.pro /\ place = w.place
        /\ client = w.client /\ invite = w.invite
  BY DEF TenancyInit
<1>2. RowTypes
  <2>1. Coherent(w)
    BY StartAssumption
  <2>2. CodeType
    BY DEF TenancyInit, CodeType
  <2>. QED
    BY <1>1, <2>1, <2>2
    DEF Coherent, RowTypes, AccountType, PersonType, ProType, PlaceType, ClientType, InviteType
<1>3. HandlersType
  BY DEF TenancyInit, HandlersType
<1>. QED
  BY <1>2, <1>3, InitDeed DEF TypeInv

LEMMA TypeInvStep == ASSUME TypeInv, [TenancyNext]_tenancyVars PROVE TypeInv'
<1>1. DeedInv'
  BY DeedStays DEF TypeInv
<1>2. ASSUME NEW c \in Handlers, HandlerBegins(c) \/ HandlerStep(c) \/ HandlerCut(c) PROVE TypeInv'
  BY <1>1, <1>2, BeginsTyped, AccountStepsTyped, PersonStepsTyped, WorkStepsTyped, MailStepsTyped
  DEF HandlerStep
<1>3. CASE UNCHANGED tenancyVars
  <2>1. UNCHANGED <<identityVars, workVars, mailVars, handler, calls, drops>>
    BY <1>3 DEF tenancyVars, identityVars, workVars, mailVars
  <2>2. HandlersType'
    BY <2>1 DEF TypeInv, HandlersType
  <2>. QED
    BY <1>1, <2>1, <2>2, NothingTyped
<1>. QED
  BY <1>1, <1>2, <1>3, AtOnceTyped, DeletionTyped DEF TenancyNext

(* However calls overlap, are cut short and save stale copies, and whatever *)
(* the administrator deletes and restores, each table of accounts, persons, *)
(* places, members, clients, invitations and codes holds rows of its kind.  *)
THEOREM TenancyTypeCorrect == TenancySpec => []TenancyTypeOK
<1>1. TenancyInit => TypeInv
  BY TypeInvInit
<1>2. TypeInv /\ [TenancyNext]_tenancyVars => TypeInv'
  BY TypeInvStep
<1>. QED
  BY <1>1, <1>2, TypeInvIsType, PTL DEF TenancySpec
=============================================================================
