-------------------------- MODULE ReadinessScreen --------------------------
(***************************************************************************)
(* The send-readiness page of one newsletter, as the staff use it          *)
(* (newsletters/[id]/readiness/page.tsx, ReadinessActions.tsx,             *)
(* CustomerDeliveryControls.tsx, readinessActions.ts, dispatchActions.ts). *)
(*                                                                         *)
(* A page shows what two reads found some time ago; its buttons are live by *)
(* what it shows, its forms carry only the newsletter, a preparation token  *)
(* or a typed count, and the services decide by what is true when the       *)
(* request reaches them.  A request may reach them twice.                   *)
(***************************************************************************)
EXTENDS Naturals, Sequences, FiniteSets

CONSTANTS Viewers, Composer,        \* the staff at their browsers, and who wrote the newsletter
          Crowds, Size,            \* what the segment may select, and how many addresses that is
          MaxPresses, MaxMoves     \* bounds

ASSUME ScreenAssumption ==
    /\ Composer \in Viewers /\ IsFiniteSet(Viewers)
    /\ Size \in [Crowds -> Nat \ {0}]
    /\ {MaxPresses, MaxMoves} \subseteq Nat

VARIABLES
    newsletter,  \* text, status and deliveryConfirmedCount of the newsletter, the count
                 \* its delivery was confirmed with, and the approval it was confirmed
                 \* under: which one, of which final audience
    crowd,       \* who the segment selects now
    frozen,      \* the final audiences, oldest first
    approval,    \* the newest approval
    records,     \* the first final audience delivery records were written for; 0 for none
    page,        \* what each browser shows
    form,        \* the state of its forms, kept while the page stays open
    call,        \* the request it waits for
    pressed,     \* preparations asked for with a press
    presses, moves, tokens  \* counters, for the bounds

screenVars == <<newsletter, crowd, frozen, approval, records, page, form, call, pressed, presses, moves, tokens>>
backend == <<newsletter, crowd, frozen, approval, records>>

NoPage == [shows |-> "nothing"]
NoCall == [do |-> "nothing"]
NoForm == [token |-> 0, told |-> <<>>, asked |-> FALSE, view |-> FALSE]

ScreenInit ==
    /\ newsletter = [text |-> 0, status |-> "DRAFT", confirmed |-> 0, typed |-> 0,
                     under |-> [n |-> 0, of |-> 0]]
    /\ crowd \in Crowds
    /\ frozen = <<>> /\ approval = [n |-> 0, of |-> 0, text |-> 0, live |-> FALSE]
    /\ records = 0
    /\ page = [v \in Viewers |-> NoPage] /\ form = [v \in Viewers |-> NoForm]
    /\ call = [v \in Viewers |-> NoCall]
    /\ pressed = 0 /\ presses = 0 /\ moves = 0 /\ tokens = 0

-----------------------------------------------------------------------------
(* What the services find when they look. *)
AudienceCurrent == frozen # <<>> /\ frozen[Len(frozen)].crowd = crowd
ApprovalValid == /\ approval.live /\ approval.of = Len(frozen) /\ approval.text = newsletter.text
(* A scheduled newsletter may still be prepared and approved again.         *)
Sendable == newsletter.status \in {"DRAFT", "SCHEDULED"}
Complete == AudienceCurrent /\ ApprovalValid /\ Sendable
FrozenCount == IF frozen = <<>> THEN 0 ELSE Size[frozen[Len(frozen)].crowd]

(* The newsletter and the people move on, in any browser and in the CRM. *)
TextEdited ==
    /\ moves < MaxMoves /\ moves' = moves + 1
    /\ newsletter.status = "DRAFT"
    /\ newsletter' = [newsletter EXCEPT !.text = @ + 1]
    /\ UNCHANGED <<crowd, frozen, approval, records, page, form, call, pressed, presses, tokens>>
CrowdMoves(c) ==
    /\ moves < MaxMoves /\ moves' = moves + 1
    /\ c # crowd /\ crowd' = c
    /\ UNCHANGED <<newsletter, frozen, approval, records, page, form, call, pressed, presses, tokens>>

-----------------------------------------------------------------------------
(* The page. *)
Request(v, r) == call' = [call EXCEPT ![v] = r]
OnForm(v, f) == form' = [form EXCEPT ![v] = f]
Pressing == presses < MaxPresses /\ presses' = presses + 1

(* Opening the page mounts its forms anew, with a token of their own. *)
OpenPage(v) ==
    /\ page[v] = NoPage /\ call[v] = NoCall
    /\ Pressing /\ tokens' = tokens + 1
    /\ OnForm(v, [NoForm EXCEPT !.token = tokens + 1])
    /\ Request(v, [do |-> "open", at |-> "served", said |-> [ok |-> FALSE, words |-> <<>>]])
    /\ UNCHANGED <<backend, page, pressed, moves>>

LeavePage(v) ==
    /\ page[v] # NoPage /\ call[v] = NoCall
    /\ page' = [page EXCEPT ![v] = NoPage] /\ OnForm(v, NoForm)
    /\ Pressing
    /\ UNCHANGED <<backend, call, pressed, moves, tokens>>

(* The first of the page's reads: getSendReadiness. *)
ReadReadiness(v) ==
    /\ call[v].do # "nothing" /\ call[v].at = "served"
    /\ Request(v, [do |-> call[v].do, at |-> "read", said |-> call[v].said,
                   seen |-> [newest |-> Len(frozen), count |-> FrozenCount, current |-> AudienceCurrent,
                             open |-> Sendable, valid |-> ApprovalValid, complete |-> Complete]])
    /\ UNCHANGED <<backend, page, form, pressed, presses, moves, tokens>>

(* The effect of PrepareAudienceButton: a new token, once a success says    *)
(* something else than the success before it.                               *)
Renewed(f, said) == said.ok /\ said.words # f.told

(* The list of addresses, when it is open, is of the audience newest now. *)
Listed(v) == IF form[v].view THEN Len(frozen) ELSE 0

(* The other reads (newsletter, list, delivery records); the answer and the *)
(* page arrive together, and the forms keep their state.                    *)
ShowPage(v) ==
    LET c == call[v]
        f == form[v]
        news == c.do = "prepare" /\ Renewed(f, c.said)
    IN
    /\ c.do # "nothing" /\ c.at = "read"
    /\ page' = [page EXCEPT ![v] = [shows |-> "page", was |-> c.seen, status |-> newsletter.status,
                                    confirmed |-> newsletter.confirmed, list |-> Listed(v)]]
    /\ IF news THEN /\ tokens' = tokens + 1
                    /\ OnForm(v, [f EXCEPT !.token = tokens + 1, !.told = c.said.words])
               ELSE UNCHANGED <<form, tokens>>
    /\ Request(v, NoCall)
    /\ UNCHANGED <<backend, pressed, presses, moves>>

(* An answer that threw renders no page: the old one stays. *)
ShowRefusal(v) ==
    /\ call[v].do # "nothing" /\ call[v].at = "refused"
    /\ Request(v, NoCall)
    /\ UNCHANGED <<backend, page, form, pressed, presses, moves, tokens>>

-----------------------------------------------------------------------------
(* The buttons, live by what the page shows. *)
Blocking(p) == p.was.newest = 0 \/ ~p.was.current \/ ~p.was.open
CountShown(p) == IF p.confirmed # 0 THEN p.confirmed ELSE p.was.count

Quiet(v) == page[v] # NoPage /\ call[v] = NoCall

Inspect(v) ==
    /\ Quiet(v) /\ ~form[v].view
    /\ page[v].was.newest # 0 /\ Pressing
    /\ OnForm(v, [form[v] EXCEPT !.view = TRUE])
    /\ Request(v, [do |-> "open", at |-> "served", said |-> [ok |-> FALSE, words |-> <<>>]])
    /\ UNCHANGED <<backend, page, pressed, moves, tokens>>

MayAsk(v) == ~page[v].was.valid /\ ~Blocking(page[v]) /\ v # Composer

(* Approving asks twice, naming the count; the form remembers that it asked. *)
Ask(v) ==
    /\ Quiet(v) /\ ~form[v].asked
    /\ MayAsk(v)
    /\ OnForm(v, [form[v] EXCEPT !.asked = TRUE])
    /\ UNCHANGED <<backend, page, call, pressed, presses, moves, tokens>>
Withhold(v) ==
    /\ Quiet(v) /\ form[v].asked /\ ~page[v].was.valid
    /\ Pressing /\ OnForm(v, [form[v] EXCEPT !.asked = FALSE])
    /\ UNCHANGED <<backend, page, call, pressed, moves, tokens>>

LedgerLive(p) == p.was.valid /\ p.status = "DRAFT"
(* The delivery button is live once the count it shows has been typed. *)
Live(v, do) ==
    LET p == page[v] IN
    \/ do = "prepare"
    \/ do = "approve" /\ ~p.was.valid /\ form[v].asked
    \/ do = "withdraw" /\ p.was.valid
    \/ do = "ledger" /\ LedgerLive(p)
    \/ do = "schedule" /\ p.status = "DRAFT" /\ p.was.complete
    \/ do = "reschedule" /\ p.status = "SCHEDULED"
    \/ do = "cancel" /\ p.status = "SCHEDULED"
Operations == {"prepare", "approve", "withdraw", "ledger", "schedule", "reschedule", "cancel"}

Press(v, do) ==
    /\ Quiet(v) /\ Live(v, do)
    /\ Pressing
    /\ pressed' = pressed + (IF do = "prepare" THEN 1 ELSE 0)
    /\ Request(v, [do |-> do, at |-> "sent", key |-> form[v].token, typed |-> CountShown(page[v]), again |-> FALSE])
    /\ UNCHANGED <<backend, page, form, moves, tokens>>

-----------------------------------------------------------------------------
(* The server actions, each with the service it calls. *)
Done(v, words) ==
    Request(v, [do |-> call[v].do, at |-> "served", said |-> [ok |-> TRUE, words |-> words],
                key |-> call[v].key, typed |-> call[v].typed, again |-> call[v].again])
Refusal(v) == Request(v, [do |-> call[v].do, at |-> "refused"])

(* Mutant of Prepared: the key is stored and never looked for. *)
PreparedUnkeyed(key) == FALSE
Prepared(key) == \E i \in DOMAIN frozen : frozen[i].key = key

PrepareFinalAudience(v) ==
    IF Prepared(call[v].key)
    THEN LET i == CHOOSE j \in DOMAIN frozen : frozen[j].key = call[v].key IN
         /\ Done(v, <<"already", Size[frozen[i].crowd]>>)
         /\ UNCHANGED backend
    ELSE /\ frozen' = Append(frozen, [key |-> call[v].key, crowd |-> crowd])
         /\ approval' = [approval EXCEPT !.live = FALSE]
         /\ Done(v, <<"frozen", Size[crowd]>>)
         /\ UNCHANGED <<newsletter, crowd, records>>

Approve(v) ==
    /\ approval' = IF AudienceCurrent /\ v # Composer /\ Sendable
                   THEN [n |-> approval.n + 1, of |-> Len(frozen), text |-> newsletter.text, live |-> TRUE]
                   ELSE approval
    /\ Done(v, <<"approval">>)
    /\ UNCHANGED <<newsletter, crowd, frozen, records>>
Withdraw(v) ==
    /\ approval' = [approval EXCEPT !.live = FALSE]
    /\ Done(v, <<"withdrawn">>)
    /\ UNCHANGED <<newsletter, crowd, frozen, records>>
(* An address that has a delivery record keeps it, of whichever audience.   *)
Ledgered == IF records = 0 THEN Len(frozen) ELSE records
PrepareLedger(v) ==
    /\ IF AudienceCurrent /\ ApprovalValid THEN records' = Ledgered /\ Done(v, <<"records">>)
                                          ELSE UNCHANGED records /\ Refusal(v)
    /\ UNCHANGED <<newsletter, crowd, frozen, approval>>

(* The records are written before the status and the records are judged.    *)
(* Mutant of Confirmed: what the person typed is not looked at.             *)
ConfirmedAsShown(v) == call[v].typed > 0
Confirmed(v) == call[v].typed = FrozenCount
Schedule(v) ==
    /\ IF Complete /\ Confirmed(v)
       THEN /\ records' = Ledgered
            /\ IF newsletter.status = "DRAFT" /\ Ledgered = Len(frozen)
               THEN /\ newsletter' = [newsletter EXCEPT !.status = "SCHEDULED", !.confirmed = FrozenCount,
                                          !.typed = call[v].typed, !.under = [n |-> approval.n, of |-> approval.of]]
                    /\ Done(v, <<"recorded">>)
               ELSE UNCHANGED newsletter /\ Refusal(v)
       ELSE UNCHANGED <<newsletter, records>> /\ Refusal(v)
    /\ UNCHANGED <<crowd, frozen, approval>>
(* Refused also unless the job waits for a person, which is not kept here.  *)
Reschedule(v) ==
    /\ \/ newsletter.status = "SCHEDULED" /\ call[v].typed = newsletter.confirmed /\ Done(v, <<"recorded">>)
       \/ Refusal(v)
    /\ UNCHANGED backend
Cancel(v) ==
    /\ IF newsletter.status = "SCHEDULED"
       THEN newsletter' = [newsletter EXCEPT !.status = "CANCELED"] /\ Done(v, <<"canceled">>)
       ELSE UNCHANGED newsletter /\ Refusal(v)
    /\ UNCHANGED <<crowd, frozen, approval, records>>

Serve(v) ==
    /\ call[v].do # "nothing" /\ call[v].at = "sent"
    /\ \/ call[v].do = "prepare" /\ PrepareFinalAudience(v)
       \/ call[v].do = "approve" /\ Approve(v)
       \/ call[v].do = "withdraw" /\ Withdraw(v)
       \/ call[v].do = "ledger" /\ PrepareLedger(v)
       \/ call[v].do = "schedule" /\ Schedule(v)
       \/ call[v].do = "reschedule" /\ Reschedule(v)
       \/ call[v].do = "cancel" /\ Cancel(v)
    /\ UNCHANGED <<page, form, pressed, presses, moves, tokens>>

(* A double click or a retried POST: the answer is lost, and the same form  *)
(* reaches the server once more.                                            *)
Resend(v) ==
    /\ call[v].do = "prepare" /\ call[v].at = "served" /\ ~call[v].again
    /\ Request(v, [do |-> "prepare", at |-> "sent", key |-> call[v].key, typed |-> call[v].typed, again |-> TRUE])
    /\ UNCHANGED <<backend, page, form, pressed, presses, moves, tokens>>

Browse(v) ==
    \/ OpenPage(v) \/ LeavePage(v) \/ ReadReadiness(v) \/ ShowPage(v) \/ ShowRefusal(v)
    \/ Inspect(v) \/ Ask(v) \/ Withhold(v)
    \/ \E do \in Operations : Press(v, do)
    \/ Serve(v) \/ Resend(v)
ScreenNext == \/ TextEdited \/ \E c \in Crowds : CrowdMoves(c)
              \/ \E v \in Viewers : Browse(v)
ScreenSpec == ScreenInit /\ [][ScreenNext]_screenVars

-----------------------------------------------------------------------------
(* However often a form reaches the server, a press freezes one audience at *)
(* most; and whatever the pages showed by then, and however often a         *)
(* scheduled newsletter is prepared and approved again, what it would send  *)
(* is of as many addresses as the person scheduling typed, and only while   *)
(* no audience was frozen, and no approval given, after the one it was      *)
(* confirmed under.                                                         *)
MaySend == /\ newsletter.status = "SCHEDULED"
           /\ approval.live /\ approval.n = newsletter.under.n
EachPressCounts ==
    /\ Len(frozen) <= pressed
    /\ newsletter.status = "SCHEDULED" => newsletter.typed = Size[frozen[newsletter.under.of].crowd]
    /\ MaySend => newsletter.under.of = Len(frozen) /\ approval.text = newsletter.text

(* As ReadinessActions.tsx states it: after a successful preparation a      *)
(* later, deliberate press is a new preparation, with an audience of its    *)
(* own.                                                                     *)
LaterPressFreezesAnew ==
    [][\A v \in Viewers :
          (call[v].do = "prepare" /\ call[v].at = "sent" /\ ~call[v].again /\ call'[v].at = "served")
             => Len(frozen') = Len(frozen) + 1]_screenVars

(***************************************************************************)
(* The inductive invariant.                                                 *)
(***************************************************************************)
Fields(f) == [token |-> f.token, told |-> f.told, asked |-> f.asked, view |-> f.view]
NewsletterRow == [text : Nat, status : {"DRAFT", "SCHEDULED", "CANCELED"}, confirmed : Nat, typed : Nat,
                  under : [n : Nat, of : Nat]]
ApprovalRow == [n : Nat, of : Nat, text : Nat, live : BOOLEAN]
ScreenTypeOK ==
    /\ newsletter \in NewsletterRow
    /\ crowd \in Crowds
    /\ frozen \in Seq([key : Nat, crowd : Crowds])
    /\ approval \in ApprovalRow
    /\ call = [v \in Viewers |-> call[v]]
    /\ form = [v \in Viewers |-> form[v]] /\ \A v \in Viewers : form[v] = Fields(form[v]) /\ form[v].token \in Nat
    /\ pressed \in Nat /\ tokens \in Nat

(* A form that reaches the server again, or may, has frozen its audience.    *)
Preparing(v) == call[v].do = "prepare"
KeysAreFrozen ==
    \A v \in Viewers :
      Preparing(v) /\ call[v].at \in {"sent", "served"} =>
        /\ call[v].key \in Nat
        /\ call[v].at = "served" \/ call[v].again => Prepared(call[v].key)
(* Each press on its way, and each audience, is one of those counted.        *)
OnTheirWay == {v \in Viewers : Preparing(v) /\ call[v].at = "sent" /\ ~call[v].again}
PressesSuffice == Len(frozen) + Cardinality(OnTheirWay) <= pressed
(* A live approval is of the newest audience.  The schedule keeps the one it  *)
(* was made under, and approvals are numbered, so a later one is another.    *)
ScheduleHolds ==
    /\ approval.live => approval.of = Len(frozen) /\ frozen # <<>>
    /\ newsletter.status = "SCHEDULED" =>
         /\ newsletter.under.of \in DOMAIN frozen
         /\ newsletter.typed = Size[frozen[newsletter.under.of].crowd]
         /\ newsletter.under.n <= approval.n
         /\ newsletter.under.n = approval.n =>
              newsletter.under.of = approval.of /\ approval.text = newsletter.text
ScreenInv == ScreenTypeOK /\ KeysAreFrozen /\ PressesSuffice /\ ScheduleHolds
=============================================================================
