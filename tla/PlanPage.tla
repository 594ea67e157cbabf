------------------------------ MODULE PlanPage ------------------------------
(***************************************************************************)
(* Buying a plan: the billing page of an account, the dialog that changes  *)
(* a paid plan after a preview of its price, the door to the portal of the *)
(* payment provider, and the handler that opens the provider's checkout    *)
(* for the transaction named in the address of a page.                     *)
(***************************************************************************)
EXTENDS Naturals

CONSTANTS Paid,   \* the plans one can buy
          None

VARIABLES ui, net, srv, odd

vars == <<ui, net, srv, odd>>

\* What the account is told to have: a plan, or a subscription that is over.
Standings == Paid \cup {"free", "over"}

Shut == [target |-> None, seen |-> None, loading |-> FALSE, failed |-> FALSE,
         applying |-> FALSE]
NoPortal == [open |-> FALSE, busy |-> FALSE]
NoLink == [mark |-> FALSE, opening |-> FALSE, overlay |-> FALSE, done |-> FALSE, left |-> FALSE]

\* The billing page, with the usage it has read.
Billing(shown) == [at |-> "billing", shown |-> shown, busy |-> None, dialog |-> Shut,
                   portal |-> NoPortal, link |-> NoLink]

Init ==
    /\ \E s \in Standings :
         /\ srv = [real |-> IF s = "over" THEN "free" ELSE s, row |-> s,
                   subs |-> IF s \in Paid THEN 1 ELSE 0,
                   early |-> FALSE]  \* ghost: a checkout was asked for on a page
                                     \* that did not know of the last one
         /\ ui = Billing(s)
    /\ net = {} /\ odd = 2

AtBilling == ui.at = "billing"
Call(c) == net' = net \cup {c}
Ends(c) == c \in net /\ net' = net \ {c}
Fails(c) == Ends(c) /\ odd > 0 /\ odd' = odd - 1 /\ UNCHANGED srv

(* The usage is read again: on focus, after a checkout, after a change.    *)
Refresh ==
    /\ AtBilling
    /\ ui' = [ui EXCEPT !.shown = srv.row]
    /\ UNCHANGED <<net, srv, odd>>

(* The webhooks of the provider arrive. *)
Webhook ==
    /\ srv.row # srv.real /\ srv.row # "over"
    /\ srv' = [srv EXCEPT !.row = IF srv.real = "free" THEN "over" ELSE srv.real]
    /\ UNCHANGED <<ui, net, odd>>

-----------------------------------------------------------------------------
(* The buttons of the plans: whoever has a subscription, or had one, is    *)
(* taken to the dialog; the others to a checkout.                          *)
Manage == ui.shown # "free"
Offered(p) == AtBilling /\ p # ui.shown /\ ui.busy = None /\ ui.dialog.target = None

StartCheckout(p) ==
    /\ Offered(p) /\ ~Manage
    /\ Call([kind |-> "checkout", plan |-> p])
    /\ ui' = [ui EXCEPT !.busy = p]
    /\ srv' = [srv EXCEPT !.early = @ \/ (srv.subs > 0 /\ ui.shown = "free")]
    /\ UNCHANGED odd

OpenPaidPlanChange(p) ==
    /\ Offered(p) /\ Manage
    /\ Call([kind |-> "preview", plan |-> p])
    /\ ui' = [ui EXCEPT !.dialog = [Shut EXCEPT !.target = p, !.loading = TRUE]]
    /\ UNCHANGED <<srv, odd>>

CheckoutFails(c) ==
    /\ c.kind = "checkout" /\ Fails(c)
    /\ ui' = [ui EXCEPT !.busy = None]

-----------------------------------------------------------------------------
(* The dialog: the preview of the price, and the confirmation.             *)
PreviewReady(c) ==
    /\ c.kind = "preview" /\ srv.row \in Paid \ {c.plan} /\ Ends(c)
    /\ ui' = [ui EXCEPT !.dialog.seen = c.plan, !.dialog.loading = FALSE]
    /\ UNCHANGED <<srv, odd>>

PreviewFails(c) ==
    /\ c.kind = "preview"
    /\ \/ Fails(c)
       \/ srv.row \notin Paid \ {c.plan} /\ Ends(c) /\ UNCHANGED <<srv, odd>>
    /\ ui' = [ui EXCEPT !.dialog.failed = TRUE, !.dialog.loading = FALSE]

TryAgain ==
    /\ ui.dialog.failed /\ ~ui.dialog.loading
    /\ Call([kind |-> "preview", plan |-> ui.dialog.target])
    /\ ui' = [ui EXCEPT !.dialog = [Shut EXCEPT !.target = ui.dialog.target, !.loading = TRUE]]
    /\ UNCHANGED <<srv, odd>>

\* Cancel, Escape and a click beside the dialog: not while it is applying.
\* A preview on its way then finds no dialog.
CloseDialog ==
    /\ ui.dialog.target # None /\ ~ui.dialog.applying
    /\ net' = {c \in net : c.kind # "preview"}
    /\ ui' = [ui EXCEPT !.dialog = Shut]
    /\ UNCHANGED <<srv, odd>>

HandleConfirm ==
    LET d == ui.dialog IN
    /\ ~d.applying /\ ~d.loading /\ ~d.failed /\ d.seen # None
    /\ Call([kind |-> "change", plan |-> d.target, seen |-> d.seen])
    /\ ui' = [ui EXCEPT !.dialog.applying = TRUE]
    /\ UNCHANGED <<srv, odd>>

\* The plan is changed at the provider; the page reads its usage again.
Changed(c) ==
    /\ c.kind = "change" /\ srv.row \in Paid \ {c.plan} /\ srv.real \in Paid /\ Ends(c)
    /\ srv' = [srv EXCEPT !.real = c.plan]
    /\ ui' = [ui EXCEPT !.dialog = Shut, !.shown = srv.row]
    /\ UNCHANGED odd

ChangeFails(c) ==
    /\ c.kind = "change"
    /\ \/ Fails(c)
       \/ srv.row \notin Paid \ {c.plan} /\ Ends(c) /\ UNCHANGED <<srv, odd>>
       \/ srv.real \notin Paid /\ Ends(c) /\ UNCHANGED <<srv, odd>>
    /\ ui' = [ui EXCEPT !.dialog.applying = FALSE]

-----------------------------------------------------------------------------
(* The portal: it asks first, and then leaves the site.                    *)
AskPortal ==
    /\ AtBilling /\ Manage /\ ~ui.portal.open
    /\ ui' = [ui EXCEPT !.portal.open = TRUE]
    /\ UNCHANGED <<net, srv, odd>>

ClosePortal ==
    /\ ui.portal.open /\ ~ui.portal.busy
    /\ ui' = [ui EXCEPT !.portal.open = FALSE]
    /\ UNCHANGED <<net, srv, odd>>

OpenPortal ==
    /\ ui.portal.open /\ ~ui.portal.busy
    /\ Call([kind |-> "portal"])
    /\ ui' = [ui EXCEPT !.portal.busy = TRUE]
    /\ UNCHANGED <<srv, odd>>

PortalFails(c) ==
    /\ c.kind = "portal" /\ Fails(c)
    /\ ui' = [ui EXCEPT !.portal.busy = FALSE]

\* In the portal the user may cancel, and comes back to a fresh page.
Portal(c) ==
    /\ c.kind = "portal" /\ c \in net /\ net' = {}
    /\ \/ srv' = [srv EXCEPT !.real = "free", !.subs = 0]
       \/ UNCHANGED srv
    /\ ui' = Billing(srv.row)
    /\ UNCHANGED odd

-----------------------------------------------------------------------------
(* The checkout.  Its address leads to the checkout page, where the        *)
(* handler marks the transaction as opened and loads the provider's code.  *)
CheckoutReady(c) ==
    /\ c.kind = "checkout" /\ c \in net /\ net' = {[kind |-> "paddle", plan |-> c.plan]}
    /\ ui' = [Billing(ui.shown) EXCEPT !.at = "checkout", !.link = [NoLink EXCEPT !.mark = TRUE, !.opening = TRUE]]
    /\ UNCHANGED <<srv, odd>>

AtCheckout == ui.at = "checkout"

PaddleLoads ==
    /\ ui.link.opening
    /\ ui' = [ui EXCEPT !.link.opening = FALSE, !.link.overlay = ~ui.link.left,
                        !.link.mark = ~ui.link.left]
    /\ UNCHANGED <<net, srv, odd>>

OpenFailed(l) == [l EXCEPT !.opening = FALSE, !.mark = FALSE]

PaddleFails ==
    /\ ui.link.opening /\ odd > 0 /\ odd' = odd - 1
    /\ ui' = [ui EXCEPT !.link = OpenFailed(ui.link)]
    /\ UNCHANGED <<net, srv>>

\* A reload of the checkout page opens the same transaction again.
Reload ==
    /\ AtCheckout /\ ~ui.link.left
    /\ ui' = [ui EXCEPT !.link = [NoLink EXCEPT !.mark = TRUE, !.opening = TRUE]]
    /\ UNCHANGED <<net, srv, odd>>

\* Another page of the site is opened without a page load.
Leave ==
    /\ AtCheckout /\ ~ui.link.left /\ ~ui.link.done
    /\ ui' = [ui EXCEPT !.link.left = TRUE]
    /\ UNCHANGED <<net, srv, odd>>

Pay ==
    /\ ui.link.overlay /\ ~ui.link.done /\ srv.subs < 2
    /\ \E c \in net : Ends(c) /\ srv' = [srv EXCEPT !.subs = @ + 1, !.real = c.plan]
    /\ ui' = [ui EXCEPT !.link.done = TRUE]
    /\ UNCHANGED odd

\* The overlay sends the browser back: after the payment with success, and
\* when it was closed before with cancel, which forgets the mark.
Success ==
    /\ ui.link.overlay /\ ui.link.done
    /\ ui' = Billing(srv.row) /\ net' = {}
    /\ UNCHANGED <<srv, odd>>

CloseOverlay ==
    /\ ui.link.overlay /\ ~ui.link.done
    /\ IF ui.link.left THEN ui' = [ui EXCEPT !.link.overlay = FALSE] /\ UNCHANGED net
                       ELSE ui' = Billing(srv.row) /\ net' = {}
    /\ UNCHANGED <<srv, odd>>

GoToBilling ==
    /\ AtCheckout /\ ~ui.link.overlay /\ ~ui.link.opening
    /\ ui' = Billing(srv.row) /\ net' = {}
    /\ UNCHANGED <<srv, odd>>

Answer(c) == PreviewReady(c) \/ Changed(c) \/ Portal(c) \/ CheckoutReady(c)
Fail(c) == CheckoutFails(c) \/ PreviewFails(c) \/ ChangeFails(c) \/ PortalFails(c)

Next ==
    \/ \E p \in Paid : StartCheckout(p) \/ OpenPaidPlanChange(p)
    \/ Refresh \/ Webhook \/ TryAgain \/ CloseDialog \/ HandleConfirm
    \/ AskPortal \/ ClosePortal \/ OpenPortal
    \/ PaddleLoads \/ PaddleFails \/ Reload \/ Leave \/ Pay \/ Success \/ CloseOverlay
    \/ GoToBilling
    \/ \E c \in net : Answer(c) \/ Fail(c)

Spec == Init /\ [][Next]_vars

-----------------------------------------------------------------------------
TypeOK ==
    /\ ui.at \in {"billing", "checkout"} /\ ui.shown \in Standings
    /\ {ui.busy, ui.dialog.target, ui.dialog.seen} \subseteq Paid \cup {None}
    /\ {ui.dialog.loading, ui.dialog.failed, ui.dialog.applying, ui.portal.open, ui.portal.busy}
          \subseteq BOOLEAN
    /\ \A f \in DOMAIN NoLink : ui.link[f] \in BOOLEAN
    /\ srv.real \in Paid \cup {"free"} /\ srv.row \in Standings /\ srv.subs \in 0..2

Under(kind) == \E c \in net : c.kind = kind

Stuck == \/ ui.busy # None /\ ~Under("checkout")
         \/ ui.dialog.loading /\ ~Under("preview")
         \/ ui.dialog.applying /\ ~Under("change")
         \/ ui.portal.busy /\ ~Under("portal")

(* The plan that is bought with the saved payment method is the one whose  *)
(* price was shown.                                                        *)
PricedFirst == \A c \in net : c.kind = "change" => c.seen = c.plan

(* An account pays for two subscriptions only when its second checkout was *)
(* asked for on a page that did not know yet of the first.                 *)
PaysOnce == srv.subs = 2 => srv.early

(* A transaction that is marked as opened is open, paid, or was left for   *)
(* another page: a failure to open it leaves it to be tried again.         *)
MarkedIsOpen == ui.link.mark => \/ ui.link.opening \/ ui.link.overlay
                                \/ ui.link.done \/ ui.link.left
=============================================================================
