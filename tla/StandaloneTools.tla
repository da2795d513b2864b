--------------------------- MODULE StandaloneTools ---------------------------
(***************************************************************************)
(* The tools that stand beside the main program and share no code with it: *)
(* the DigitalOcean function sync-line-items, the tool                     *)
(* phobs_sync_line_items of the MCP server, and the quote runner.  Each    *)
(* asks Phobs, selects offers, and makes products and line items in        *)
(* HubSpot; the runner makes a quote of them.  None has a record to resume *)
(* from: a request runs once, to an answer or not.  "check" stands for the *)
(* function availability and the MCP server's two tools that only ask.     *)
(* One request is followed; the others and the main program meet it in     *)
(* HubSpot's products.                                                     *)
(***************************************************************************)
EXTENDS Naturals, Sequences, FiniteSets

CONSTANTS
  Response,     \* availability responses: sequences of [sku, units, price]
  Sku,          \* property, unit and rate: an offer's product
  MaxResults,   \* caps a request may set; 0: none
  MaxRequests   \* bound: requests, one after the other

OfferRow == [sku: Sku, units: Nat, price: Nat]

ASSUME ToolsAssumption ==
  /\ Response \subseteq Seq(OfferRow)
  /\ MaxResults \subseteq Nat /\ MaxRequests \in Nat

VARIABLES
  products,   \* SKUs that have a product in HubSpot
  request,    \* the request and what it knows
  made,       \* ghost: offers of the response it has made line items of, in order
  quote,      \* the quote it made: its line items, and whether it is approved
  status,     \* the deal's phobs_availability_status
  lost,       \* ghost: HubSpot made a line item whose answer was lost
  requests    \* requests so far

toolVars == <<products, request, made, quote, status, lost, requests>>

Tool == {"function", "mcp", "runner", "check"}
ToolPC == {"idle", "phobs", "search", "product", "item", "quote", "approve", "poll", "status",
           "ok", "error", "cut"}
NoRequest == [pc |-> "idle", tool |-> "mcp", max |-> 0, response |-> <<>>, selected |-> <<>>, at |-> 1,
              items |-> <<>>, answer |-> <<>>]
NoQuote == [items |-> <<>>, approved |-> FALSE]

ToolsTypeOK ==
  /\ products \subseteq Sku
  /\ request \in [pc: ToolPC, tool: Tool, max: MaxResults \cup {0},
                  response: Response \cup {<<>>}, selected: Seq(OfferRow), at: Nat,
                  items: Seq(OfferRow), answer: Seq(OfferRow)]
  /\ request.at \in 1..(Len(request.selected) + 1)
  /\ Len(request.items) <= Len(made)
  /\ request.tool # "check" => Len(request.answer) <= Len(made)
  /\ made \in Seq(OfferRow)
  /\ quote \in [items: Seq(OfferRow), approved: BOOLEAN] /\ Len(quote.items) <= Len(made)
  /\ status \in {"none", "no_availability", "available"}
  /\ lost \in BOOLEAN
  /\ requests \in 0..MaxRequests

ToolsInit ==
  /\ products = {} /\ request = NoRequest /\ made = <<>> /\ quote = NoQuote
  /\ status = "none" /\ lost = FALSE /\ requests = 0

-----------------------------------------------------------------------------
\* selectOffers

Offered(offer) == offer.units > 0 /\ offer.price > 0

Selling(response) == {i \in DOMAIN response : Offered(response[i])}

\* The offers at some places of a response in the order of the sort: by price, which
\* Array.prototype.sort keeps stable.
Before(response, i, j) ==
  response[i].price < response[j].price \/ (response[i].price = response[j].price /\ i < j)

Rank(response, places, i) == Cardinality({j \in places : j = i \/ Before(response, j, i)})

ByPrice(response, places) ==
  [k \in 1..Cardinality(places) |-> response[CHOOSE i \in places : Rank(response, places, i) = k]]

Capped(offers, max) ==
  IF max = 0 \/ max >= Len(offers) THEN offers ELSE [k \in 1..max |-> offers[k]]

\* Mutant: the cap comes before the sort.
SelectUnsorted(response, max) ==
  ByPrice(response, {i \in Selling(response) :
                       max = 0 \/ Cardinality({j \in Selling(response) : j <= i}) <= max})

SelectOffers(response, max) == Capped(ByPrice(response, Selling(response)), max)

-----------------------------------------------------------------------------
RequestAt(pc) == request.pc = pc
RequestTo(pc) == request' = [request EXCEPT !.pc = pc]
Offer == request.selected[request.at]
AtLast == request.at = Len(request.selected)

\* Mutant: the error names the offers that were selected.
FailedNamingSelected == request' = [request EXCEPT !.pc = "error", !.answer = request.selected]

\* The request is answered with an error.  The function and the MCP tool tell which line
\* items were made; the runner does not.
Failed ==
  request' = [request EXCEPT !.pc = "error",
                             !.answer = IF request.tool = "runner" THEN <<>> ELSE request.items]

Arrives ==
  /\ request.pc \in {"idle", "ok", "error", "cut"}
  /\ requests < MaxRequests /\ requests' = requests + 1
  /\ made' = <<>> /\ quote' = NoQuote /\ lost' = FALSE
  /\ UNCHANGED <<products, status>>

\* The bearer token is missing or wrong, the environment is incomplete, or the request does
\* not validate: an error before anything is asked of Phobs or HubSpot.
RefuseRequest(tool) ==
  /\ Arrives
  /\ request' = [NoRequest EXCEPT !.pc = "error", !.tool = tool]

\* A request that validates, and the maxResults it sets.
Invoke(tool, max) ==
  /\ Arrives
  /\ request' = [NoRequest EXCEPT !.pc = "phobs", !.tool = tool, !.max = max]

\* fetchAvailability, and the offers it leaves: none, and all there is to do is the deal's
\* status.
Availability(response) ==
  /\ RequestAt("phobs") /\ request.tool # "check"
  /\ LET selected == SelectOffers(response, request.max)
     IN request' = [request EXCEPT !.pc = IF selected = <<>> THEN "status" ELSE "search",
                                   !.response = response, !.selected = selected]
  /\ UNCHANGED <<products, made, quote, status, lost, requests>>

\* A tool that only asks answers with all that Phobs said.
Check(response) ==
  /\ RequestAt("phobs") /\ request.tool = "check"
  /\ request' = [request EXCEPT !.pc = "ok", !.response = response, !.answer = response]
  /\ UNCHANGED <<products, made, quote, status, lost, requests>>

\* An address that is not https, a timeout, an HTTP error, a response that is not Success.
PhobsFails ==
  /\ RequestAt("phobs")
  /\ Failed
  /\ UNCHANGED <<products, made, quote, status, lost, requests>>

\* The runner has all products before it makes the first line item; the others go offer by
\* offer.
ProductKnown ==
  request' = IF request.tool # "runner" THEN [request EXCEPT !.pc = "item"]
             ELSE IF AtLast THEN [request EXCEPT !.pc = "item", !.at = 1]
             ELSE [request EXCEPT !.pc = "search", !.at = @ + 1]

\* upsertProductBySku: HubSpot's search, which may not show a product yet, then a create.
SearchProduct ==
  /\ RequestAt("search")
  /\ \/ Offer.sku \in products /\ ProductKnown
     \/ RequestTo("product")
  /\ UNCHANGED <<products, made, quote, status, lost, requests>>

MakeProduct ==
  /\ RequestAt("product")
  /\ products' = products \cup {Offer.sku}
  /\ ProductKnown
  /\ UNCHANGED <<made, quote, status, lost, requests>>

\* Another request or the main program creates one.
OtherProduct(sku) ==
  /\ products' = products \cup {sku}
  /\ UNCHANGED <<request, made, quote, status, lost, requests>>

MakeLineItem ==
  /\ RequestAt("item")
  /\ made' = Append(made, Offer)
  /\ LET pc == IF ~AtLast THEN (IF request.tool = "runner" THEN "item" ELSE "search")
               ELSE IF request.tool = "runner" THEN "quote" ELSE "status"
     IN request' = [request EXCEPT !.pc = pc, !.at = @ + 1, !.items = Append(@, Offer)]
  /\ UNCHANGED <<products, quote, status, lost, requests>>

\* HubSpot refuses, or its answer is lost.
HubSpotFails ==
  /\ request.pc \in {"search", "product", "item", "quote", "approve"}
  /\ Failed
  /\ \/ UNCHANGED <<products, made, quote, lost>>
     \/ /\ RequestAt("product") /\ products' = products \cup {Offer.sku}
        /\ UNCHANGED <<made, quote, lost>>
     \/ /\ RequestAt("item") /\ made' = Append(made, Offer) /\ lost' = TRUE
        /\ UNCHANGED <<products, quote>>
     \/ /\ RequestAt("quote") /\ quote' = [items |-> request.items, approved |-> FALSE]
        /\ UNCHANGED <<products, made, lost>>
     \/ /\ RequestAt("approve") /\ quote' = [quote EXCEPT !.approved = TRUE]
        /\ UNCHANGED <<products, made, lost>>
  /\ UNCHANGED <<status, requests>>

-----------------------------------------------------------------------------
\* The runner's quote

MakeQuote ==
  /\ RequestAt("quote")
  /\ quote' = [items |-> request.items, approved |-> FALSE]
  /\ RequestTo("approve")
  /\ UNCHANGED <<products, made, status, lost, requests>>

Approve ==
  /\ RequestAt("approve")
  /\ quote' = [quote EXCEPT !.approved = TRUE]
  /\ RequestTo("poll")
  /\ UNCHANGED <<products, made, status, lost, requests>>

\* pollQuoteLink swallows errors and gives up after ten seconds, without a link.
PollLink ==
  /\ RequestAt("poll")
  /\ RequestTo("status")
  /\ UNCHANGED <<products, made, quote, status, lost, requests>>

\* updateDealProperties, best effort or switched off; then the answer.
WriteStatus ==
  /\ RequestAt("status")
  /\ \/ status' = IF request.selected = <<>> THEN "no_availability" ELSE "available"
     \/ UNCHANGED status
  /\ request' = [request EXCEPT !.pc = "ok", !.answer = request.items]
  /\ UNCHANGED <<products, made, quote, lost, requests>>

\* The function's time is up, a process ends, the caller hangs up: no answer.
Cut ==
  /\ request.pc \notin {"idle", "ok", "error", "cut"}
  /\ RequestTo("cut")
  /\ UNCHANGED <<products, made, quote, status, lost, requests>>

ToolsNext ==
  \/ \E tool \in Tool : RefuseRequest(tool) \/ \E max \in MaxResults \cup {0} : Invoke(tool, max)
  \/ \E response \in Response : Availability(response) \/ Check(response)
  \/ \E sku \in Sku : OtherProduct(sku)
  \/ PhobsFails \/ SearchProduct \/ MakeProduct \/ MakeLineItem \/ HubSpotFails
  \/ MakeQuote \/ Approve \/ PollLink \/ WriteStatus \/ Cut

ToolsSpec == ToolsInit /\ [][ToolsNext]_toolVars

-----------------------------------------------------------------------------
\* What a request answers is what it did.  "Drops zero-availability / zero-price rows, sorts
\* by price ascending, caps at maxResults" (sync-line-items 6): an answer of success has a
\* line item for each of that many cheapest offers, whatever was found, created or missed
\* on the way, and the runner's approved quote is of exactly these; and "partial progress is
\* real state in the CRM - report it" (phobs-mcp/server.js 262): an error of the function or
\* the MCP tool names every line item that was made, but the one whose answer was lost.
AnswersAddUp ==
  /\ request.pc = "ok" /\ request.tool # "check" =>
       LET offered == Selling(request.response)
           most == IF request.max = 0 \/ request.max > Cardinality(offered)
                   THEN Cardinality(offered) ELSE request.max
       IN /\ Len(made) = most /\ request.answer = made
          /\ \A i \in offered :
               \/ \E k \in DOMAIN made : made[k] = request.response[i]
               \/ \A k \in DOMAIN made : made[k].price <= request.response[i].price
          /\ \A k \in 1..(Len(made) - 1) : made[k].price <= made[k + 1].price
          /\ request.tool = "runner" /\ most > 0 => quote = [items |-> made, approved |-> TRUE]
  /\ request.pc = "error" /\ request.tool # "runner" =>
       made = request.answer \/ (lost /\ made = Append(request.answer, made[Len(made)]))
=============================================================================
