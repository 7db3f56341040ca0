------------------------------ MODULE Catalogue ------------------------------
(***************************************************************************)
(* The administrator's catalogue (internal/handlers/admin): technologies,  *)
(* materials, engrave types, rates, discounts, price references, material  *)
(* costs, speeds, system configuration and blanks, the status of a quote,  *)
(* and ConsultarBlank, which the assistants ask for the price of a blank.  *)
(*                                                                         *)
(* The tables do not touch each other, so a behaviour is about one of      *)
(* them.  Every update reads a row, merges the form into it and saves all  *)
(* its columns; a deletion clears is_active; no row is ever removed.  The  *)
(* handlers differ in what a form means for a column, which is what the    *)
(* rules below say.  One column stands for all the columns of a table with *)
(* the same rule, and a value for a text or a number: 0 is the zero value  *)
(* (empty, false, NULL).                                                   *)
(***************************************************************************)
EXTENDS Integers, FiniteSets, Sequences

CONSTANTS
    Requests,     \* goroutines that serve requests, one after another
    BreakTables,  \* the price breaks that a value of blanks.price_breaks stands for
    MaxRows,      \* bound: rows of the table
    MaxBegun,     \* bound: operations ever begun
    MaxForm       \* bound: columns a form sets, or sets to something else than 1

Values == 0 .. 2

ASSUME BreakTablesAssumption ==
    BreakTables \in [Values -> SUBSET [qty : Nat, unit_price : Nat]] /\ BreakTables[0] = {}
ASSUME BoundsAssumption == MaxRows \in Nat \ {0} /\ MaxBegun \in Nat /\ MaxForm \in Nat

-----------------------------------------------------------------------------
\* What the forms mean.  To create a row: the columns that the form must have
\* and those it may leave out.  To update it: those whose zero value in the
\* form keeps the column, those that only a missing field keeps, and those that
\* the form always sets, to zero when it leaves them out.

CreateTechnology == [required |-> {"code", "name"}, optional |-> {"uv_premium_factor"}]
UpdateTechnology == [nonzero |-> {"name"}, pointer |-> {"is_active"},
                     forced |-> {"uv_premium_factor"}]

CreateMaterial == [required |-> {"name"}, optional |-> {"factor", "thicknesses"}]
UpdateMaterial == [nonzero |-> {"name", "factor"}, pointer |-> {"thicknesses", "is_active"},
                   forced |-> {}]

CreateEngraveType == [required |-> {"name"}, optional |-> {"factor"}]
UpdateEngraveType == [nonzero |-> {"name", "factor"}, pointer |-> {"is_active"},
                      forced |-> {}]

CreateTechRate == [required |-> {"technology_id"},
                   optional |-> {"engrave_rate_hour", "overhead_rate_hour", "setup_fee",
                                 "electricidad_mes", "is_active"}]
UpdateTechRate == [nonzero |-> {"engrave_rate_hour", "overhead_rate_hour",
                                "cost_per_min_engrave"},
                   pointer |-> {"electricidad_mes", "is_active"},
                   forced |-> {"setup_fee"}]

CreateVolumeDiscount == [required |-> {}, optional |-> {"min_qty", "max_qty", "discount_pct"}]
UpdateVolumeDiscount == [nonzero |-> {"discount_pct"}, pointer |-> {"min_qty", "is_active"},
                         forced |-> {"max_qty"}]

CreatePriceReference == [required |-> {"service_type"}, optional |-> {"min_usd"}]
UpdatePriceReference == [nonzero |-> {"service_type", "min_usd"}, pointer |-> {"is_active"},
                         forced |-> {}]

\* sheet is the three columns of the sheet: 0 when one is missing, 1 when the
\* sheet has no area, 2 and 3 for sheets with a cost per mm2 of 2 and 3.
CreateMaterialCost == [required |-> {"material_id"},
                       optional |-> {"cost_per_mm2", "sheet", "waste_pct"}]
UpdateMaterialCost == [nonzero |-> {"sheet"},
                       pointer |-> {"cost_per_mm2", "waste_pct", "is_active"},
                       forced |-> {}]

CreateTechMaterialSpeed == [required |-> {"combination"},
                            optional |-> {"cut_speed_mm_min", "is_compatible"}]
UpdateTechMaterialSpeed == [nonzero |-> {},
                            pointer |-> {"cut_speed_mm_min", "is_compatible", "is_active"},
                            forced |-> {}]

CreateSystemConfig == [required |-> {"config_key", "config_value"}, optional |-> {}]
UpdateSystemConfig == [nonzero |-> {"config_value"}, pointer |-> {"is_active"}, forced |-> {}]

\* The form is the whole row, its flags and counts included; the id it may also
\* set only names the row, and one that is taken is refused.
CreateBlank == [required |-> {"name"},
                optional |-> {"base_price", "min_qty", "price_breaks", "stock_qty",
                              "stock_alert", "is_featured", "quote_count"}]
UpdateBlank == [nonzero |-> {}, pointer |-> {"price_breaks"},
                forced |-> {"name", "base_price", "min_qty", "stock_qty", "stock_alert",
                            "is_active"}]

\* Quotes are created elsewhere.
UpdateQuote == [nonzero |-> {"status", "review_notes"}, pointer |-> {}, forced |-> {}]

Creates == [technologies |-> CreateTechnology, materials |-> CreateMaterial,
            engrave_types |-> CreateEngraveType, tech_rates |-> CreateTechRate,
            volume_discounts |-> CreateVolumeDiscount,
            price_references |-> CreatePriceReference,
            material_costs |-> CreateMaterialCost, speeds |-> CreateTechMaterialSpeed,
            system_config |-> CreateSystemConfig, blanks |-> CreateBlank]

Updates == [technologies |-> UpdateTechnology, materials |-> UpdateMaterial,
            engrave_types |-> UpdateEngraveType, tech_rates |-> UpdateTechRate,
            volume_discounts |-> UpdateVolumeDiscount,
            price_references |-> UpdatePriceReference,
            material_costs |-> UpdateMaterialCost, speeds |-> UpdateTechMaterialSpeed,
            system_config |-> UpdateSystemConfig, blanks |-> UpdateBlank,
            quotes |-> UpdateQuote]

Tables == DOMAIN Updates

\* The columns that the updates leave alone.  loose is no column: it is 1 when
\* the cost of a row and what it is computed from have been set apart.
Others(t) ==
    CASE t \in {"tech_rates", "material_costs"} -> {"loose"}
      [] t = "blanks" -> {"is_featured", "quote_count"}
      [] OTHER -> {}

Editable(t) == Updates[t].nonzero \union Updates[t].pointer \union Updates[t].forced
FormOf(t) == IF t \in DOMAIN Creates THEN Creates[t].required \union Creates[t].optional ELSE {}
Columns(t) == Editable(t) \union FormOf(t) \union Others(t)

\* UNIQUE, whatever is_active says.
Key(t) ==
    CASE t = "technologies" -> {"code"}
      [] t = "materials" -> {"name"}
      [] t = "tech_rates" -> {"technology_id"}
      [] t = "material_costs" -> {"material_id"}
      [] t = "speeds" -> {"combination"}
      [] t = "system_config" -> {"config_key"}
      [] OTHER -> {}

\* Columns with a default, here 1, that an insert stores in the place of zero.
Defaulted == {"is_active", "factor", "overhead_rate_hour", "waste_pct", "is_compatible",
              "stock_alert"}
HasDefault(t, c) == c \in Defaulted \/ (t = "blanks" /\ c = "min_qty")

ColumnValues(c) ==
    CASE c = "sheet" -> 0 .. 3
      [] c = "is_featured" -> 0 .. 1
      [] OTHER -> Values

VARIABLES
    table,      \* the table that this behaviour is about
    rows,       \* its rows, in the order of their ids
    req,        \* req[p]: the row that request p has read, and why
    counting,   \* counting[i]: queries about blank i not yet counted
    begun,      \* operations begun, which MaxBegun bounds
    \* history variables
    blind,      \* requests whose row has been changed since they read it
    disturbed,  \* rows that a blind request has saved
    meant       \* the rows, had each operation only set what its form is about
vars == <<table, rows, req, counting, begun, blind, disturbed, meant>>

Ids == 1 .. Len(rows)
Active(i) == rows[i]["is_active"] = 1

Idle == [step |-> "idle", id |-> 0, row |-> << >>]
InProgress(p) == req[p].step # "idle"

-----------------------------------------------------------------------------
\* The two costs that are computed from other columns: per mm2, from the sheet;
\* per minute (here per hour), from the rates.
CostColumn(t) == IF t = "tech_rates" THEN "cost_per_min_engrave" ELSE "cost_per_mm2"
CostInputs(t) == IF t = "tech_rates" THEN {"engrave_rate_hour", "overhead_rate_hour"}
                 ELSE {"sheet"}

HasSheet(u) == u["sheet"] \in {2, 3}
CostOf(t, u) == IF t = "tech_rates" THEN u["engrave_rate_hour"] + u["overhead_rate_hour"]
                ELSE u["sheet"]

\* A row without cost: the form and what the handler adds.  A cost typed into
\* the form counts only when a column of the sheet is missing.
Filled(t, form) ==
    [c \in Columns(t) |->
        CASE c = "is_active" /\ t # "tech_rates" -> 1
          [] c = "cost_per_min_engrave" -> CostOf(t, form)
          [] c = "cost_per_mm2" ->
                IF HasSheet(form) THEN CostOf(t, form)
                ELSE IF form["sheet"] = 1 THEN 0 ELSE form[c]
          [] c = "loose" ->
                IF \/ t = "tech_rates" /\ form["overhead_rate_hour"] # 0
                   \/ t = "material_costs" /\ HasSheet(form)
                THEN 0 ELSE 1
          [] OTHER -> IF c \in DOMAIN form THEN form[c] ELSE 0]

\* gorm takes a zero for a column that is not set.
Inserted(t, u) == [c \in Columns(t) |-> IF u[c] = 0 /\ HasDefault(t, c) THEN 1 ELSE u[c]]

CreateForms ==
    [t \in DOMAIN Creates |->
        {form \in [FormOf(t) -> 0 .. 3] :
            /\ \A c \in FormOf(t) : form[c] \in ColumnValues(c)
            /\ Cardinality({c \in FormOf(t) : form[c] # 1}) <= MaxForm
            /\ \A c \in Creates[t].required : form[c] # 0
            /\ t = "material_costs" => form["sheet"] # 0 \/ form["cost_per_mm2"] # 0}]

\* The rows that the forms make.
NewRows ==
    [t \in DOMAIN Creates |-> {Inserted(t, Filled(t, form)) : form \in CreateForms[t]}]

\* The fields that an update's form has.
UpdateForms ==
    [t \in Tables |->
        UNION {{form \in [S -> 0 .. 3] : \A c \in S : form[c] \in ColumnValues(c)} :
               S \in {S \in SUBSET Editable(t) : Cardinality(S) <= MaxForm}}]

\* Row u with the form merged into it.
Merged(t, u, form) ==
    LET sets == {c \in DOMAIN form : form[c] # 0 \/ c \notin Updates[t].nonzero} IN
    [c \in DOMAIN u |->
        IF c \in sets THEN form[c]
        ELSE IF c \in Updates[t].forced THEN 0
        ELSE IF c = "loose" /\ sets \intersect (CostInputs(t) \union {CostColumn(t)}) # {} THEN 1
        ELSE u[c]]

Conflicts(i, u) ==
    /\ Key(table) # {}
    /\ \E j \in Ids \ {i} : \A c \in Key(table) : rows[j][c] = u[c]

-----------------------------------------------------------------------------
\* Row i becomes u, where the operation is about making it m, and the requests
\* that have read it are blind from now on.
Write(i, u, m) ==
    /\ rows' = [rows EXCEPT ![i] = u]
    /\ meant' = [meant EXCEPT ![i] = m]
    /\ blind' = blind \union
            (IF u = rows[i] THEN {} ELSE {q \in Requests : InProgress(q) /\ req[q].id = i})

Counted == begun < MaxBegun /\ begun' = begun + 1

\* An operation that writes row i at once.
Sets(i, u, m) ==
    /\ Counted
    /\ Write(i, u, m)
    /\ UNCHANGED <<table, req, counting, disturbed>>

Reads(p, step, i) ==
    /\ ~InProgress(p)
    /\ Counted
    /\ req' = [req EXCEPT ![p] = [step |-> step, id |-> i, row |-> rows[i]]]
    /\ UNCHANGED <<table, rows, counting, blind, disturbed, meant>>

\* Save: request p writes all the columns of the row it has read, changed to u.
Saves(p, u, m) ==
    LET i == req[p].id IN
    /\ ~Conflicts(i, u)
    /\ rows' = [rows EXCEPT ![i] = u]
    /\ disturbed' = IF p \in blind THEN disturbed \union {i} ELSE disturbed
    /\ meant' = [meant EXCEPT ![i] = m]
    /\ req' = [req EXCEPT ![p] = Idle]
    /\ blind' = {q \in Requests \ {p} :
                    q \in blind \/ (u # rows[i] /\ InProgress(q) /\ req[q].id = i)}
    /\ UNCHANGED <<table, counting, begun>>

-----------------------------------------------------------------------------
Insert(new) ==
    /\ Len(rows) + Len(new) <= MaxRows
    /\ \A k \in DOMAIN new :
        /\ ~Conflicts(0, new[k])
        /\ Key(table) # {} =>
            \A l \in DOMAIN new \ {k} : \E c \in Key(table) : new[k][c] # new[l][c]
    /\ rows' = rows \o new
    /\ meant' = meant \o new
    /\ UNCHANGED <<table, counting, blind, disturbed>>

\* Create, of every table but quotes and the system's configuration.
Create ==
    /\ table \in DOMAIN Creates \ {"system_config"}
    /\ Counted
    /\ \E u \in NewRows[table] : Insert(<<u>>)
    /\ UNCHANGED req

\* BulkCreate: all the speeds of the form, in one transaction, or none.
BulkCreateTechMaterialSpeeds ==
    /\ table = "speeds"
    /\ Counted
    /\ \E u1, u2 \in NewRows[table] : Insert(<<u1, u2>>)
    /\ UNCHANGED req

\* CreateSystemConfig looks for an active row of the key first; a failed lookup
\* counts as none.
FindByKey(key) == \E i \in Ids : rows[i]["config_key"] = key /\ Active(i)

CreateConfigBegins(p) ==
    /\ table = "system_config"
    /\ ~InProgress(p)
    /\ Counted
    /\ \E u \in NewRows[table] :
        /\ ~FindByKey(u["config_key"])
        /\ req' = [req EXCEPT ![p] = [step |-> "create_config", id |-> 0, row |-> u]]
    /\ UNCHANGED <<table, rows, counting, blind, disturbed, meant>>

CreateConfig(p) ==
    /\ req[p].step = "create_config"
    /\ Insert(<<req[p].row>>)
    /\ req' = [req EXCEPT ![p] = Idle]
    /\ UNCHANGED begun

\* Update, of every table.
UpdateBegins(p) == \E i \in Ids : Reads(p, "update", i)

Update(p) ==
    /\ req[p].step = "update"
    /\ \E form \in UpdateForms[table] :
        Saves(p, Merged(table, req[p].row, form), Merged(table, meant[req[p].id], form))

\* RecalculateMaterialCost.
RecalculateBegins(p) ==
    /\ table = "material_costs"
    /\ \E i \in Ids : HasSheet(rows[i]) /\ Reads(p, "recalculate", i)

Recalculated(u, from) == [u EXCEPT !["cost_per_mm2"] = CostOf(table, from), !["loose"] = 0]

\* Mutant: only the cost is written.
RecalculateColumn(p) ==
    /\ req[p].step = "recalculate"
    /\ Saves(p, Recalculated(rows[req[p].id], req[p].row),
             Recalculated(meant[req[p].id], req[p].row))

RecalculateMaterialCost(p) ==
    /\ req[p].step = "recalculate"
    /\ Saves(p, Recalculated(req[p].row, req[p].row),
             Recalculated(meant[req[p].id], req[p].row))

\* Delete, of every table but quotes.
Delete ==
    /\ table \in DOMAIN Creates
    /\ \E i \in Ids :
        Sets(i, [rows[i] EXCEPT !["is_active"] = 0], [meant[i] EXCEPT !["is_active"] = 0])

-----------------------------------------------------------------------------
\* Blanks: the stock, the featured ones and the count of queries are set in the
\* database, whatever they are by then.

\* Mutant: the quantity replaces the stock.
AddStockReplaces(i, qty) ==
    Sets(i, [rows[i] EXCEPT !["stock_qty"] = qty], [meant[i] EXCEPT !["stock_qty"] = @ + qty])

AddStock(i, qty) ==
    Sets(i, [rows[i] EXCEPT !["stock_qty"] = @ + qty],
         [meant[i] EXCEPT !["stock_qty"] = @ + qty])

SetStock(i, qty) ==
    Sets(i, [rows[i] EXCEPT !["stock_qty"] = qty], [meant[i] EXCEPT !["stock_qty"] = qty])

UpdateStock ==
    /\ table = "blanks"
    /\ \E i \in Ids : \/ \E qty \in {-1, 1} : AddStock(i, qty)
                      \/ \E qty \in Values : SetStock(i, qty)

Toggled(u) == [u EXCEPT !["is_featured"] = 1 - @]

ToggleFeatured ==
    /\ table = "blanks"
    /\ \E i \in Ids : Sets(i, Toggled(rows[i]), Toggled(meant[i]))

\* ConsultarBlank answers about an active blank, named by its id or alone in its
\* category, and counts the query in a goroutine of its own.
ConsultarBlank ==
    /\ table = "blanks"
    /\ Counted
    /\ \E i \in Ids :
        /\ Active(i)
        /\ counting' = [counting EXCEPT ![i] = @ + 1]
    /\ UNCHANGED <<table, rows, req, blind, disturbed, meant>>

IncrementQuoteCount ==
    \E i \in Ids :
        /\ counting[i] > 0
        /\ counting' = [counting EXCEPT ![i] = @ - 1]
        /\ Write(i, [rows[i] EXCEPT !["quote_count"] = @ + 1],
                 [meant[i] EXCEPT !["quote_count"] = @ + 1])
        /\ UNCHANGED <<table, req, begun, disturbed>>

\* Mutant: the breaks are sorted upwards.
computePriceUpwards(u, qty) ==
    LET reached == {br \in BreakTables[u["price_breaks"]] : qty >= br.qty}
        first == {br \in reached : \A other \in reached : br.qty <= other.qty} IN
    IF reached = {} THEN {u["base_price"]} ELSE {br.unit_price : br \in first}

\* The unit price of an order of qty: of the greatest break it reaches.
computePriceForQty(u, qty) ==
    LET reached == {br \in BreakTables[u["price_breaks"]] : qty >= br.qty}
        first == {br \in reached : \A other \in reached : br.qty >= other.qty} IN
    IF reached = {} THEN {u["base_price"]} ELSE {br.unit_price : br \in first}

\* What ConsultarBlank says of the stock and of the order.
Notices(u, qty) ==
    (IF u["stock_qty"] = 0 THEN {"sin_stock"}
     ELSE IF u["stock_qty"] <= u["stock_alert"] THEN {"stock_bajo"} ELSE {})
        \union (IF qty < u["min_qty"] THEN {"bajo_minimo"} ELSE {})

-----------------------------------------------------------------------------
\* A request is refused, one of its queries fails or the server restarts; a
\* query may go uncounted.
Fails(p) ==
    /\ InProgress(p)
    /\ req' = [req EXCEPT ![p] = Idle]
    /\ blind' = blind \ {p}
    /\ UNCHANGED <<table, rows, counting, begun, disturbed, meant>>

GoesUncounted ==
    /\ \E i \in Ids :
        /\ counting[i] > 0
        /\ counting' = [counting EXCEPT ![i] = @ - 1]
    /\ UNCHANGED <<table, rows, req, begun, blind, disturbed, meant>>

Init ==
    /\ table \in Tables
    /\ rows \in {<< >>, <<[c \in Columns(table) |-> 1]>>}
    /\ req = [p \in Requests |-> Idle]
    /\ counting = [i \in 1 .. MaxRows |-> 0]
    /\ begun = 0
    /\ blind = {} /\ disturbed = {}
    /\ meant = rows

Next ==
    \/ Create \/ BulkCreateTechMaterialSpeeds \/ Delete
    \/ UpdateStock \/ ToggleFeatured \/ ConsultarBlank \/ IncrementQuoteCount
    \/ GoesUncounted
    \/ \E p \in Requests :
        \/ CreateConfigBegins(p) \/ CreateConfig(p)
        \/ UpdateBegins(p) \/ Update(p)
        \/ RecalculateBegins(p) \/ RecalculateMaterialCost(p)
        \/ Fails(p)

Spec == Init /\ [][Next]_vars

-----------------------------------------------------------------------------
RowOf(t) == {u \in [Columns(t) -> Int] :
                "price_breaks" \in Columns(t) => u["price_breaks"] \in Values}

Request ==
    {Idle} \union [step : {"update", "recalculate"}, id : Ids, row : RowOf(table)]
           \union [step : {"create_config"}, id : {0}, row : RowOf(table)]

\* Every variable has its type.
TypeOK ==
    /\ table \in Tables
    /\ rows \in Seq(RowOf(table)) /\ Len(rows) <= MaxRows
    /\ meant \in Seq(RowOf(table)) /\ Len(meant) = Len(rows)
    /\ req \in [Requests -> Request]
    /\ counting \in [1 .. MaxRows -> Nat]
    /\ begun \in Nat
    /\ blind \subseteq Requests /\ disturbed \subseteq Ids

\* No edit is lost: a row is what the forms, the deletions, the adjustments of
\* the stock and the counted queries, each about its own columns, have made of
\* it, unless a request saved it whole over a change it had not read.
EditsStand == \A i \in Ids : i \in disturbed \/ rows[i] = meant[i]

\* A cost per mm2 is that of the sheet beside it, and a cost per minute that of
\* the rates beside it, unless a form set them apart or left out the overhead,
\* for which the database has a default: no overlap of saves mixes them.
CostsOfTheirInputs ==
    \A i \in Ids :
        /\ table \in {"tech_rates", "material_costs"}
        /\ rows[i]["loose"] = 0
        => rows[i][CostColumn(table)] = CostOf(table, rows[i])

\* The breaks of a blank make it no dearer for who buys more.
Sane(u) ==
    \A br \in BreakTables[u["price_breaks"]] :
        /\ br.unit_price <= u["base_price"]
        /\ \A other \in BreakTables[u["price_breaks"]] :
            br.qty <= other.qty => br.unit_price >= other.unit_price

\* What an order of qty may be charged: the base price, or a break it reaches.
Offered(u, qty) ==
    {u["base_price"]} \union
        {br.unit_price : br \in {b \in BreakTables[u["price_breaks"]] : qty >= b.qty}}

\* ConsultarBlank's answer charges the lowest of the base price and the breaks
\* that the order reaches, no more and no less, where the breaks fall; and it
\* always carries a notice when the stock is at or below the alert (an oversold
\* blank, whose stock is negative, is announced as scarce and not as sold out).
AnswerHonest ==
    table = "blanks" =>
        \A i \in Ids, qty \in 0 .. 5 :
            /\ rows[i]["stock_qty"] <= rows[i]["stock_alert"]
                => Notices(rows[i], qty) \intersect {"sin_stock", "stock_bajo"} # {}
            /\ Sane(rows[i]) =>
                \A price \in computePriceForQty(rows[i], qty) :
                    /\ price \in Offered(rows[i], qty)
                    /\ \A other \in Offered(rows[i], qty) : price <= other
=============================================================================
