---------------------------- MODULE OptionForms ----------------------------
(***************************************************************************)
(* The dashboard's forms for a client's options: the one that creates a    *)
(* client and the one on its card that edits it, from what a user sees in  *)
(* them to what the adapter is built with.                                 *)
(*                                                                         *)
(* Options are an object in the order its keys were set, a sequence of     *)
(* [key, value]: JSON.stringify tells two orders apart.                    *)
(***************************************************************************)
EXTENDS OptionSchemas, SequencesExt

CONSTANTS
  Texts,     \* what a user leaves in an input; Unset is an empty one
  Touched,   \* the keys of the fields a user touches
  Raws,      \* what may be in the raw options box, or be set in code
  Shares     \* per id, the configurations its factory may be given in code

VARIABLES
  registered,  \* ADAPTERS: the ids of the registered factories, in order
  shared,      \* per id, the configuration of its factory
  client,      \* the client as it is stored, [adapter, options], or NoClient
  known,       \* configMap: the last configuration the page heard of
  form,        \* the form that creates: [adapter, values, raw]
  edit,        \* the form that edits: [adapter, current, values], or NoEdit
  shown,       \* history: per option, what the form that set it last showed
  tidy         \* history: the options were set by one form, from fields of one tier

vars == <<registered, shared, client, known, form, edit, shown, tidy>>

NoClient == [adapter |-> "none", options |-> <<>>]
NoEdit   == [adapter |-> "none", current |-> <<>>, values |-> <<>>]
-----------------------------------------------------------------------------
Ids == {"baileys", "whatsapp-web.js"}
Schema == [id \in Ids |-> IF id = "baileys" THEN BaileysSchema ELSE WWebJsSchema]

\* The fields of a schema by their keys, and the keys that are options.
Fields == [id \in Ids |-> [key \in {f.key : f \in Range(Schema[id])} |->
                            CHOOSE f \in Range(Schema[id]) : f.key = key]]
Keys(id)   == DOMAIN Fields[id]
OptionKeys == [id \in Ids |-> {key \in Keys(id) : ~Fields[id][key].uiOnly}]

SetIn(options) == {e.key : e \in Range(options)}
Tops(options)  == {Head(key) : key \in SetIn(options)}

\* readPath
ReadPath(options, key) ==
  IF key \in SetIn(options) THEN (CHOOSE e \in Range(options) : e.key = key).value ELSE Unset

OrDefault(id, key, value) == IF value = Unset THEN Fields[id][key].default ELSE value

\* What the adapter runs with: the factory's configuration, the client's options
\* spread over it, and the adapter's own default under both.
Effective(c, key) ==
  OrDefault(c.adapter, key,
            ReadPath(IF Head(key) \in Tops(c.options) THEN c.options ELSE shared[c.adapter], key))

\* What an input adds to the options: nothing if it is empty, or a box as it comes.
Adds(values, f) == IF f.type = "boolean" THEN values[f.key] # f.default ELSE values[f.key] # Unset

Taken(values, fields) == [i \in DOMAIN fields |-> [key |-> fields[i].key, value |-> values[fields[i].key]]]
-----------------------------------------------------------------------------
(***************************************************************************)
(* The form that creates a client                                          *)
(***************************************************************************)

\* renderField: how an input starts.
Blank(f) == IF f.type \in {"radio", "boolean"} THEN f.default ELSE Unset

BlankForm(id) == [adapter |-> id, values |-> [key \in Keys(id) |-> Blank(Fields[id][key])], raw |-> <<>>]

FieldVisible(values, f) == f.showWhen # Always => values[f.showWhen.key] = f.showWhen.equals

\* Mutant of Sends: a hidden field is sent.
SendsHidden(values, f) == ~f.uiOnly /\ Adds(values, f)

Sends(values, f) == ~f.uiOnly /\ FieldVisible(values, f) /\ Adds(values, f)

\* collectAdapterOptions: the fields as they are placed, the advanced ones folded away.
Collected(id, values) ==
  LET primary  == SelectSeq(Schema[id], LAMBDA f : ~f.advanced /\ Sends(values, f))
      advanced == SelectSeq(Schema[id], LAMBDA f : f.advanced /\ Sends(values, f))
  IN  Taken(values, primary \o advanced)

\* { ...options, ...extra }: what is in both is replaced where it is.
Merged(options, extra) ==
  LET at(i) == SelectSeq(extra, LAMBDA e : Head(e.key) = Head(options[i].key))
      first(i) == \A j \in 1..(i - 1) : Head(options[j].key) # Head(options[i].key)
      kept(i) == IF at(i) = <<>> THEN <<options[i]>> ELSE IF first(i) THEN at(i) ELSE <<>>
  IN  FlattenSeq([i \in DOMAIN options |-> kept(i)])
        \o SelectSeq(extra, LAMBDA e : Head(e.key) \notin Tops(options))

\* What a user who creates the client goes by.
Promised(f) ==
  [key \in OptionKeys[f.adapter] |->
     OrDefault(f.adapter, key,
       CASE Head(key) \in Tops(f.raw) -> ReadPath(f.raw, key)
         [] Head(key) \notin Tops(f.raw) /\ FieldVisible(f.values, Fields[f.adapter][key]) -> f.values[key]
         [] OTHER -> Unset)]

OneTier(id, options) ==
  \E tier \in BOOLEAN : \A key \in SetIn(options) : Fields[id][key].advanced = tier

Init ==
  /\ registered \in {<<"baileys">>, <<"whatsapp-web.js">>, <<"baileys", "whatsapp-web.js">>}
  /\ shared \in Shares
  /\ client = NoClient /\ known = NoClient /\ edit = NoEdit
  /\ form = BlankForm(registered[1])
  /\ shown = <<>> /\ tidy = TRUE

\* What the controls of a field can hold.
Holds(f) == CASE f.type = "boolean" -> {"true", "false"}
              [] f.type = "radio"   -> {"qr", "pairing"}
              [] OTHER              -> Texts

Fill(key, value) ==
  /\ FieldVisible(form.values, Fields[form.adapter][key])
  /\ form' = [form EXCEPT !.values[key] = value]
  /\ UNCHANGED <<registered, shared, client, known, edit, shown, tidy>>

FillRaw(raw) ==
  /\ form' = [form EXCEPT !.raw = raw]
  /\ UNCHANGED <<registered, shared, client, known, edit, shown, tidy>>

\* renderAdapterFields: every field starts anew, the raw options stay.
PickAdapter(id) ==
  /\ Len(registered) > 1 /\ id \in Range(registered)
  /\ form' = [BlankForm(id) EXCEPT !.raw = form.raw]
  /\ UNCHANGED <<registered, shared, client, known, edit, shown, tidy>>

\* The adapter that was picked stays picked.
Cancel ==
  /\ form' = BlankForm(form.adapter)
  /\ UNCHANGED <<registered, shared, client, known, edit, shown, tidy>>

\* createClient skips a name that is taken, and the form is told it worked.
Create ==
  LET options == Merged(Collected(form.adapter, form.values), form.raw)
  IN  /\ form' = BlankForm(form.adapter)
      /\ IF client # NoClient
         THEN UNCHANGED <<client, shown, tidy>>
         ELSE /\ client' = [adapter |-> form.adapter, options |-> options]
              /\ shown' = Promised(form)
              /\ tidy' = (form.raw = <<>> /\ OneTier(form.adapter, options))
      /\ UNCHANGED <<registered, shared, known, edit>>
-----------------------------------------------------------------------------
(***************************************************************************)
(* The form that edits it                                                  *)
(***************************************************************************)

\* Mutant of Prefilled: a box that is not set is unchecked.
PrefilledUnset(options, f) ==
  IF f.type = "boolean" /\ ReadPath(options, f.key) = Unset THEN "false" ELSE ReadPath(options, f.key)

\* openEditForm: what an input starts with.
Prefilled(options, f) ==
  IF f.type = "boolean" /\ ReadPath(options, f.key) = Unset THEN f.default ELSE ReadPath(options, f.key)

Prefill(id, options) == [key \in Keys(id) |-> Prefilled(options, Fields[id][key])]

\* A card may be there before its configuration: the form is then that of the
\* first adapter, with nothing set.
OpenEdit ==
  /\ client # NoClient /\ edit = NoEdit
  /\ LET id == IF known = NoClient THEN registered[1] ELSE known.adapter
     IN  edit' = [adapter |-> id, current |-> known.options, values |-> Prefill(id, known.options)]
  /\ UNCHANGED <<registered, shared, client, known, form, shown, tidy>>

\* Every field is there, in an input if it is neither a box nor a select.
EditFill(key, value) ==
  /\ edit # NoEdit /\ key \in Keys(edit.adapter)
  /\ value \in IF Fields[edit.adapter][key].type = "boolean" THEN {"true", "false"} ELSE Texts
  /\ edit' = [edit EXCEPT !.values[key] = value]
  /\ UNCHANGED <<registered, shared, client, known, form, shown, tidy>>

EditCancel ==
  /\ edit # NoEdit /\ edit' = NoEdit
  /\ UNCHANGED <<registered, shared, client, known, form, shown, tidy>>

\* Mutant of Edited: every box that is checked is sent.
EditedChecked ==
  Taken(edit.values, SelectSeq(Schema[edit.adapter], LAMBDA f : edit.values[f.key] \notin {Unset, "false"}))

\* The options Save collects, in the order of the schema.
Edited == Taken(edit.values, SelectSeq(Schema[edit.adapter], LAMBDA f : Adds(edit.values, f)))

\* Save, confirmed where it asks, and updateClient: options that differ in JSON from
\* those the form was opened with replace the client's, which reconnects.
Save ==
  /\ edit # NoEdit /\ client # NoClient
  /\ edit' = NoEdit
  /\ IF Edited = edit.current
     THEN UNCHANGED <<client, shown, tidy>>
     ELSE /\ client' = [client EXCEPT !.options = Edited]
          /\ tidy' = (edit.adapter = client.adapter)
          /\ shown' = [key \in OptionKeys[client.adapter] |->
                         IF edit.adapter = client.adapter
                         THEN OrDefault(client.adapter, key, edit.values[key])
                         ELSE Effective(client', key)]
  /\ UNCHANGED <<registered, shared, known, form>>

\* The client is set from another page or from code.
Elsewhere(options) ==
  /\ client # NoClient
  /\ client' = [client EXCEPT !.options = options]
  /\ shown' = [key \in OptionKeys[client.adapter] |-> Effective(client', key)]
  /\ tidy' = FALSE
  /\ UNCHANGED <<registered, shared, known, form, edit>>

Removed ==
  /\ client # NoClient /\ client' = NoClient
  /\ shown' = <<>> /\ tidy' = TRUE
  /\ UNCHANGED <<registered, shared, known, form, edit>>

\* render: a card that goes takes its form along, and its configuration stays.
Hear ==
  /\ IF client = NoClient
     THEN edit' = NoEdit /\ UNCHANGED known
     ELSE known' = client /\ UNCHANGED edit
  /\ UNCHANGED <<registered, shared, client, form, shown, tidy>>

Next ==
  \/ \E key \in Keys(form.adapter) \cap Touched : \E value \in Holds(Fields[form.adapter][key]) : Fill(key, value)
  \/ \E raw \in Raws : FillRaw(raw) \/ Elsewhere(raw)
  \/ \E id \in Ids : PickAdapter(id)
  \/ Cancel \/ Create \/ OpenEdit \/ EditCancel \/ Save \/ Removed \/ Hear
  \/ \E key \in Touched, value \in Texts \cup {"true", "false"} : EditFill(key, value)

Spec == Init /\ [][Next]_vars
-----------------------------------------------------------------------------
TypeOK ==
  /\ form.adapter \in Range(registered) /\ DOMAIN form.values = Keys(form.adapter)
  /\ client # NoClient =>
       /\ client.adapter \in Range(registered)
       /\ DOMAIN shown = OptionKeys[client.adapter]
  /\ edit # NoEdit => edit.adapter \in Range(registered) /\ DOMAIN edit.values = Keys(edit.adapter)
  /\ tidy \in BOOLEAN

InCode(key) == Head(key) \in Tops(shared[client.adapter]) /\ Head(key) \notin Tops(client.options)

\* The adapter runs with what the form showed that set the options last: a field left
\* alone or hidden stands for the default the schema declares. Not so an option the
\* factory was given in code, which a form that leaves it out does not override.
AsShown ==
  client # NoClient =>
    \A key \in OptionKeys[client.adapter] : Effective(client, key) = shown[key] \/ InCode(key)

InDate == edit # NoEdit /\ edit.adapter = client.adapter /\ edit.current = client.options
Saves  == edit # NoEdit /\ edit' = NoEdit /\ client # NoClient /\ client' # NoClient

\* Saving an edit leaves the options alone that were not edited, if the form was opened
\* with the client's own: one that was opened earlier, or before the page knew them,
\* writes the others over. A default spelled out over the factory's configuration is
\* lost as well, the form taking it for nothing.
EditKeepsTheRest ==
  (Saves /\ InDate) =>
    \A key \in OptionKeys[client.adapter] :
      edit.values[key] = Prefilled(edit.current, Fields[edit.adapter][key]) =>
        \/ Effective(client', key) = Effective(client, key)
        \/ /\ Head(key) \in Tops(shared[client.adapter])
           /\ ReadPath(client.options, key) = Fields[client.adapter][key].default

\* A save that edits no option, only the prefix, leaves the client connected, if its
\* options were set by one form from fields of one tier: from both, or with raw options,
\* they are in another order than the form that edits them has, and pass for changed.
PrefixNeedsNoReconnect ==
  (Saves /\ InDate /\ tidy /\ edit.values = Prefill(edit.adapter, edit.current))
    => client' = client

\* What a form shows, and what is edited in it, is what the client runs with.
FormsAreFaithful == [][TypeOK' /\ AsShown' /\ EditKeepsTheRest /\ PrefixNeedsNoReconnect]_vars
=============================================================================
