--------------------------- MODULE OptionSchemas ---------------------------
(***************************************************************************)
(* The options the adapters offer a user interface.  A key is a path into  *)
(* the options object.  Values are strings, as the inputs of a form hold   *)
(* them: "" is an option that is not set, and a checkbox is "true" or      *)
(* "false".                                                                *)
(***************************************************************************)
EXTENDS Sequences

Unset  == ""
Always == [key |-> <<>>, equals |-> Unset]

\* Labels, placeholders and descriptions are left out.
Field(key, type, default) ==
  [key |-> key, type |-> type, default |-> default, uiOnly |-> FALSE, advanced |-> FALSE, showWhen |-> Always]

Advanced(field)            == [field EXCEPT !.advanced = TRUE]
When(field, key, equals)   == [field EXCEPT !.showWhen = [key |-> <<key>>, equals |-> equals]]
Check(key, default)        == Field(<<key>>, "boolean", default)
Text(key)                  == Field(<<key>>, "string", Unset)
Number(key)                == Field(<<key>>, "number", Unset)
Select(key, default)       == Field(<<key>>, "select", default)

\* "QR or pairing code" shapes the form and is no option of the adapter.
AuthMethod == [Field(<<"authMethod">>, "radio", "qr") EXCEPT !.uiOnly = TRUE]

BaileysSchema == <<
  AuthMethod,
  When(Text("phoneNumber"), "authMethod", "pairing"),
  Advanced(Number("passkeyTimeoutMs")),
  Advanced(When(Number("qrTimeout"), "authMethod", "qr")),
  Advanced(Field(<<"authDir">>, "string", ".baileys_auth")),
  Advanced(Text("deviceName")),
  Advanced(Text("browserName")),
  Check("chatStore", "true"),
  Advanced(Check("groupCache", "true")),
  Advanced(Number("messageCacheMax")),
  Advanced(When(Number("chatStoreMax"), "chatStore", "true")),
  Advanced(Check("syncFullHistory", "true")),
  Advanced(Check("markOnlineOnConnect", "true")),
  Check("rejectCalls", "false"),
  Advanced(Check("printAuthData", "true")),
  Advanced(Check("fetchLatestVersion", "true")),
  Advanced(Number("keepAliveIntervalMs")),
  Advanced(Number("connectTimeoutMs")),
  Advanced(Number("defaultQueryTimeoutMs")),
  Advanced(Select("logLevel", "error")) >>

WWebJsSchema == <<
  AuthMethod,
  Advanced(When(Number("qrMaxRetries"), "authMethod", "qr")),
  When(Field(<<"pairWithPhoneNumber", "phoneNumber">>, "string", Unset), "authMethod", "pairing"),
  When(Field(<<"pairWithPhoneNumber", "showNotification">>, "boolean", "true"), "authMethod", "pairing"),
  Advanced(Text("deviceName")),
  Advanced(Select("browserName", Unset)),
  Advanced(Check("printAuthData", "true")),
  Advanced(Number("authTimeoutMs")),
  Advanced(Check("takeoverOnConflict", "false")),
  Advanced(Text("userAgent")) >>
=============================================================================
