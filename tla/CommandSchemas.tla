---- MODULE CommandSchemas ----
(***************************************************************************)
(* What the extension's command router accepts: the validators of          *)
(* src/chrome-extension/src/command-router.js, one definition for each,    *)
(* and the table that gives every command its validator.                   *)
(*                                                                         *)
(* A validator is a record: the rule of every property it allows, the      *)
(* shape of target it takes, and the name of the condition that relates    *)
(* several properties.  Parameters are a function from the properties that *)
(* are present to their values.  A value carries what the rules look at: a *)
(* number its value (in hundredths where fractions are allowed), a string  *)
(* its lengths and whether it is blank and has the form its pattern or URL *)
(* parser asks for, an array its length and whether its members are        *)
(* distinct and valid.  Which of the error codes a refusal carries is left *)
(* out.                                                                    *)
(***************************************************************************)
EXTENDS Integers, FiniteSets, TLC

\* Stands for Number.MAX_SAFE_INTEGER, and for the absence of a limit.
Huge == 2000000000

----------------------------------------------------------------------------
(* Values.                                                                 *)

NumberOf(n) == [type |-> "number", n |-> n]
BooleanOf(b) == [type |-> "boolean", b |-> b]
Word(w) == [type |-> "word", w |-> w]
ArrayOf(n, distinct, valid) ==
    [type |-> "array", len |-> n, distinct |-> distinct, valid |-> valid]
ObjectOf(p) == [type |-> "object", of |-> p]
LocatorOf(valid) == [type |-> "locator", valid |-> valid]

\* A string of n code points of one width: "ascii" (one UTF-16 unit and one
\* byte each), "bmp" (one unit, three bytes) or "astral" (two units, four).
StringOf(n, width) ==
    [type |-> "string", runes |-> n, formed |-> TRUE, blank |-> n = 0,
     length |-> IF width = "astral" THEN 2 * n ELSE n,
     bytes |-> CASE width = "ascii" -> n [] width = "bmp" -> 3 * n
                 [] width = "astral" -> 4 * n]

----------------------------------------------------------------------------
(* Rules, named after the helpers of the router.                           *)

IntegerRange(lo, hi) == [type |-> "number", lo |-> lo, hi |-> hi, required |-> FALSE]
NumberRange(lo, hi) == IntegerRange(lo, hi)
Identifier == IntegerRange(0, Huge)
AnyInteger == IntegerRange(-Huge, Huge)
Enum(words) == [type |-> "word", words |-> words, required |-> FALSE]
Boolean == [type |-> "boolean", only |-> BOOLEAN, required |-> FALSE]
Confirmation == [type |-> "boolean", only |-> {TRUE}, required |-> TRUE]
Locator == [type |-> "locator", required |-> FALSE]
Array(lo, hi, distinct) ==
    [type |-> "array", lo |-> lo, hi |-> hi, distinct |-> distinct, required |-> FALSE]
Nested(fields) == [type |-> "object", fields |-> fields, atLeast |-> 0, required |-> FALSE]
NonEmpty(r) == [r EXCEPT !.atLeast = 1]
FreeObject == [type |-> "object", fields |-> <<>>, atLeast |-> -1, required |-> FALSE]

\* A string of lo to hi of a unit: "length" is JavaScript's, "runes" counts code
\* points, "bytes" UTF-8.  A pattern, trimming or URL check needs its form.
String(lo, hi, unit, form) ==
    [type |-> "string", lo |-> lo, hi |-> hi, unit |-> unit, form |-> form, required |-> FALSE]
BoundedString(hi) == String(1, hi, "length", FALSE)
BoundedOrEmpty(hi) == String(0, hi, "length", FALSE)
NonEmptyString == BoundedString(Huge)
Formed(lo, hi) == String(lo, hi, "length", TRUE)
StorageString(hi) == String(0, hi, "bytes", FALSE)

\* A decimal string, by the number it stands for.
Digits(lo, hi) == [type |-> "number", lo |-> lo, hi |-> hi, required |-> FALSE]

Required(r) == [r EXCEPT !.required = TRUE]

Measure(s, unit) == CASE unit = "length" -> s.length [] unit = "runes" -> s.runes
                      [] unit = "bytes" -> s.bytes

Within(v, r) == v >= r.lo /\ v <= r.hi

\* A value that is not an object meets a rule.
Scalar(v, r) ==
    /\ v.type = r.type
    /\ CASE v.type = "number" -> Within(v.n, r)
         [] v.type = "string" -> /\ Within(Measure(v, r.unit), r)
                                 /\ r.form => v.formed
                                 /\ r.lo > 0 => ~v.blank
         [] v.type = "word" -> v.w \in r.words
         [] v.type = "boolean" -> v.b \in r.only
         [] v.type = "locator" -> v.valid
         [] v.type = "array" -> Within(v.len, r) /\ v.valid /\ (r.distinct => v.distinct)

\* assertAllowedProperties, and the rule of every property.
Conforms(p, fields, Meets(_, _)) ==
    /\ DOMAIN p \subseteq DOMAIN fields
    /\ \A f \in DOMAIN fields :
        IF f \in DOMAIN p THEN Meets(p[f], fields[f]) ELSE ~fields[f].required

Meets(v, r) ==
    IF r.type = "object"
    THEN /\ v.type = "object"
         /\ r.atLeast < 0 \/ /\ Conforms(v.of, r.fields, Scalar)
                             /\ Cardinality(DOMAIN v.of) >= r.atLeast
    ELSE Scalar(v, r)

----------------------------------------------------------------------------
(* Targets: the fields a target has, among windowId, tabId, rootFrame,     *)
(* childFrame and documentId; {} when there is none.                       *)

\* validateTarget of protocol.js.
ValidateTarget(t) ==
    t \cap {"rootFrame", "childFrame", "documentId"} # {} => "tabId" \in t

TargetOK(shape, t) ==
    CASE shape = "any" -> TRUE
      [] shape = "window" -> t = {"windowId"}
      [] shape = "tab" ->
            t = {} \/ ("tabId" \in t /\ t \cap {"rootFrame", "childFrame", "documentId"} = {})
      [] shape = "root" -> t = {} \/ ("tabId" \in t /\ t \cap {"windowId", "childFrame"} = {})
      [] shape = "wholeTab" ->
            t = {} \/ ("tabId" \in t /\ t \cap {"windowId", "childFrame", "documentId"} = {})
      [] shape = "notWindow" -> "windowId" \notin t
      [] shape = "none" -> t = {}

Validator(fields, target, together) ==
    [fields |-> fields, target |-> target, together |-> together]
Simple(fields, target) == Validator(fields, target, "nothing")

NoFields == [f \in {} |-> FALSE]

----------------------------------------------------------------------------
(* Windows, tabs, groups and sessions.                                     *)

ValidateEmpty == Simple(NoFields, "any")
ValidateWindowTarget == Simple(NoFields, "window")

WindowStates == {"normal", "minimized", "maximized", "fullscreen"}
WindowBounds == [left |-> AnyInteger, top |-> AnyInteger,
                 width |-> IntegerRange(1, Huge), height |-> IntegerRange(1, Huge)]

ValidateWindowCreate ==
    Validator([urls |-> Array(1, 50, FALSE), type |-> Enum({"normal", "popup"}),
               state |-> Enum(WindowStates), focused |-> Boolean, incognito |-> Boolean]
              @@ WindowBounds, "any", "stateAndBounds")
ValidateWindowUpdate ==
    Validator([state |-> Enum(WindowStates), focused |-> Boolean, drawAttention |-> Boolean]
              @@ WindowBounds, "window", "someUpdate")

ValidateTabEmpty == Simple(NoFields, "tab")
ValidateTabCreate ==
    Simple([windowId |-> Identifier, url |-> NonEmptyString, index |-> Identifier,
            active |-> Boolean, pinned |-> Boolean], "any")
ValidateTabNavigate == Simple([url |-> Required(NonEmptyString)], "tab")
ValidateTabReload == Simple([bypassCache |-> Boolean], "tab")
ValidateTabMove ==
    Simple([windowId |-> Identifier, index |-> Required(IntegerRange(-1, Huge))], "tab")
ValidateTabPin == Simple([pinned |-> Required(Boolean)], "tab")
ValidateTabMute == Simple([muted |-> Required(Boolean)], "tab")
ValidateTabSetZoom == Simple([factor |-> Required(NumberRange(25, 500))], "tab")

TabIDs == Required(Array(1, 100, TRUE))
ValidateTabGroup ==
    Validator([tabIds |-> TabIDs, groupId |-> Identifier, windowId |-> Identifier],
              "any", "groupOrWindow")
ValidateTabUngroup == Simple([tabIds |-> TabIDs], "any")
ValidateTabGroupUpdate ==
    Validator([groupId |-> Required(Identifier), title |-> BoundedOrEmpty(Huge),
               color |-> Enum({"grey", "blue", "red", "yellow", "green", "pink",
                               "purple", "cyan", "orange"}),
               collapsed |-> Boolean], "any", "someGroupUpdate")
ValidateRecentlyClosed == Simple([maxResults |-> IntegerRange(1, 25)], "any")
ValidateSessionRestore == Simple([sessionId |-> NonEmptyString], "any")

----------------------------------------------------------------------------
(* Page content and interactions.                                          *)

Selectors == Array(0, 50, FALSE)
PageCursor == Digits(0, 1000000)

ValidateSelector == Simple([selector |-> Required(NonEmptyString)], "any")
ValidateGetHTML ==
    Simple([maxChars |-> IntegerRange(1, 1000000), maxDepth |-> IntegerRange(0, 200),
            includeSelectors |-> Selectors, excludeSelectors |-> Selectors], "any")
ValidateGetText ==
    Simple([maxChars |-> IntegerRange(1, 1000000), cursor |-> PageCursor,
            includeSelectors |-> Selectors, excludeSelectors |-> Selectors], "any")
ValidateQuery ==
    Simple([locator |-> Required(Locator), cursor |-> PageCursor,
            limit |-> IntegerRange(1, 100)], "any")
ValidateGetElement ==
    Simple([locator |-> Required(Locator), maxHTMLChars |-> IntegerRange(1, 100000)], "any")
ValidateSnapshot ==
    Simple([interactiveOnly |-> Boolean, maxDepth |-> IntegerRange(0, 50),
            maxNodes |-> IntegerRange(1, 5000), includeShadowDOM |-> Boolean], "any")

ElementAddress == [selector |-> NonEmptyString, coordinates |-> Locator,
                   locator |-> Locator, index |-> Identifier]
InteractionOptions == [backend |-> Enum({"auto", "content", "cdp"}),
                       waitForNavigation |-> Boolean]
ContentOnly == [backend |-> Enum({"auto", "content"}), waitForNavigation |-> Boolean]
OnElement(fields, options, together) ==
    Validator(fields @@ ElementAddress @@ options, "any", together)

ValidateAction ==
    OnElement([button |-> Enum({"left", "middle", "right"}), clickCount |-> IntegerRange(1, 2)],
              InteractionOptions, "oneAddress")
ValidateFill ==
    OnElement([value |-> Required(BoundedOrEmpty(100000)), clear |-> Boolean],
              InteractionOptions, "oneAddress")
ValidateSimpleAction == OnElement(NoFields, InteractionOptions, "oneAddress")
ValidateContentOnlySimpleAction == OnElement(NoFields, ContentOnly, "oneAddress")
ValidateType ==
    OnElement([text |-> Required(BoundedString(100000)), delayMs |-> IntegerRange(0, 1000)],
              InteractionOptions, "delayedText")
ValidatePress ==
    OnElement([key |-> Required(BoundedString(100)), modifiers |-> Array(0, 4, TRUE)],
              InteractionOptions, "oneAddress")
ValidateSelect ==
    OnElement([values |-> Required(Array(1, 100, FALSE))], ContentOnly, "oneAddress")
ValidateSetChecked == OnElement([checked |-> Boolean], InteractionOptions, "oneAddress")
ValidateScroll ==
    OnElement([deltaX |-> NumberRange(-1000000, 1000000), deltaY |-> NumberRange(-1000000, 1000000),
               behavior |-> Enum({"auto", "smooth"})], InteractionOptions, "scroll")
ValidateDrag ==
    Validator([source |-> Required(Locator), targetLocator |-> Locator,
               targetCoordinates |-> Locator] @@ ContentOnly, "any", "oneDropTarget")
ValidateDispatch ==
    OnElement([eventType |-> Required(Formed(1, 100)), detail |-> FreeObject],
              ContentOnly, "oneAddress")

\* validateWait: the properties each condition allows.
WaitCommon == [condition |-> Required(Enum({"delay", "loadState", "url", "element", "text",
                   "value", "count", "navigation", "networkIdle", "attribute"})),
               mode |-> Enum({"auto", "polling", "event"}),
               pollIntervalMs |-> IntegerRange(25, 1000)]
WaitText == [expected |-> Required(BoundedOrEmpty(100000)),
             matchOperator |-> Enum({"equals", "contains"}), caseSensitive |-> Boolean]
WaitFields(condition) ==
    CASE condition = "delay" -> [delayMs |-> Required(IntegerRange(0, 120000))]
      [] condition = "loadState" -> [readyState |-> Required(Enum({"interactive", "complete"}))]
      [] condition = "url" -> [url |-> BoundedString(4096), urlPattern |-> BoundedString(4096)]
      [] condition = "element" ->
            [locator |-> Required(Locator),
             elementState |-> Required(Enum({"attached", "detached", "visible", "hidden",
                                             "enabled", "disabled"}))]
      [] condition = "text" -> [locator |-> Locator] @@ WaitText
      [] condition = "value" -> [locator |-> Required(Locator)] @@ WaitText
      [] condition = "count" ->
            [locator |-> Required(Locator), count |-> Required(IntegerRange(0, 1000000)),
             countOperator |-> Enum({"equals", "atLeast", "atMost"})]
      [] condition = "networkIdle" -> [idleMs |-> Required(IntegerRange(100, 30000))]
      [] condition = "attribute" ->
            [locator |-> Required(Locator), attribute |-> Required(Formed(1, 200)),
             attributeState |-> Required(Enum({"present", "absent", "equals", "contains"})),
             expected |-> BoundedOrEmpty(100000), caseSensitive |-> Boolean]
      [] OTHER -> NoFields
ValidateWait(condition) ==
    Validator(WaitCommon @@ WaitFields(condition), "any",
              CASE condition = "url" -> "oneURL"
                [] condition = "attribute" -> "expectedCompared"
                [] OTHER -> "nothing")

ValidateScreenshot ==
    Validator([capture |-> Enum({"viewport", "fullPage", "element"}), locator |-> Locator,
               format |-> Enum({"png", "jpeg"}), quality |-> IntegerRange(0, 100),
               maxWidth |-> IntegerRange(1, 16384), maxHeight |-> IntegerRange(1, 16384),
               maxBytes |-> IntegerRange(1024, 2000000)], "root", "screenshot")
Margin == NumberRange(0, 1000)
ValidatePrintToPDF ==
    Validator([landscape |-> Boolean, printBackground |-> Boolean,
               preferCSSPageSize |-> Boolean, scale |-> NumberRange(10, 200),
               paperWidth |-> NumberRange(100, 20000), paperHeight |-> NumberRange(100, 20000),
               marginTop |-> Margin, marginBottom |-> Margin, marginLeft |-> Margin,
               marginRight |-> Margin, pageRanges |-> Formed(0, 256),
               maxBytes |-> IntegerRange(1024, 2000000)], "tab", "margins")

----------------------------------------------------------------------------
(* Debugger commands.                                                      *)

Bytes(hi) == Required(IntegerRange(65536, hi))

ValidateAccessibilityTree ==
    Validator([mode |-> Required(Enum({"full", "partial"})), backendNodeId |-> IntegerRange(1, Huge),
               fetchRelatives |-> Boolean, roles |-> Required(Array(0, 50, TRUE)),
               nameContains |-> Required(BoundedOrEmpty(500)),
               includeIgnored |-> Required(Boolean), includeLocators |-> Required(Boolean),
               includeElementReferences |-> Required(Boolean), maxDepth |-> IntegerRange(0, 50),
               maxNodes |-> Required(IntegerRange(1, 5000)),
               maxProperties |-> Required(IntegerRange(0, 50)),
               maxValueChars |-> Required(IntegerRange(1, 2000)),
               maxElementReferences |-> Required(IntegerRange(0, 100)),
               maxBytes |-> Bytes(1500000)], "root", "accessibility")

EmulationViewport ==
    [width |-> Required(IntegerRange(1, 10000)), height |-> Required(IntegerRange(1, 10000)),
     deviceScaleFactor |-> Required(NumberRange(10, 1000)), mobile |-> Required(Boolean),
     orientation |-> Enum({"portraitPrimary", "portraitSecondary", "landscapePrimary",
                           "landscapeSecondary"})]
EmulationTouch == [enabled |-> Required(Boolean), maxTouchPoints |-> IntegerRange(1, 10)]
EmulationNetwork ==
    [offline |-> Boolean, latencyMs |-> NumberRange(0, 300000),
     downloadKbps |-> NumberRange(0, 10000000), uploadKbps |-> NumberRange(0, 10000000),
     connectionType |-> Enum({"none", "cellular2g", "cellular3g", "cellular4g", "bluetooth",
                              "ethernet", "wifi", "wimax", "other"})]
EmulationUserAgent == [value |-> Required(Formed(1, 1000)), acceptLanguage |-> Formed(0, 200),
                       platform |-> Formed(0, 100)]
EmulationGeolocation ==
    [latitude |-> Required(NumberRange(-9000, 9000)),
     longitude |-> Required(NumberRange(-18000, 18000)),
     accuracy |-> Required(NumberRange(0, 100000000)), altitude |-> NumberRange(-1000000, 10000000),
     heading |-> NumberRange(0, 36000), speed |-> NumberRange(0, 100000000)]
EmulationMedia ==
    [type |-> Enum({"screen", "print"}), colorScheme |-> Enum({"light", "dark", "no-preference"}),
     reducedMotion |-> Enum({"reduce", "no-preference"}), forcedColors |-> Enum({"active", "none"}),
     contrast |-> Enum({"more", "less", "custom", "no-preference"})]
ValidateEmulationSet ==
    Validator([viewport |-> Nested(EmulationViewport), touch |-> Nested(EmulationTouch),
               network |-> NonEmpty(Nested(EmulationNetwork)),
               userAgent |-> Nested(EmulationUserAgent), locale |-> Formed(2, 100),
               timezoneId |-> Formed(1, 100), geolocation |-> Nested(EmulationGeolocation),
               media |-> NonEmpty(Nested(EmulationMedia))], "root", "emulation")
ValidateEmulationEmpty == Simple(NoFields, "root")
ValidateEmulationReset == Simple(NoFields, "wholeTab")

ValidateEvaluation ==
    Simple([expression |-> Required(BoundedString(32768)), awaitPromise |-> Required(Boolean),
            maxDepth |-> Required(IntegerRange(0, 10)), maxNodes |-> Required(IntegerRange(1, 5000)),
            maxStringChars |-> Required(IntegerRange(1, 100000)), maxBytes |-> Bytes(1000000)],
           "root")

\* validateRawCDP: the parameters each allowed method takes.
RawNode == [backendNodeId |-> Required(IntegerRange(1, Huge))]
RawCDPParams(method) ==
    CASE method = "Accessibility.getFullAXTree" -> [depth |-> IntegerRange(0, 50)]
      [] method = "Accessibility.getPartialAXTree" -> RawNode @@ [fetchRelatives |-> Boolean]
      [] method = "Accessibility.queryAXTree" ->
            RawNode @@ [accessibleName |-> String(0, 500, "runes", FALSE),
                        role |-> String(0, 100, "runes", FALSE)]
      [] method = "DOM.describeNode" -> RawNode @@ [depth |-> IntegerRange(0, 10)]
      [] method = "DOM.getBoxModel" -> RawNode
      [] OTHER -> NoFields
RAW_CDP_METHODS == {"Accessibility.getFullAXTree", "Accessibility.getPartialAXTree",
    "Accessibility.queryAXTree", "DOM.describeNode", "DOM.getBoxModel",
    "Page.getLayoutMetrics", "Performance.getMetrics"}
ValidateRawCDP(method) ==
    Simple([method |-> Required(Enum(RAW_CDP_METHODS)),
            params |-> Required(Nested(RawCDPParams(method))),
            maxDepth |-> Required(IntegerRange(1, 20)), maxNodes |-> Required(IntegerRange(2, 5000)),
            maxStringChars |-> Required(IntegerRange(1, 10000)), maxBytes |-> Bytes(1000000)],
           "root")

ValidatePerformanceMetrics == Simple(NoFields, "root")
ValidatePerformanceCapture ==
    Simple([kind |-> Required(Enum({"trace", "coverage", "cpuProfile", "audits"})),
            durationMs |-> Required(IntegerRange(100, 10000)), maxBytes |-> Bytes(2000000)], "root")

ValidateNetworkStart == Simple([maxEntries |-> Required(IntegerRange(1, 5000))], "root")
ValidateNetworkEmpty == Simple(NoFields, "root")
ValidateNetworkRead ==
    Validator([cursor |-> Digits(1, Huge), limit |-> Required(IntegerRange(1, 200)),
               resourceTypes |-> Array(0, 18, TRUE), failedOnly |-> Boolean,
               statusMin |-> IntegerRange(100, 599), statusMax |-> IntegerRange(100, 599),
               since |-> Formed(0, Huge), maxBytes |-> Bytes(1000000)], "root", "statusBounds")

\* Fault: a limit one lower than the tool's.
BodyLimitLowered ==
    Simple([entryId |-> Required(Digits(1, Huge)), direction |-> Enum({"request", "response"}),
            maxBytes |-> Required(IntegerRange(1024, 999999))], "root")

ValidateNetworkBody ==
    Simple([entryId |-> Required(Digits(1, Huge)), direction |-> Enum({"request", "response"}),
            maxBytes |-> Required(IntegerRange(1024, 1000000))], "root")
ValidateNetworkHAR == Simple([maxBytes |-> Bytes(2000000)], "root")

ValidateConsoleStart ==
    Validator([bufferSize |-> IntegerRange(1, 5000), captureConsole |-> Boolean,
               captureErrors |-> Boolean], "notWindow", "someCapture")
ValidateConsoleEmpty == Simple(NoFields, "notWindow")
ValidateConsoleRead ==
    Simple([levels |-> Array(0, 5, TRUE), kinds |-> Array(0, 4, TRUE), cursor |-> Digits(0, Huge),
            limit |-> IntegerRange(1, 200), since |-> Formed(0, 100)], "notWindow")

----------------------------------------------------------------------------
(* Cookies, storage, downloads and personal data.                          *)

CookieURL == Formed(1, 8192)
CookieName == Formed(1, 256)
StoreID == Formed(0, 256)
PartitionKey == Nested([topLevelSite |-> Required(CookieURL), hasCrossSiteAncestor |-> Boolean])
Limit == Required(IntegerRange(1, 200))

ValidateCookieList ==
    Simple([url |-> Required(CookieURL), domain |-> Formed(0, 253), name |-> CookieName,
            path |-> Formed(1, 2048), secure |-> Boolean, session |-> Boolean,
            storeId |-> StoreID, partitionKey |-> PartitionKey, cursor |-> Digits(1, Huge),
            limit |-> Limit], "root")
ValidateCookieIdentity ==
    Simple([url |-> Required(CookieURL), name |-> Required(CookieName), storeId |-> StoreID,
            partitionKey |-> PartitionKey], "root")
ValidateCookieSet ==
    Validator([url |-> Required(CookieURL), name |-> Required(CookieName),
               value |-> Required(String(0, 4096, "bytes", TRUE)), domain |-> Formed(0, 253),
               path |-> Formed(1, 2048), secure |-> Boolean, httpOnly |-> Boolean,
               sameSite |-> Enum({"no_restriction", "lax", "strict", "unspecified"}),
               expirationDate |-> NumberRange(1, Huge), storeId |-> StoreID,
               partitionKey |-> PartitionKey], "root", "sameSite")

StorageOrigin == Required(Formed(1, 8192))
StorageType == Enum({"localStorage", "sessionStorage"})
ValidateStorageList ==
    Simple([origin |-> StorageOrigin, storageType |-> StorageType, cursor |-> Digits(1, Huge),
            limit |-> Limit], "root")
ValidateStorageItem ==
    Simple([origin |-> StorageOrigin, storageType |-> StorageType,
            key |-> Required(StorageString(1024))], "root")
ValidateStorageSet ==
    Simple([origin |-> StorageOrigin, storageType |-> StorageType,
            key |-> Required(StorageString(1024)), value |-> Required(StorageString(65536))], "root")
ValidateStorageMetadata ==
    Simple([origin |-> StorageOrigin, cursor |-> Digits(1, Huge), limit |-> Limit], "root")
ValidateStorageClear ==
    Simple([origin |-> StorageOrigin, types |-> Required(Array(1, 4, TRUE)),
            confirm |-> Confirmation], "root")

PageOffset == Digits(1, 9999)
DownloadID == Required(Identifier)
Incognito == Required(Boolean)
ValidateDownloadList ==
    Simple([cursor |-> PageOffset, limit |-> Limit,
            state |-> Enum({"in_progress", "interrupted", "complete"}), paused |-> Boolean,
            allowIncognito |-> Incognito], "none")
ValidateDownloadID == Simple([downloadId |-> DownloadID, allowIncognito |-> Incognito], "none")
ValidateDownloadCreate ==
    Simple([url |-> Required(BoundedString(8192)), allowIncognito |-> Incognito], "none")
ValidateDownloadErase ==
    Simple([downloadId |-> DownloadID, confirm |-> Confirmation, allowIncognito |-> Incognito], "none")

PersonalURL == Formed(1, 8192)
PersonalID == BoundedString(256)
PersonalTitle == BoundedString(2048)
EpochTime == NumberRange(0, Huge)
ValidateHistorySearch ==
    Validator([text |-> Formed(0, 1024), startTime |-> EpochTime, endTime |-> EpochTime,
               cursor |-> PageOffset, limit |-> Limit], "none", "timeRange")
ValidateHistoryVisits ==
    Simple([url |-> Required(PersonalURL), cursor |-> PageOffset, limit |-> Limit], "none")
ValidateHistoryDeleteURL ==
    Simple([url |-> Required(PersonalURL), confirm |-> Confirmation], "none")
ValidateHistoryDeleteRange ==
    Validator([startTime |-> Required(EpochTime), endTime |-> Required(EpochTime),
               confirm |-> Confirmation], "none", "timeRange")
ValidateHistoryDeleteAll == Simple([confirm |-> Confirmation], "none")
ValidateBookmarkList ==
    Validator([query |-> Formed(0, 1024), parentId |-> PersonalID, cursor |-> PageOffset,
               limit |-> Limit], "none", "queryOrParent")
ValidateBookmarkCreate ==
    Simple([title |-> Required(PersonalTitle), url |-> PersonalURL, parentId |-> PersonalID,
            index |-> Identifier], "none")
ValidateBookmarkUpdate ==
    Validator([bookmarkId |-> Required(PersonalID), title |-> PersonalTitle, url |-> PersonalURL],
              "none", "titleOrURL")
ValidateBookmarkMove ==
    Validator([bookmarkId |-> Required(PersonalID), parentId |-> PersonalID, index |-> Identifier],
              "none", "parentOrIndex")
ValidateBookmarkRemove ==
    Validator([bookmarkId |-> Required(PersonalID), recursive |-> Boolean, confirm |-> Boolean],
              "none", "recursive")
ValidateReadingListList ==
    Simple([title |-> Formed(0, 2048), url |-> PersonalURL, hasBeenRead |-> Boolean,
            cursor |-> PageOffset, limit |-> Limit], "none")
ValidateReadingListAdd ==
    Simple([url |-> Required(PersonalURL), title |-> Required(PersonalTitle),
            hasBeenRead |-> Required(Boolean)], "none")
ValidateReadingListUpdate ==
    Validator([url |-> Required(PersonalURL), title |-> PersonalTitle, hasBeenRead |-> Boolean],
              "none", "titleOrRead")
ValidateReadingListRemove == Simple([url |-> Required(PersonalURL)], "none")

----------------------------------------------------------------------------
(* Conditions on several properties.                                       *)

Has(p, f) == f \in DOMAIN p
Is(p, f, w) == Has(p, f) /\ p[f].w = w
Holds(p, f) == Has(p, f) /\ p[f].b
Or(p, f, default) == IF Has(p, f) THEN p[f].n ELSE default
CountOf(p, fs) == Cardinality(fs \cap DOMAIN p)
Addresses == {"selector", "coordinates", "locator"}

OneAddress(p) == CountOf(p, Addresses) = 1 /\ (Has(p, "index") => Has(p, "selector"))
StateAndBounds(p) ==
    CountOf(p, {"left", "top", "width", "height"}) > 0 /\ Has(p, "state") => Is(p, "state", "normal")

Together(rule, p) ==
    CASE rule = "nothing" -> TRUE
      [] rule = "stateAndBounds" -> StateAndBounds(p)
      [] rule = "someUpdate" -> DOMAIN p # {} /\ StateAndBounds(p)
      [] rule = "groupOrWindow" -> ~(Has(p, "groupId") /\ Has(p, "windowId"))
      [] rule = "someGroupUpdate" -> Cardinality(DOMAIN p) > 1
      [] rule = "oneAddress" -> OneAddress(p)
      [] rule = "delayedText" -> OneAddress(p) /\ (Or(p, "delayMs", 0) > 0 => p["text"].runes <= 10000)
      [] rule = "scroll" ->
            /\ CountOf(p, Addresses) > 0 => OneAddress(p)
            /\ Or(p, "deltaX", 0) # 0 \/ Or(p, "deltaY", 0) # 0
            /\ ~(Is(p, "backend", "cdp") /\ Is(p, "behavior", "smooth"))
      [] rule = "oneDropTarget" -> CountOf(p, {"targetLocator", "targetCoordinates"}) = 1
      [] rule = "oneURL" -> CountOf(p, {"url", "urlPattern"}) = 1
      [] rule = "expectedCompared" ->
            Has(p, "expected") <=> p["attributeState"].w \in {"equals", "contains"}
      [] rule = "screenshot" ->
            /\ Has(p, "locator") <=> Is(p, "capture", "element")
            /\ Has(p, "quality") => Is(p, "format", "jpeg")
      [] rule = "margins" ->
            /\ Or(p, "marginLeft", 40) + Or(p, "marginRight", 40) < Or(p, "paperWidth", 850)
            /\ Or(p, "marginTop", 40) + Or(p, "marginBottom", 40) < Or(p, "paperHeight", 1100)
      [] rule = "accessibility" ->
            /\ IF Is(p, "mode", "full")
               THEN Has(p, "maxDepth") /\ ~Has(p, "backendNodeId") /\ ~Has(p, "fetchRelatives")
               ELSE Has(p, "backendNodeId") /\ Has(p, "fetchRelatives") /\ ~Has(p, "maxDepth")
            /\ Holds(p, "includeElementReferences") \/ p["maxElementReferences"].n = 0
      [] rule = "emulation" ->
            /\ DOMAIN p # {}
            /\ Has(p, "touch") /\ Has(p["touch"].of, "maxTouchPoints") => Holds(p["touch"].of, "enabled")
      [] rule = "statusBounds" ->
            Has(p, "statusMin") /\ Has(p, "statusMax") => p["statusMin"].n <= p["statusMax"].n
      [] rule = "someCapture" ->
            ~(\A f \in {"captureConsole", "captureErrors"} : Has(p, f) /\ ~p[f].b)
      [] rule = "sameSite" -> Is(p, "sameSite", "no_restriction") => Holds(p, "secure")
      [] rule = "timeRange" ->
            Has(p, "startTime") /\ Has(p, "endTime") => p["startTime"].n < p["endTime"].n
      [] rule = "queryOrParent" ->
            ~(Has(p, "query") /\ p["query"].length > 0 /\ Has(p, "parentId"))
      [] rule = "titleOrURL" -> CountOf(p, {"title", "url"}) > 0
      [] rule = "parentOrIndex" -> CountOf(p, {"parentId", "index"}) > 0
      [] rule = "titleOrRead" -> CountOf(p, {"title", "hasBeenRead"}) > 0
      [] rule = "recursive" -> Holds(p, "recursive") => Holds(p, "confirm")

----------------------------------------------------------------------------
(* COMMANDS: the validator of each command.  The validators of page.wait   *)
(* and cdp.sendReadOnly depend on a parameter and are looked up apart.     *)

All(names, validator) == [c \in names |-> validator]

WindowAndTabCommands ==
    All({"browser.ping", "windows.list", "tabs.list"}, ValidateEmpty)
    @@ All({"windows.get", "windows.focus", "windows.close"}, ValidateWindowTarget)
    @@ "windows.create" :> ValidateWindowCreate @@ "windows.update" :> ValidateWindowUpdate
    @@ All({"tabs.get", "tabs.activate", "tabs.stop", "tabs.back", "tabs.forward",
            "tabs.duplicate", "tabs.close", "tabs.getZoom"}, ValidateTabEmpty)
    @@ "tabs.create" :> ValidateTabCreate @@ "tabs.navigate" :> ValidateTabNavigate
    @@ "tabs.reload" :> ValidateTabReload @@ "tabs.move" :> ValidateTabMove
    @@ "tabs.pin" :> ValidateTabPin @@ "tabs.mute" :> ValidateTabMute
    @@ "tabs.setZoom" :> ValidateTabSetZoom @@ "tabs.group" :> ValidateTabGroup
    @@ "tabs.ungroup" :> ValidateTabUngroup @@ "tabGroups.update" :> ValidateTabGroupUpdate
    @@ "sessions.recentlyClosed" :> ValidateRecentlyClosed
    @@ "sessions.restore" :> ValidateSessionRestore

DataCommands ==
    All({"cookies.list", "cookies.listSensitive"}, ValidateCookieList)
    @@ All({"cookies.get", "cookies.getSensitive", "cookies.remove"}, ValidateCookieIdentity)
    @@ "cookies.set" :> ValidateCookieSet
    @@ All({"storage.list", "storage.listSensitive"}, ValidateStorageList)
    @@ All({"storage.get", "storage.getSensitive", "storage.remove"}, ValidateStorageItem)
    @@ "storage.set" :> ValidateStorageSet @@ "storage.clear" :> ValidateStorageClear
    @@ All({"storage.cacheMetadata", "storage.indexedDBMetadata"}, ValidateStorageMetadata)

PersonalCommands ==
    "downloads.list" :> ValidateDownloadList @@ "downloads.create" :> ValidateDownloadCreate
    @@ All({"downloads.get", "downloads.pause", "downloads.resume", "downloads.cancel"},
           ValidateDownloadID)
    @@ "downloads.erase" :> ValidateDownloadErase
    @@ "history.search" :> ValidateHistorySearch @@ "history.getVisits" :> ValidateHistoryVisits
    @@ "history.deleteUrl" :> ValidateHistoryDeleteURL
    @@ "history.deleteRange" :> ValidateHistoryDeleteRange
    @@ "history.deleteAll" :> ValidateHistoryDeleteAll
    @@ "bookmarks.list" :> ValidateBookmarkList @@ "bookmarks.create" :> ValidateBookmarkCreate
    @@ "bookmarks.update" :> ValidateBookmarkUpdate @@ "bookmarks.move" :> ValidateBookmarkMove
    @@ "bookmarks.remove" :> ValidateBookmarkRemove
    @@ "readingList.list" :> ValidateReadingListList @@ "readingList.add" :> ValidateReadingListAdd
    @@ "readingList.update" :> ValidateReadingListUpdate
    @@ "readingList.remove" :> ValidateReadingListRemove

PageCommands ==
    "page.info" :> ValidateEmpty @@ "page.getHTML" :> ValidateGetHTML
    @@ "page.getHTMLBySelector" :> ValidateSelector @@ "page.getText" :> ValidateGetText
    @@ "page.query" :> ValidateQuery @@ "page.getElement" :> ValidateGetElement
    @@ "page.snapshot" :> ValidateSnapshot @@ "page.click" :> ValidateAction
    @@ "page.fill" :> ValidateFill
    @@ All({"page.hover", "page.clear"}, ValidateSimpleAction)
    @@ All({"page.focus", "page.blur", "page.submit"}, ValidateContentOnlySimpleAction)
    @@ "page.type" :> ValidateType @@ "page.press" :> ValidatePress
    @@ "page.select" :> ValidateSelect @@ "page.setChecked" :> ValidateSetChecked
    @@ "page.scroll" :> ValidateScroll @@ "page.drag" :> ValidateDrag
    @@ "page.dispatch" :> ValidateDispatch @@ "page.screenshot" :> ValidateScreenshot
    @@ "page.printToPDF" :> ValidatePrintToPDF

DebuggerCommands ==
    "accessibility.getTree" :> ValidateAccessibilityTree
    @@ "emulation.set" :> ValidateEmulationSet @@ "emulation.get" :> ValidateEmulationEmpty
    @@ "emulation.reset" :> ValidateEmulationReset
    @@ "runtime.evaluateIsolated" :> ValidateEvaluation
    @@ "performance.metrics" :> ValidatePerformanceMetrics
    @@ "performance.capture" :> ValidatePerformanceCapture
    @@ "network.start" :> ValidateNetworkStart
    @@ All({"network.stop", "network.clear"}, ValidateNetworkEmpty)
    @@ "network.read" :> ValidateNetworkRead @@ "network.getBody" :> ValidateNetworkBody
    @@ "network.exportHAR" :> ValidateNetworkHAR @@ "console.start" :> ValidateConsoleStart
    @@ All({"console.stop", "console.clear"}, ValidateConsoleEmpty)
    @@ "console.read" :> ValidateConsoleRead

FixedCommands == WindowAndTabCommands @@ DataCommands @@ PersonalCommands @@ PageCommands
                 @@ DebuggerCommands
COMMANDS == DOMAIN FixedCommands \cup {"page.wait", "cdp.sendReadOnly"}

ValidatorOf(command, p) ==
    CASE command = "page.wait" -> ValidateWait(IF Has(p, "condition") THEN p["condition"].w ELSE "")
      [] command = "cdp.sendReadOnly" -> ValidateRawCDP(IF Has(p, "method") THEN p["method"].w ELSE "")
      [] OTHER -> FixedCommands[command]

\* definition.validate after validateTarget, as dispatch calls them.
Accepts(command, p, target) ==
    LET v == ValidatorOf(command, p)
    IN  /\ ValidateTarget(target)
        /\ TargetOK(v.target, target)
        /\ Conforms(p, v.fields, Meets)
        /\ Together(v.together, p)
====
