CONSTANTS
  MaxName = 6
  Decoded <- SpelledDecoded
  Text <- SpelledText
  Slug <- SpelledSlug
  Key <- SpelledKey
  Words <- SomeWords
  Tokens <- SpelledTokens
  Alike <- SomeAlike
  Sources = {"source"}
  Dirs = {"folder"}
  Files = {"file"}
  NameOf <- NameOfAll
  PrefersBf16 = TRUE
  NoName = NoName
  None = None
  NoEntry = NoEntry
  Missing = Missing
  Catalogs <- FluxCatalogs
  Exports = {4, 6}
  Requests <- NameRequests
  ConfigModel <- GenericBf16
  ConfigLora = {"file"}
  ConfigGguf = {}
  Installed = {"klein", "edit", "bf16", "lora_add_q41", "q41"}
  Alias = Alias
SPECIFICATION Spec
INVARIANT OwnEntryResolved
