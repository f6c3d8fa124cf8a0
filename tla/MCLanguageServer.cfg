SPECIFICATION Spec
CONSTANTS
  Uris = {"a", "b", "c"}
  Workspace = {"a", "b"}
  TextsOf <- TextsOfValue
  NoFile = NoFile
INVARIANTS
  EntriesFitTheText
  DefinitionsAreFound
  ContextKnowsTheDocuments
