SPECIFICATION Spec
CONSTANTS
    h1 = h1
    h2 = h2
    Savers = {h1, h2}
    Clients <- SomeClients
    s1 = s1
    s2 = s2
    Slots = {s1, s2}
    Stories = {a}
    Nothing = Nothing
    Torn = Torn
    Missing = Missing
    Unsure = Unsure
    Models = {"m.gguf"}
    Configs = {"bad.kcpps"}
    Broken = {"bad.kcpps"}
    Original = "original"
    Defaults = "defaults"
    Unload = "unload_model"
PROPERTIES LoadEndsRecovery
